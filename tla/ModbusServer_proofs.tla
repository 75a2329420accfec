-------------------------- MODULE ModbusServer_proofs --------------------------
(****************************************************************************)
(* A write request is accepted exactly when it names whole fields, and then *)
(* it overwrites just these, for every 16-bit address and quantity; a read  *)
(* that is answered lies inside the register bank.                          *)
(****************************************************************************)
EXTENDS ModbusServer, SequenceTheorems, TLAPS

\* The ranges of one, two or three neighbouring fields, and the empty ones
\* outside the fields.
Listed(addr, qty) ==
  \/ addr \in {40, 42, 44} /\ qty = 2
  \/ addr \in {40, 42} /\ qty = 4
  \/ addr = 40 /\ qty = 6
  \/ addr \notin {41, 43, 45} /\ qty = 0

\* The fields a master can write.
LEMMA Domain == DOMAIN CommandFields = {"machineCtrl", "axis0Flags", "productionSt"}
  BY DEF CommandFields

\* The listed ranges are writable, ...
LEMMA ListedIsWritable ==
  ASSUME NEW addr \in Uint16, NEW qty \in Uint16, Listed(addr, qty)
  PROVE  Writable(addr, qty)
<1> DEFINE D == DOMAIN CommandFields
           U(S) == UNION {SpanOf(f) : f \in S}
<1>1. /\ SpanOf("machineCtrl") = {40, 41}
      /\ SpanOf("axis0Flags") = {42, 43}
      /\ SpanOf("productionSt") = {44, 45}
  BY DEF SpanOf, Span, Field, CommandFields, Width
<1>2. \E S \in SUBSET D : Named(addr, qty) = U(S)
  <2>1. CASE qty = 0
    <3>1. Named(addr, qty) = U({})
      BY <2>1 DEF Named, Uint16
    <3> QED BY <3>1
  <2>2. CASE addr = 40 /\ qty = 2
    <3>1. Named(addr, qty) = U({"machineCtrl"})
      BY <1>1, <2>2 DEF Named
    <3> QED BY <3>1, Domain
  <2>3. CASE addr = 42 /\ qty = 2
    <3>1. Named(addr, qty) = U({"axis0Flags"})
      BY <1>1, <2>3 DEF Named
    <3> QED BY <3>1, Domain
  <2>4. CASE addr = 44 /\ qty = 2
    <3>1. Named(addr, qty) = U({"productionSt"})
      BY <1>1, <2>4 DEF Named
    <3> QED BY <3>1, Domain
  <2>5. CASE addr = 40 /\ qty = 4
    <3>1. Named(addr, qty) = U({"machineCtrl", "axis0Flags"})
      BY <1>1, <2>5 DEF Named
    <3> QED BY <3>1, Domain
  <2>6. CASE addr = 42 /\ qty = 4
    <3>1. Named(addr, qty) = U({"axis0Flags", "productionSt"})
      BY <1>1, <2>6 DEF Named
    <3> QED BY <3>1, Domain
  <2>7. CASE addr = 40 /\ qty = 6
    <3>1. Named(addr, qty) = U(D)
      BY <1>1, <2>7, Domain DEF Named
    <3> QED BY <3>1
  <2> QED BY <2>1, <2>2, <2>3, <2>4, <2>5, <2>6, <2>7 DEF Listed
<1>3. qty = 0 => \A f \in D : addr # CommandFields[f] + 1
  BY Domain DEF Listed, CommandFields, Uint16
<1> QED BY <1>2, <1>3 DEF Writable

\* ... and there are no others.
LEMMA WritableIsListed ==
  ASSUME NEW addr \in Uint16, NEW qty \in Uint16, Writable(addr, qty)
  PROVE  Listed(addr, qty)
<1>1. /\ SpanOf("machineCtrl") = {40, 41}
      /\ SpanOf("axis0Flags") = {42, 43}
      /\ SpanOf("productionSt") = {44, 45}
  BY DEF SpanOf, Span, Field, CommandFields, Width
<1>2. PICK S \in SUBSET DOMAIN CommandFields :
        Named(addr, qty) = UNION {SpanOf(f) : f \in S}
  BY DEF Writable
<1> DEFINE m == "machineCtrl" \in S
           a == "axis0Flags" \in S
           p == "productionSt" \in S
<1>3. \A r \in Int : (addr <= r /\ r < addr + qty) <=>
        \/ m /\ r \in {40, 41}
        \/ a /\ r \in {42, 43}
        \/ p /\ r \in {44, 45}
  <2> TAKE r \in Int
  <2>1. r \in Named(addr, qty) <=> (addr <= r /\ r < addr + qty)
    BY DEF Named, Uint16
  <2>2. r \in Named(addr, qty) <=> \E f \in S : r \in SpanOf(f)
    BY <1>2
  <2>3. (\E f \in S : r \in SpanOf(f)) <=>
          \/ m /\ r \in {40, 41}
          \/ a /\ r \in {42, 43}
          \/ p /\ r \in {44, 45}
    BY <1>1, Domain
  <2> QED BY <2>1, <2>2, <2>3
<1> HIDE DEF m, a, p
<1>4. qty = 0 => addr \notin {41, 43, 45}
  BY Domain DEF Writable, CommandFields
<1>5. CASE qty = 0
  BY <1>4, <1>5 DEF Listed
<1>6. CASE qty # 0
  <2>1. addr \in Int /\ qty \in Int /\ qty > 0
    BY <1>6 DEF Uint16
  <2>2. /\ (addr <= 40 /\ 40 < addr + qty) <=> m
        /\ (addr <= 41 /\ 41 < addr + qty) <=> m
        /\ (addr <= 42 /\ 42 < addr + qty) <=> a
        /\ (addr <= 43 /\ 43 < addr + qty) <=> a
        /\ (addr <= 44 /\ 44 < addr + qty) <=> p
        /\ (addr <= 45 /\ 45 < addr + qty) <=> p
    BY <1>3
  <2>3. addr \in 40..45 /\ addr + qty - 1 \in 40..45
    BY <1>3, <2>1
  <2> QED BY <2>1, <2>2, <2>3 DEF Listed
<1> QED BY <1>5, <1>6

\* A state of the loop, and what one round makes of it.
LoopState(st) ==
  /\ st = [cmd |-> st.cmd, covered |-> st.covered, err |-> st.err]
  /\ st.err \in BOOLEAN
  /\ st.covered \in Int

Round(st, st1, fAddr, addr, end) ==
  LET skip   == st.err \/ fAddr + 2 <= addr \/ end <= fAddr
      refuse == fAddr < addr \/ end < fAddr + 2
  IN  \/ skip /\ st1.err = st.err /\ st1.covered = st.covered
      \/ ~skip /\ refuse /\ st1.err = TRUE /\ st1.covered = st.covered
      \/ ~skip /\ ~refuse /\ st1.err = FALSE /\ st1.covered = st.covered + 2

\* One round of the loop.
LEMMA WriteFieldRound ==
  ASSUME NEW st, LoopState(st), st.covered \in {0, 2, 4},
         NEW f \in DOMAIN CommandFields, NEW addr \in Uint16, NEW end \in Uint16, NEW regs,
         NEW st1, st1 = WriteField(st, f, addr, end, regs)
  PROVE  /\ LoopState(st1)
         /\ Round(st, st1, CommandFields[f], addr, end)
<1> DEFINE F == CommandFields[f]
           Skip == st.err \/ F + 2 <= addr \/ end <= F
           Refuse == F < addr \/ end < F + 2
<1>1. /\ F \in {40, 42, 44}
      /\ Add16(F, Width) = F + 2
      /\ Add16(st.covered, Width) = st.covered + 2
  BY Domain DEF CommandFields, Add16, Width
<1>2. st = [cmd |-> st.cmd, covered |-> st.covered, err |-> st.err]
  BY DEF LoopState
<1>3. CASE Skip
  <2>1. st1 = st
    BY <1>1, <1>3 DEF WriteField
  <2> QED BY <1>3, <2>1 DEF Round
<1>4. CASE ~Skip /\ Refuse
  <2>1. st1 = [st EXCEPT !.err = TRUE]
    BY <1>1, <1>4 DEF WriteField
  <2>2. st1 = [cmd |-> st.cmd, covered |-> st.covered, err |-> TRUE]
    BY <1>2, <2>1
  <2>3. /\ st1.cmd = st.cmd /\ st1.covered = st.covered /\ st1.err = TRUE
    BY <2>2
  <2>4. LoopState(st1)
    BY <2>2, <2>3 DEF LoopState
  <2> QED BY <1>4, <2>3, <2>4 DEF Round
<1>5. CASE ~Skip /\ ~Refuse
  <2> DEFINE d == [st.cmd EXCEPT ![f] = ReadU32(regs, F - addr)]
  <2>1. st1 = [cmd |-> d, covered |-> st.covered + 2, err |-> FALSE]
    BY <1>1, <1>5 DEF WriteField
  <2> HIDE DEF d
  <2>2. /\ st1.cmd = d /\ st1.covered = st.covered + 2 /\ st1.err = FALSE
    BY <2>1
  <2>3. LoopState(st1)
    BY <2>1, <2>2 DEF LoopState
  <2> QED BY <1>5, <2>2, <2>3 DEF Round
<1> QED BY <1>3, <1>4, <1>5

\* The arithmetic of the three rounds, with the sum of address and quantity
\* taken in 16 bits.
Skip(fAddr, addr, end) == fAddr + 2 <= addr \/ end <= fAddr
Whole(fAddr, addr, end) == addr <= fAddr /\ fAddr + 2 <= end
Count(fAddr, addr, end) == IF Skip(fAddr, addr, end) THEN 0 ELSE 2

\* No field is cut and the registers of the fields inside add up to the length
\* exactly for the listed ranges.
LEMMA CountsAreListed ==
  ASSUME NEW addr \in Uint16, NEW qty \in Uint16, NEW end \in Uint16,
         \/ end = addr + qty
         \/ end = addr + qty - 65536 /\ addr + qty >= 65536
  PROVE  /\ \A F \in {40, 42, 44} : Skip(F, addr, end) \/ Whole(F, addr, end)
         /\ Count(40, addr, end) + Count(42, addr, end) + Count(44, addr, end) = qty
         <=> Listed(addr, qty)
  BY SMTT(60) DEF Skip, Whole, Count, Listed, Uint16

Outcome(st, st1, F, addr, end) ==
  /\ st1.err = FALSE <=>
       st.err = FALSE /\ (Skip(F, addr, end) \/ Whole(F, addr, end))
  /\ st1.err = FALSE => st1.covered = st.covered + Count(F, addr, end)

\* A round adds a field inside the range, fails on one it cuts, or passes over.
LEMMA RoundOutcome ==
  ASSUME NEW st, LoopState(st), NEW st1, LoopState(st1),
         NEW addr \in Uint16, NEW end \in Uint16, NEW F \in Int,
         Round(st, st1, F, addr, end)
  PROVE  Outcome(st, st1, F, addr, end)
<1>1. addr \in Int /\ end \in Int
  BY DEF Uint16
<1>2. CASE st.err
  BY <1>1, <1>2 DEF Outcome, Round, LoopState
<1>3. CASE ~st.err
  <2>1. CASE Skip(F, addr, end)
    BY <1>1, <1>3, <2>1 DEF Outcome, Round, LoopState, Skip, Count
  <2>2. CASE ~Skip(F, addr, end) /\ Whole(F, addr, end)
    BY <1>1, <1>3, <2>2 DEF Outcome, Round, LoopState, Skip, Whole, Count
  <2>3. CASE ~Skip(F, addr, end) /\ ~Whole(F, addr, end)
    BY <1>1, <1>3, <2>3 DEF Outcome, Round, LoopState, Skip, Whole
  <2> QED BY <2>1, <2>2, <2>3
<1> QED BY <1>2, <1>3 DEF LoopState, Outcome

\* The 16-bit sum: exact, or wrapped to below its first summand.
LEMMA Sum16 ==
  ASSUME NEW addr \in Uint16, NEW qty \in Uint16
  PROVE  /\ Add16(addr, qty) \in Uint16
         /\ \/ Add16(addr, qty) = addr + qty
            \/ Add16(addr, qty) = addr + qty - 65536 /\ addr + qty >= 65536
<1>1. addr \in Int /\ 0 <= addr /\ addr <= 65535
  BY DEF Uint16
<1>2. qty \in Int /\ 0 <= qty /\ qty <= 65535
  BY DEF Uint16
<1>3. PICK sum \in Int : sum = addr + qty /\ 0 <= sum /\ sum <= 131070
  BY ONLY <1>1, <1>2
<1>4. Add16(addr, qty) = sum % 65536
  BY <1>3 DEF Add16
<1>5. CASE sum < 65536
  <2>1. sum % 65536 = sum
    BY <1>3, <1>5
  <2>2. Add16(addr, qty) = sum
    BY <1>4, <2>1
  <2>3. sum \in Uint16
    BY <1>3, <1>5 DEF Uint16
  <2> QED BY <1>3, <2>2, <2>3
<1>6. CASE sum >= 65536
  <2>1. sum % 65536 = sum - 65536
    BY <1>3, <1>6
  <2>2. Add16(addr, qty) = sum - 65536
    BY <1>4, <2>1
  <2>3. sum - 65536 \in Uint16
    BY <1>3, <1>6 DEF Uint16
  <2>4. addr + qty >= 65536 /\ sum - 65536 = addr + qty - 65536
    BY ONLY <1>1, <1>2, <1>3, <1>6
  <2> QED BY <2>2, <2>3, <2>4
<1> QED BY <1>3, <1>5, <1>6

\* The four states of the loop, from the command c to the result.
ThreeRounds(c, addr, qty, regs, st0, st1, st2, st3) ==
  /\ st0 = [cmd |-> c, covered |-> 0, err |-> FALSE]
  /\ st1 = WriteField(st0, "machineCtrl", addr, Add16(addr, qty), regs)
  /\ st2 = WriteField(st1, "axis0Flags", addr, Add16(addr, qty), regs)
  /\ st3 = WriteField(st2, "productionSt", addr, Add16(addr, qty), regs)
  /\ ApplyCommandWrite(c, addr, qty, regs) =
       [cmd |-> st3.cmd, err |-> st3.err \/ st3.covered # qty]

\* The loop is three rounds.
LEMMA RoundsExist ==
  ASSUME NEW c, NEW regs, NEW addr, NEW qty
  PROVE  \E st0, st1, st2, st3 : ThreeRounds(c, addr, qty, regs, st0, st1, st2, st3)
<1>1. PICK st0 : st0 = [cmd |-> c, covered |-> 0, err |-> FALSE]
  OBVIOUS
<1>2. PICK st1 : st1 = WriteField(st0, "machineCtrl", addr, Add16(addr, qty), regs)
  OBVIOUS
<1>3. PICK st2 : st2 = WriteField(st1, "axis0Flags", addr, Add16(addr, qty), regs)
  OBVIOUS
<1>4. PICK st3 : st3 = WriteField(st2, "productionSt", addr, Add16(addr, qty), regs)
  OBVIOUS
<1>5. ApplyCommandWrite(c, addr, qty, regs) =
        [cmd |-> st3.cmd, err |-> st3.err \/ st3.covered # qty]
  BY <1>1, <1>2, <1>3, <1>4 DEF ApplyCommandWrite, WriteFields
<1> QED BY <1>1, <1>2, <1>3, <1>4, <1>5 DEF ThreeRounds

\* What is known of them: at most one field is counted in each round, and the
\* loop fails in the first field that lies inside the range only partly.
RoundsSound(c, addr, end, st0, st1, st2, st3) ==
  /\ LoopState(st0) /\ LoopState(st1) /\ LoopState(st2) /\ LoopState(st3)
  /\ st0.err = FALSE /\ st0.covered = 0 /\ st0.cmd = c
  /\ st1.covered \in {0, 2} /\ st2.covered \in {0, 2, 4}
  /\ Outcome(st0, st1, 40, addr, end)
  /\ Outcome(st1, st2, 42, addr, end)
  /\ Outcome(st2, st3, 44, addr, end)

\* What the three rounds leave behind.
LEMMA RoundsOutcome ==
  ASSUME NEW c, NEW regs, NEW addr \in Uint16, NEW qty \in Uint16,
         NEW st0, NEW st1, NEW st2, NEW st3, ThreeRounds(c, addr, qty, regs, st0, st1, st2, st3)
  PROVE  RoundsSound(c, addr, Add16(addr, qty), st0, st1, st2, st3)
<1>1. PICK end \in Uint16 : end = Add16(addr, qty)
  BY Sum16
<1>2. /\ CommandFields["machineCtrl"] = 40 /\ CommandFields["axis0Flags"] = 42
      /\ CommandFields["productionSt"] = 44
  BY DEF CommandFields
<1>3. /\ st0 = [cmd |-> c, covered |-> 0, err |-> FALSE]
      /\ st1 = WriteField(st0, "machineCtrl", addr, end, regs)
      /\ st2 = WriteField(st1, "axis0Flags", addr, end, regs)
      /\ st3 = WriteField(st2, "productionSt", addr, end, regs)
  BY <1>1 DEF ThreeRounds
<1>4. LoopState(st0) /\ st0.err = FALSE /\ st0.covered = 0 /\ st0.cmd = c
  BY <1>3 DEF LoopState
<1>5. LoopState(st1) /\ Round(st0, st1, 40, addr, end)
  BY <1>2, <1>3, <1>4, WriteFieldRound, Domain
<1>6. st1.covered \in {0, 2}
  BY <1>4, <1>5 DEF Round
<1>7. LoopState(st2) /\ Round(st1, st2, 42, addr, end)
  BY <1>2, <1>3, <1>5, <1>6, WriteFieldRound, Domain
<1>8. st2.covered \in {0, 2, 4}
  BY <1>6, <1>7 DEF Round
<1>9. LoopState(st3) /\ Round(st2, st3, 44, addr, end)
  BY <1>2, <1>3, <1>7, <1>8, WriteFieldRound, Domain
<1>10. /\ Outcome(st0, st1, 40, addr, end)
       /\ Outcome(st1, st2, 42, addr, end)
       /\ Outcome(st2, st3, 44, addr, end)
  BY <1>4, <1>5, <1>7, <1>9, RoundOutcome
<1> QED BY <1>1, <1>4, <1>5, <1>6, <1>7, <1>8, <1>9, <1>10 DEF RoundsSound

\* The loop reports no error exactly for the listed ranges.
LEMMA AcceptedIffListed ==
  ASSUME NEW c, NEW regs, NEW addr \in Uint16, NEW qty \in Uint16
  PROVE  ~ApplyCommandWrite(c, addr, qty, regs).err <=> Listed(addr, qty)
<1>1. PICK end \in Uint16 :
        /\ end = Add16(addr, qty)
        /\ \/ end = addr + qty
           \/ end = addr + qty - 65536 /\ addr + qty >= 65536
  BY Sum16
<1>2. PICK st0, st1, st2, st3 : ThreeRounds(c, addr, qty, regs, st0, st1, st2, st3)
  BY RoundsExist
<1>3. ApplyCommandWrite(c, addr, qty, regs).err = (st3.err \/ st3.covered # qty)
  BY <1>2 DEF ThreeRounds
<1>4. RoundsSound(c, addr, Add16(addr, qty), st0, st1, st2, st3)
  BY <1>2, RoundsOutcome
<1>5. /\ LoopState(st3) /\ st0.err = FALSE /\ st0.covered = 0
      /\ Outcome(st0, st1, 40, addr, end)
      /\ Outcome(st1, st2, 42, addr, end)
      /\ Outcome(st2, st3, 44, addr, end)
  BY <1>1, <1>4 DEF RoundsSound
<1>6. {Count(40, addr, end), Count(42, addr, end), Count(44, addr, end)} \subseteq Int
  BY DEF Count
<1>7. st3.err = FALSE =>
        st3.covered = Count(40, addr, end) + Count(42, addr, end) + Count(44, addr, end)
  BY <1>5, <1>6 DEF Outcome
<1>8. (\A F \in {40, 42, 44} : Skip(F, addr, end) \/ Whole(F, addr, end))
        <=> st3.err = FALSE
  BY <1>5 DEF Outcome
<1>9. (st3.err = FALSE /\ st3.covered = qty) <=> Listed(addr, qty)
  BY <1>1, <1>7, <1>8, CountsAreListed
<1> QED BY <1>3, <1>5, <1>9 DEF LoopState

\* ApplyCommandWrite accepts a range exactly when it consists of whole fields,
\* over all 16-bit addresses and quantities: its sum in 16 bits is harmless.
THEOREM AcceptedIffWritable ==
  ASSUME NEW c, NEW regs, NEW addr \in Uint16, NEW qty \in Uint16
  PROVE  ~ApplyCommandWrite(c, addr, qty, regs).err <=> Writable(addr, qty)
  BY AcceptedIffListed, ListedIsWritable, WritableIsListed

-----------------------------------------------------------------------------
(* What an accepted write does to the command.                              *)

\* The words a request of whole fields has for field f.
WordsFor(f, addr) == <<CommandFields[f] - addr + 1, CommandFields[f] - addr + 2>>

Assigns(st, st1, f, addr, end) ==
  st1.cmd = IF st.err = FALSE /\ Whole(CommandFields[f], addr, end)
            THEN [st.cmd EXCEPT ![f] = WordsFor(f, addr)] ELSE st.cmd

\* A round assigns its field when it lies inside the range, and nothing else;
\* the sum in 16 bits never makes it read beyond the words of the request.
LEMMA RoundAssigns ==
  ASSUME NEW st, LoopState(st), st.covered \in {0, 2, 4}, st.cmd \in Command,
         NEW f \in DOMAIN CommandFields, NEW addr \in Uint16, NEW qty \in Uint16,
         NEW st1, st1 = WriteField(st, f, addr, Add16(addr, qty), Regs(qty))
  PROVE  st1.cmd \in Command /\ Assigns(st, st1, f, addr, Add16(addr, qty))
<1> DEFINE F == CommandFields[f]
           end == Add16(addr, qty)
           Passed == st.err \/ F + 2 <= addr \/ end <= F
           Refused == F < addr \/ end < F + 2
<1>1. /\ F \in {40, 42, 44}
      /\ Add16(F, Width) = F + 2
  BY Domain DEF CommandFields, Add16, Width
<1>2. /\ end \in Uint16
      /\ end = addr + qty \/ (end = addr + qty - 65536 /\ addr + qty >= 65536)
  BY Sum16
<1> HIDE DEF end, F
<1>3. addr \in Int /\ qty \in Int /\ 0 <= addr /\ 0 <= qty /\ end \in Int
  BY <1>2 DEF Uint16
<1>4. qty <= 65535
  BY DEF Uint16
<1>5. CASE Passed
  <2>1. st1 = st
    BY <1>1, <1>5 DEF WriteField, end, F
  <2>2. ~(st.err = FALSE /\ Whole(F, addr, end))
    BY <1>1, <1>3, <1>5 DEF Whole
  <2> QED BY <2>1, <2>2 DEF Assigns, end, F
<1>6. CASE ~Passed /\ Refused
  <2>1. st1 = [st EXCEPT !.err = TRUE]
    BY <1>1, <1>6 DEF WriteField, end, F
  <2>2. st1.cmd = st.cmd
    BY <2>1 DEF LoopState
  <2>3. ~Whole(F, addr, end)
    BY <1>1, <1>3, <1>6 DEF Whole
  <2> QED BY <2>2, <2>3 DEF Assigns, end, F
<1>7. CASE ~Passed /\ ~Refused
  <2> DEFINE o == F - addr
  <2>1. st1 = [cmd |-> [st.cmd EXCEPT ![f] = ReadU32(Regs(qty), o)],
               covered |-> Add16(st.covered, Width), err |-> FALSE]
    BY <1>1, <1>7 DEF WriteField, end, F
  <2>2. addr <= F /\ F + 2 <= addr + qty
    BY <1>1, <1>3, <1>2, <1>4, <1>7
  <2>3. o + 1 \in 1..qty /\ o + 2 \in 1..qty
    BY <1>1, <1>3, <2>2
  <2> HIDE DEF o
  <2>4. ReadU32(Regs(qty), o) = <<o + 1, o + 2>>
    BY <2>3 DEF ReadU32, Regs
  <2>5. <<o + 1, o + 2>> \in Values
    BY <1>3, <2>3 DEF Values
  <2>6. [st.cmd EXCEPT ![f] = <<o + 1, o + 2>>] \in Command
    BY <2>5 DEF Command
  <2>7. st.err = FALSE /\ Whole(F, addr, end)
    BY <1>1, <1>3, <1>7 DEF Whole, LoopState
  <2>8. WordsFor(f, addr) = <<o + 1, o + 2>>
    BY DEF WordsFor, o, F
  <2>9. st1.cmd = [st.cmd EXCEPT ![f] = WordsFor(f, addr)]
    BY <2>1, <2>4, <2>8
  <2> QED BY <2>6, <2>7, <2>8, <2>9 DEF Assigns, end, F
<1> QED BY <1>5, <1>6, <1>7

\* All fields of an accepted range are overwritten with their words and the
\* others keep theirs.
LEMMA WrittenFields ==
  ASSUME NEW c \in Command, NEW addr \in Uint16, NEW qty \in Uint16
  PROVE  LET r == ApplyCommandWrite(c, addr, qty, Regs(qty))
         IN  /\ r.cmd \in Command
             /\ ~r.err => r.cmd = Overwritten(c, addr, qty)
<1> DEFINE regs == Regs(qty)
           end == Add16(addr, qty)
<1>1. PICK st0, st1, st2, st3 : ThreeRounds(c, addr, qty, regs, st0, st1, st2, st3)
  BY RoundsExist
<1>2. /\ ApplyCommandWrite(c, addr, qty, regs).cmd = st3.cmd
      /\ ApplyCommandWrite(c, addr, qty, regs).err = (st3.err \/ st3.covered # qty)
  BY <1>1 DEF ThreeRounds
<1>3. RoundsSound(c, addr, end, st0, st1, st2, st3)
  BY <1>1, RoundsOutcome
<1>4. /\ LoopState(st0) /\ LoopState(st1) /\ LoopState(st2) /\ LoopState(st3)
      /\ st0.covered \in {0, 2, 4} /\ st1.covered \in {0, 2, 4} /\ st2.covered \in {0, 2, 4}
      /\ st0.err = FALSE /\ st0.cmd = c
      /\ Outcome(st0, st1, 40, addr, end) /\ Outcome(st1, st2, 42, addr, end)
      /\ Outcome(st2, st3, 44, addr, end)
  BY <1>3 DEF RoundsSound
<1>5. /\ st1 = WriteField(st0, "machineCtrl", addr, end, regs)
      /\ st2 = WriteField(st1, "axis0Flags", addr, end, regs)
      /\ st3 = WriteField(st2, "productionSt", addr, end, regs)
  BY <1>1 DEF ThreeRounds
<1>6. st1.cmd \in Command /\ Assigns(st0, st1, "machineCtrl", addr, end)
  BY <1>4, <1>5, RoundAssigns, Domain
<1>7. st2.cmd \in Command /\ Assigns(st1, st2, "axis0Flags", addr, end)
  BY <1>4, <1>5, <1>6, RoundAssigns, Domain
<1>8. st3.cmd \in Command /\ Assigns(st2, st3, "productionSt", addr, end)
  BY <1>4, <1>5, <1>7, RoundAssigns, Domain
<1> HIDE DEF regs
<1>9. ASSUME ~ApplyCommandWrite(c, addr, qty, regs).err
      PROVE  st3.cmd = Overwritten(c, addr, qty)
  <2> DEFINE Inside(f) == Whole(CommandFields[f], addr, end)
  <2>1. ~st3.err
    BY <1>2, <1>9
  <2>2. Listed(addr, qty)
    BY <1>9, AcceptedIffListed
  <2>3. end = addr + qty
    <3>1. end = addr + qty \/ addr + qty >= 65536
      BY Sum16
    <3>2. addr + qty < 65536
      BY <2>2 DEF Listed, Uint16
    <3>3. addr \in Int /\ qty \in Int
      BY DEF Uint16
    <3> QED BY <3>1, <3>2, <3>3
  <2>4. st1.err = FALSE /\ st2.err = FALSE
    BY <1>4, <2>1 DEF LoopState, Outcome
  <2>5. ASSUME NEW f \in DOMAIN CommandFields
        PROVE  SpanOf(f) \subseteq Named(addr, qty) <=> Inside(f)
    <3>1. CommandFields[f] \in {40, 42, 44}
      BY Domain DEF CommandFields
    <3>2. SpanOf(f) = {CommandFields[f], CommandFields[f] + 1}
      BY <3>1 DEF SpanOf, Span, Field, Width
    <3>3. addr \in Int /\ qty \in Int
      BY DEF Uint16
    <3> HIDE DEF end
    <3> QED BY <2>3, <3>1, <3>2, <3>3 DEF Named, Whole
  <2> HIDE DEF Inside, end
  <2>6. /\ st1.cmd = IF Inside("machineCtrl")
                     THEN [c EXCEPT !["machineCtrl"] = WordsFor("machineCtrl", addr)] ELSE c
        /\ st2.cmd = IF Inside("axis0Flags")
                     THEN [st1.cmd EXCEPT !["axis0Flags"] = WordsFor("axis0Flags", addr)]
                     ELSE st1.cmd
        /\ st3.cmd = IF Inside("productionSt")
                     THEN [st2.cmd EXCEPT !["productionSt"] = WordsFor("productionSt", addr)]
                     ELSE st2.cmd
    BY <1>4, <1>6, <1>7, <1>8, <2>4 DEF Assigns, Inside
  <2>7. ASSUME NEW f \in DOMAIN CommandFields
        PROVE  st3.cmd[f] = IF Inside(f) THEN WordsFor(f, addr) ELSE c[f]
    <3>1. CASE f = "machineCtrl"
      BY <1>6, <1>7, <2>6, <3>1, Domain DEF Command
    <3>2. CASE f = "axis0Flags"
      BY <1>6, <1>7, <2>6, <3>2, Domain DEF Command
    <3>3. CASE f = "productionSt"
      BY <1>6, <1>7, <2>6, <3>3, Domain DEF Command
    <3> QED BY <3>1, <3>2, <3>3, Domain
  <2>8. \A f \in DOMAIN CommandFields :
          st3.cmd[f] = IF SpanOf(f) \subseteq Named(addr, qty) THEN WordsFor(f, addr) ELSE c[f]
    BY <2>5, <2>7
  <2>9. st3.cmd = [f \in DOMAIN CommandFields |->
                     IF SpanOf(f) \subseteq Named(addr, qty) THEN WordsFor(f, addr) ELSE c[f]]
    BY <1>8, <2>8 DEF Command
  <2> QED BY <2>9 DEF Overwritten, WordsFor
<1> QED BY <1>2, <1>8, <1>9 DEF regs

-----------------------------------------------------------------------------
(* What a request does to the command and what it answers.                  *)

\* A write that is accepted overwrites the fields it names, a refused one
\* changes nothing.
LEMMA WrittenEffect ==
  ASSUME NEW c \in Command, NEW addr \in Uint16, NEW qty \in Uint16
  PROVE  LET w == Written(c, addr, qty)
         IN  /\ w.cmd \in Command
             /\ \/ w.resp = Echo /\ w.cmd = Overwritten(c, addr, qty)
                \/ w.resp = Exception(IllegalDataAddress) /\ w.cmd = c
<1> DEFINE a == ApplyCommandWrite(c, addr, qty, Regs(qty))
           r == ApplyWrite(c, addr, qty, Regs(qty))
           w == Written(c, addr, qty)
<1>1. a.cmd \in Command /\ (~a.err => a.cmd = Overwritten(c, addr, qty))
  BY WrittenFields
<1>2. r = [cmd |-> IF a.err THEN c ELSE a.cmd, err |-> a.err]
  BY DEF ApplyWrite
<1>3. w = [cmd |-> r.cmd, resp |-> IF r.err THEN Exception(IllegalDataAddress) ELSE Echo]
  BY DEF Written
<1> HIDE DEF a, r, w
<1>4. r.err = a.err /\ r.cmd = IF a.err THEN c ELSE a.cmd
  BY <1>2
<1>5. w.cmd = r.cmd /\ w.resp = IF r.err THEN Exception(IllegalDataAddress) ELSE Echo
  BY <1>3
<1>6. /\ w.cmd \in Command
      /\ \/ w.resp = Echo /\ w.cmd = Overwritten(c, addr, qty)
         \/ w.resp = Exception(IllegalDataAddress) /\ w.cmd = c
  BY <1>1, <1>4, <1>5
<1> QED BY <1>6 DEF w

\* A read that is answered with data lies inside the bank, with one word for
\* each register.
LEMMA ReadInsideBank ==
  ASSUME NEW req \in Pdu, NEW s
  PROVE  LET r == HandleRead(req, s)
         IN  \/ \E code \in 1..4 : r = Exception(code)
             \/ /\ r.kind = "data" /\ r.code = 0
                /\ Named(req.addr, req.qty) \subseteq 0..(HoldingMapSize - 1)
                /\ Len(r.words) = req.qty
<1> DEFINE r == HandleRead(req, s)
           words == [i \in 1..req.qty |-> EncodeData(req.addr + i - 1)]
<1>1. req.addr \in Int /\ 0 <= req.addr /\ req.qty \in Nat
  <2>1. req.addr \in Uint16 /\ req.qty \in Uint16
    BY DEF Pdu
  <2>2. \A n \in Uint16 : n \in Nat
    BY DEF Uint16
  <2> QED BY <2>1, <2>2
<1>2. CASE req.len # 5 \/ req.qty \notin 1..125
  BY <1>2 DEF HandleRead, IllegalDataValue
<1>3. CASE req.len = 5 /\ req.qty \in 1..125 /\ OutsideMap(req)
  BY <1>3 DEF HandleRead, IllegalDataAddress
<1>4. CASE req.len = 5 /\ req.qty \in 1..125 /\ ~OutsideMap(req)
  <2>1. CASE s # "fresh"
    BY <1>4, <2>1 DEF HandleRead, ServerFailure
  <2>2. CASE s = "fresh"
    <3>1. r = Data(words)
      BY <1>4, <2>2 DEF HandleRead
    <3>2. r.kind = "data" /\ r.code = 0 /\ r.words = words
      BY <3>1 DEF Data
    <3>3. Named(req.addr, req.qty) \subseteq 0..(HoldingMapSize - 1)
      BY <1>1, <1>4 DEF OutsideMap, HoldingMapSize, Named
    <3>4. words \in Seq({EncodeData(req.addr + i - 1) : i \in 1..req.qty})
      <4> DEFINE S == {EncodeData(req.addr + i - 1) : i \in 1..req.qty}
      <4>1. words \in [1..req.qty -> S]
        OBVIOUS
      <4> HIDE DEF S, words
      <4> QED BY <1>1, <4>1, SeqDef DEF S
    <3>5. Len(words) \in Nat /\ DOMAIN words = 1..Len(words)
      BY <3>4, LenProperties
    <3>6. 1..Len(words) = 1..req.qty
      BY <3>5
    <3>7. Len(words) = req.qty
      BY <1>1, <3>5, <3>6
    <3> QED BY <3>2, <3>3, <3>7
  <2> QED BY <2>1, <2>2
<1> QED BY <1>2, <1>3, <1>4

\* What every request does: it writes, it reads, or it is refused.
LEMMA DispatchEffect ==
  ASSUME NEW c \in Command, NEW req \in Pdu, NEW s
  PROVE  LET d == Dispatch(c, req, s)
         IN  /\ d.cmd \in Command
             /\ \/ d.resp = Echo /\ d.cmd = Overwritten(c, req.addr, WrittenQty(req))
                \/ (\E code \in 1..4 : d.resp = Exception(code)) /\ d.cmd = c
                \/ /\ d.resp.kind = "data" /\ d.resp.code = 0 /\ d.cmd = c
                   /\ Named(req.addr, req.qty) \subseteq 0..(HoldingMapSize - 1)
                   /\ Len(d.resp.words) = req.qty
<1> DEFINE d == Dispatch(c, req, s)
<1>1. req.addr \in Uint16 /\ req.qty \in Uint16 /\ 1 \in Uint16
  <2>1. 1 \in Uint16
    BY DEF Uint16
  <2> QED BY <2>1 DEF Pdu
<1>2. {IllegalFunction, IllegalDataAddress, IllegalDataValue} \subseteq 1..4
  BY DEF IllegalFunction, IllegalDataAddress, IllegalDataValue
<1>3. CASE req.fn = 3
  <2>1. d = [cmd |-> c, resp |-> HandleRead(req, s)]
    BY <1>3 DEF Dispatch
  <2>2. d.cmd = c /\ d.resp = HandleRead(req, s)
    BY <2>1
  <2> QED BY <2>2, ReadInsideBank
<1>4. CASE req.fn = 6
  <2>1. d = HandleWriteSingle(c, req) /\ WrittenQty(req) = 1
    BY <1>4 DEF Dispatch, WrittenQty
  <2>2. CASE req.len # 5
    <3>1. d.cmd = c /\ d.resp = Exception(IllegalDataValue)
      BY <2>1, <2>2 DEF HandleWriteSingle
    <3> QED BY <1>2, <3>1
  <2>3. CASE req.len = 5
    <3>1. d = Written(c, req.addr, 1)
      BY <2>1, <2>3 DEF HandleWriteSingle
    <3> QED BY <1>1, <1>2, <2>1, <3>1, WrittenEffect
  <2> QED BY <2>2, <2>3
<1>5. CASE req.fn = 16
  <2>1. d = HandleWriteMultiple(c, req) /\ WrittenQty(req) = req.qty
    BY <1>5 DEF Dispatch, WrittenQty
  <2>2. CASE req.len < 6 \/ req.bc # 2 * req.qty \/ req.len # 6 + req.bc
    <3>1. d.cmd = c /\ d.resp = Exception(IllegalDataValue)
      BY <2>1, <2>2 DEF HandleWriteMultiple
    <3> QED BY <1>2, <3>1
  <2>3. CASE ~(req.len < 6 \/ req.bc # 2 * req.qty \/ req.len # 6 + req.bc)
    <3>1. d = Written(c, req.addr, req.qty)
      BY <2>1, <2>3 DEF HandleWriteMultiple
    <3> QED BY <1>1, <1>2, <2>1, <3>1, WrittenEffect
  <2> QED BY <2>2, <2>3
<1>6. CASE req.fn \notin {3, 6, 16}
  <2>1. d.cmd = c /\ d.resp = Exception(IllegalFunction)
    BY <1>6 DEF Dispatch
  <2> QED BY <1>2, <2>1
<1> QED BY <1>3, <1>4, <1>5, <1>6

-----------------------------------------------------------------------------
(* The server.                                                              *)

\* The request at hand is one a master sent, and only the answer under way
\* carries a response.
ServerInv ==
  /\ ServerTypeOK
  /\ conn = [pc |-> conn.pc, req |-> conn.req, resp |-> conn.resp]
  /\ conn.pc = "request" => conn.req \in Requests
  /\ conn.pc # "respond" => conn.resp.kind = "none"
  /\ DataInsideBank

\* What a new sink starts from is a command.
LEMMA ZeroCommandTyped == ZeroCommand \in Command
  BY DEF ZeroCommand, Command, Values

\* A connection that is closed or has nothing to answer.
LEMMA RestingServerInv ==
  ASSUME conn \in {Closed, Idle}, cmd \in Command, snap \in {"none", "stale", "fresh"}
  PROVE  ServerInv
<1>1. /\ conn.pc \in {"closed", "idle"} /\ conn.req = NoRequest /\ conn.resp = NoResponse
      /\ conn = [pc |-> conn.pc, req |-> conn.req, resp |-> conn.resp]
  BY DEF Closed, Idle
<1>2. conn.resp.kind = "none" /\ conn.resp.code = 0
  BY <1>1 DEF NoResponse
<1> QED BY <1>1, <1>2 DEF ServerInv, ServerTypeOK, DataInsideBank

\* The same of the state a step leads to.
LEMMA RestingServerInvNext ==
  ASSUME conn' \in {Closed, Idle}, cmd' \in Command, snap' \in {"none", "stale", "fresh"}
  PROVE  ServerInv'
<1>1. /\ conn'.pc \in {"closed", "idle"} /\ conn'.req = NoRequest /\ conn'.resp = NoResponse
      /\ conn' = [pc |-> conn'.pc, req |-> conn'.req, resp |-> conn'.resp]
  BY DEF Closed, Idle
<1>2. conn'.resp.kind = "none" /\ conn'.resp.code = 0
  BY <1>1 DEF NoResponse
<1> QED BY <1>1, <1>2 DEF ServerInv, ServerTypeOK, DataInsideBank

\* A server nobody has connected to.
LEMMA ServerInvInit == ServerInit => ServerInv
  BY RestingServerInv, ZeroCommandTyped DEF ServerInit

\* One step of the connection, of another client, or of time.
LEMMA ServerInvStep ==
  ASSUME ServerInv, ServerStep
  PROVE  ServerInv'
<1>1. /\ conn.req \in Requests \union {NoRequest}
      /\ cmd \in Command /\ snap \in {"none", "stale", "fresh"}
      /\ conn = [pc |-> conn.pc, req |-> conn.req, resp |-> conn.resp]
  BY DEF ServerInv, ServerTypeOK
<1>2. CASE Accept \/ Hangup \/ Respond
  <2>1. conn' \in {Closed, Idle} /\ cmd' \in Command /\ snap' \in {"none", "stale", "fresh"}
    BY <1>1, <1>2 DEF Accept, Hangup, Respond
  <2> QED BY <2>1, RestingServerInvNext
<1>3. ASSUME NEW req \in Requests, Receive(req)
      PROVE  ServerInv'
  <2>1. conn' = [pc |-> "request", req |-> req, resp |-> conn.resp] /\ conn.pc = "idle"
    BY <1>1, <1>3 DEF Receive
  <2>2. conn'.pc = "request" /\ conn'.req = req /\ conn'.resp = conn.resp
    BY <2>1
  <2>3. conn.resp.kind = "none" /\ conn.resp.code \in 0..4
    BY <2>1 DEF ServerInv, ServerTypeOK
  <2> QED BY <1>1, <1>3, <2>1, <2>2, <2>3 DEF Receive, ServerInv, ServerTypeOK, DataInsideBank
<1>4. CASE Handle
  <2> DEFINE d == Dispatch(cmd, conn.req, snap)
  <2>1. conn.pc = "request" /\ conn.req \in Requests /\ conn.req \in Pdu
    BY <1>4, RequestsAssumption DEF Handle, ServerInv
  <2>2. /\ d.cmd \in Command
        /\ \/ d.resp = Echo
           \/ \E code \in 1..4 : d.resp = Exception(code)
           \/ /\ d.resp.kind = "data" /\ d.resp.code = 0
              /\ Named(conn.req.addr, conn.req.qty) \subseteq 0..(HoldingMapSize - 1)
              /\ Len(d.resp.words) = conn.req.qty
    BY <1>1, <2>1, DispatchEffect
  <2>3. conn' = [conn EXCEPT !.pc = "respond", !.resp = d.resp] /\ cmd' = d.cmd /\ snap' = snap
    BY <1>4 DEF Handle
  <2> HIDE DEF d
  <2>4. conn' = [pc |-> "respond", req |-> conn.req, resp |-> d.resp]
    BY <1>1, <2>3
  <2>5. conn'.pc = "respond" /\ conn'.req = conn.req /\ conn'.resp = d.resp
    BY <2>4
  <2>6. /\ d.resp.kind \in {"exception", "echo", "data"}
        /\ d.resp.code \in 0..4
        /\ d.resp.kind = "data" =>
             /\ Named(conn.req.addr, conn.req.qty) \subseteq 0..(HoldingMapSize - 1)
             /\ Len(d.resp.words) = conn.req.qty
    <3>1. CASE d.resp = Echo
      BY <3>1 DEF Echo
    <3>2. ASSUME NEW code \in 1..4, d.resp = Exception(code)
          PROVE  d.resp.kind = "exception" /\ d.resp.code \in 0..4
      BY <3>2 DEF Exception
    <3> QED BY <2>2, <3>1, <3>2
  <2>7. ServerTypeOK'
    BY <1>1, <2>2, <2>3, <2>5, <2>6 DEF ServerTypeOK
  <2>8. DataInsideBank'
    BY <2>5, <2>6 DEF DataInsideBank
  <2> QED BY <2>4, <2>5, <2>7, <2>8 DEF ServerInv
<1>5. ASSUME conn' = conn, cmd' \in Command, snap' \in {"none", "stale", "fresh"}
      PROVE  ServerInv'
  BY <1>5 DEF ServerInv, ServerTypeOK, DataInsideBank
<1>6. ASSUME NEW f \in DOMAIN CommandFields, OtherClient(f)
      PROVE  ServerInv'
  <2>1. cmd' \in Command
    BY <1>1, <1>6 DEF OtherClient, Command, Values
  <2> QED BY <1>1, <1>5, <1>6, <2>1 DEF OtherClient
<1>7. CASE SnapshotAges
  BY <1>1, <1>5, <1>7 DEF SnapshotAges
<1> QED BY <1>2, <1>3, <1>4, <1>6, <1>7 DEF ServerStep
=============================================================================
