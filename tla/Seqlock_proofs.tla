--------------------------- MODULE Seqlock_proofs ---------------------------
(* The seqlock never gives the PLC a torn command and implements an atomic   *)
(* register, for any number of words, any even modulus of the sequence word  *)
(* and any retry bound, across crashes of the writer.                        *)
EXTENDS Seqlock, TLAPS

\* Division with remainder by the modulus of the sequence word.
LEMMA Division ==
  ASSUME NEW a \in Nat
  PROVE  /\ a = SeqMod * (a \div SeqMod) + Word(a)
         /\ a \div SeqMod \in Nat
         /\ Word(a) \in 0..(SeqMod - 1)
  BY SeqModAssumption DEF Word

\* Wrapping keeps the parity, since the modulus is even.
LEMMA WrapParity == ASSUME NEW a \in Nat PROVE Odd(a) <=> a % 2 = 1
<1> DEFINE q == a \div SeqMod
           h == SeqMod \div 2
<1>1. a = SeqMod * q + Word(a) /\ q \in Nat /\ Word(a) \in Nat
  BY Division, SeqModAssumption
<1>2. h \in Nat /\ SeqMod = 2 * h
  BY SeqModAssumption
<1> HIDE DEF q, h
<1>3. SeqMod * q = 2 * (h * q) /\ h * q \in Nat
  BY <1>1, <1>2
<1>4. \A r, k \in Nat : (2 * k + r) % 2 = r % 2
  OBVIOUS
<1> QED
  BY <1>1, <1>3, <1>4 DEF Odd

\* Two sequence numbers less than a lap apart are equal if their words are.
LEMMA NoAliasWithinLap ==
  ASSUME NEW a \in Nat, NEW b \in Nat, a <= b, b - a < SeqMod, Word(a) = Word(b)
  PROVE  a = b
<1> DEFINE qa == a \div SeqMod
           qb == b \div SeqMod
<1>1. /\ a = SeqMod * qa + Word(a) /\ b = SeqMod * qb + Word(b)
      /\ qa \in Nat /\ qb \in Nat /\ Word(a) \in Nat
  BY Division, SeqModAssumption
<1> HIDE DEF qa, qb
<1>2. SeqMod * (qb - qa) = SeqMod * qb - SeqMod * qa
  BY <1>1, SeqModAssumption
<1>3. qb - qa < 1
  <2>1. qb - qa >= 1 => SeqMod * (qb - qa) >= SeqMod
    BY <1>1, SeqModAssumption
  <2> QED
    BY <1>1, <1>2, <2>1, SeqModAssumption
<1>4. qb - qa >= 0
  <2>1. qb - qa <= -1 => SeqMod * (qb - qa) <= -SeqMod
    BY <1>1, SeqModAssumption
  <2> QED
    BY <1>1, <1>2, <2>1, SeqModAssumption
<1> QED
  BY <1>1, <1>3, <1>4

\* The in-progress number is new and odd, the number after it even, whether or
\* not the last writer left an odd number behind.
LEMMA InProgressFacts ==
  ASSUME NEW s \in Nat
  PROVE  /\ InProgress(s) \in Nat /\ InProgress(s) > s
         /\ Odd(InProgress(s)) /\ ~Odd(InProgress(s) + 1)
<1>1. Word(s) % 2 = s % 2
  BY WrapParity, Division DEF Odd
<1>2. InProgress(s) = s + 1 + (s % 2)
  BY <1>1 DEF InProgress
<1>3. InProgress(s) \in Nat /\ InProgress(s) > s
  BY <1>2
<1>4. InProgress(s) % 2 = 1 /\ (InProgress(s) + 1) % 2 = 0
  BY <1>2
<1> QED
  BY <1>3, <1>4, WrapParity

-----------------------------------------------------------------------------
(* The inductive invariant.                                                 *)

\* What the segment holds: an even number says that the payload is the last
\* completed publication; an odd one that a newer publication was begun.
SegmentInv ==
  /\ ~Odd(seq) => mem = Whole(last)
  /\ Odd(seq) => last < wnum
  /\ last <= wnum

\* One writer: the number it loaded stays the segment's until it stores, and
\* the words it has copied are its own.
WriterInv ==
  /\ wpc # "idle" => last < wnum
  /\ wpc = "loaded" => ws = seq
  /\ wpc = "copying" => /\ seq = InProgress(ws)
                        /\ \A w \in Words \ wleft : mem[w] = wnum

\* While the number the reader started from is still in the segment, what it
\* has copied belongs to the last completed publication.
ReaderInv ==
  rpc = "copying" =>
    /\ ~Odd(rs1) /\ rs1 <= seq /\ seq - rs1 < SeqMod
    /\ tries < MaxTries
    /\ seq = rs1 => \A w \in Words \ rleft : snap[w] = last

IInv == TypeOK /\ SegmentInv /\ WriterInv /\ ReaderInv /\ NoTornCommand

\* A copy that passes both checks is the last completed publication.
LEMMA AcceptedIsLast ==
  ASSUME IInv, rpc = "copying", rleft = {}, Acceptable(rs1, seq, snap)
  PROVE  snap = Whole(last) /\ last # 0
<1>1. rs1 = seq
  BY NoAliasWithinLap DEF IInv, TypeOK, ReaderInv, Acceptable
<1>2. \A w \in Words : snap[w] = last
  BY <1>1 DEF IInv, ReaderInv
<1>3. snap = Whole(last)
  BY <1>2 DEF IInv, TypeOK, Whole
<1> QED
  BY <1>2, <1>3, HeaderAssumption DEF Acceptable

\* A segment nobody has written yet.
LEMMA InitIInv == Init => IInv
<1>1. ~Odd(0)
  BY WrapParity
<1> QED
  <2> SUFFICES ASSUME Init
               PROVE  IInv
    OBVIOUS
  <2>1. TypeOK
    <3>1. 0 \in 0..MaxTries
      BY BoundAssumption
    <3> QED
      BY <3>1 DEF Init, TypeOK, Whole
  <2>2. NoTornCommand
    BY DEF Init, NoTornCommand
  <2> QED
    BY <1>1, <2>1, <2>2 DEF Init, IInv, SegmentInv, WriterInv, ReaderInv

\* One access of either process, or the death of the bridge.
LEMMA NextIInv == IInv /\ [Next]_vars => IInv'
<1> SUFFICES ASSUME IInv, [Next]_vars
             PROVE  IInv'
  OBVIOUS
<1> USE DEF IInv, segment, writer, reader
<1>0. /\ InProgress(ws) \in Nat /\ InProgress(ws) > ws
      /\ Odd(InProgress(ws)) /\ ~Odd(InProgress(ws) + 1)
  BY InProgressFacts DEF TypeOK
<1>1. CASE WriterLoad
  BY <1>1 DEF WriterLoad, TypeOK, SegmentInv, WriterInv, ReaderInv, NoTornCommand
<1>2. CASE WriterStoreOdd
  <2>1. TypeOK'
    BY <1>0, <1>2 DEF WriterStoreOdd, TypeOK
  <2>2. SegmentInv' /\ WriterInv'
    BY <1>0, <1>2 DEF WriterStoreOdd, TypeOK, SegmentInv, WriterInv
  <2>3. ReaderInv'
    BY <1>0, <1>2, SeqModAssumption DEF WriterStoreOdd, NoLap, TypeOK, WriterInv, ReaderInv
  <2> QED
    BY <1>2, <2>1, <2>2, <2>3 DEF WriterStoreOdd, NoTornCommand
<1>3. ASSUME NEW w \in Words \union {SeqWord}, WriterCopy(w)
      PROVE  IInv'
  <2>1. seq' = seq
    BY <1>3 DEF WriterCopy, TmpSeq, WriterInv
  <2>2. Odd(seq)
    BY <1>0, <1>3 DEF WriterCopy, WriterInv
  <2>3. TypeOK'
    BY <1>3, <2>1 DEF WriterCopy, TypeOK
  <2>4. SegmentInv'
    BY <1>3, <2>1, <2>2 DEF WriterCopy, SegmentInv
  <2>5. ASSUME NEW v \in Words \ wleft'
        PROVE  mem'[v] = wnum'
    BY <1>3, <2>5, HeaderAssumption DEF WriterCopy, WriterInv, TypeOK, SeqWord
  <2>6. WriterInv'
    BY <1>3, <2>1, <2>5 DEF WriterCopy, WriterInv
  <2>7. ReaderInv' /\ NoTornCommand'
    BY <1>3, <2>1 DEF WriterCopy, ReaderInv, NoTornCommand
  <2> QED
    BY <2>3, <2>4, <2>6, <2>7
<1>4. CASE WriterStoreEven
  <2>1. mem = Whole(wnum)
    BY <1>4 DEF WriterStoreEven, WriterInv, TypeOK, Whole
  <2>2. TypeOK' /\ SegmentInv' /\ WriterInv'
    BY <1>0, <1>4, <2>1 DEF WriterStoreEven, TypeOK, SegmentInv, WriterInv, Whole
  <2>3. ReaderInv'
    BY <1>0, <1>4, SeqModAssumption DEF WriterStoreEven, NoLap, TypeOK, WriterInv, ReaderInv
  <2>4. NoTornCommand'
    BY <1>4 DEF WriterStoreEven, NoTornCommand, WriterInv, TypeOK, Whole
  <2> QED
    BY <2>2, <2>3, <2>4
<1>5. CASE WriterCrash
  BY <1>5 DEF WriterCrash, TypeOK, SegmentInv, WriterInv, ReaderInv, NoTornCommand
<1>6. CASE ScanBegin
  BY <1>6, BoundAssumption DEF ScanBegin, TypeOK, SegmentInv, WriterInv, ReaderInv, NoTornCommand
<1>7. CASE ReaderLoad
  <2>1. TypeOK' /\ SegmentInv' /\ WriterInv' /\ NoTornCommand'
    BY <1>7, BoundAssumption DEF ReaderLoad, TypeOK, SegmentInv, WriterInv, NoTornCommand
  <2>2. ReaderInv'
    BY <1>7, SeqModAssumption DEF ReaderLoad, ReaderInv, TypeOK
  <2> QED
    BY <2>1, <2>2
<1>8. ASSUME NEW w \in Words, ReaderCopy(w)
      PROVE  IInv'
  <2>1. TypeOK' /\ SegmentInv' /\ WriterInv' /\ NoTornCommand'
    BY <1>8 DEF ReaderCopy, TypeOK, SegmentInv, WriterInv, NoTornCommand
  <2>2. seq = rs1 => mem[w] = last
    BY <1>8 DEF ReaderCopy, ReaderInv, SegmentInv, Whole
  <2>3. ReaderInv'
    BY <1>8, <2>2 DEF ReaderCopy, ReaderInv, TypeOK
  <2> QED
    BY <2>1, <2>3
<1>9. CASE ReaderCheck
  <2>1. Acceptable(rs1, seq, snap) => cmdLast' = Whole(last)
    BY <1>9, AcceptedIsLast DEF ReaderCheck
  <2>2. NoTornCommand'
    BY <1>9, <2>1 DEF ReaderCheck, NoTornCommand, TypeOK, Whole
  <2>3. TypeOK'
    <3>1. bCmdValid' \in BOOLEAN
      BY <1>9, Zenon DEF ReaderCheck, TypeOK
    <3>2. tries' \in 0..MaxTries /\ cmdLast' \in [Words -> Nat]
      BY <1>9, BoundAssumption DEF ReaderCheck, TypeOK, ReaderInv
    <3> QED
      BY <1>9, <3>1, <3>2 DEF ReaderCheck, TypeOK
  <2>4. SegmentInv' /\ WriterInv' /\ ReaderInv'
    BY <1>9 DEF ReaderCheck, SegmentInv, WriterInv, ReaderInv
  <2> QED
    BY <2>2, <2>3, <2>4
<1>10. CASE ReaderGiveUp
  BY <1>10 DEF ReaderGiveUp, TypeOK, SegmentInv, WriterInv, ReaderInv, NoTornCommand
<1>11. CASE UNCHANGED vars
  BY <1>11 DEF vars, TypeOK, SegmentInv, WriterInv, ReaderInv, NoTornCommand
<1> QED
  BY <1>1, <1>2, <1>3, <1>4, <1>5, <1>6, <1>7, <1>8, <1>9, <1>10, <1>11
     DEF Next, WriterStep, ReaderStep

\* The whole inductive invariant.
THEOREM Invariance == Spec => []IInv
  BY InitIInv, NextIInv, PTL DEF Spec

\* The segment, both processes and the history hold what they are declared to
\* hold, for every width of the counters and every number of fields.
THEOREM SeqlockTypeCorrect == Spec => []TypeOK
  BY Invariance, PTL DEF IInv

\* The PLC only ever acts on one whole, completed publication.
THEOREM NoTorn == Spec => []NoTornCommand
  BY Invariance, PTL DEF IInv

\* A completed publication is readable, also after crashes before it.
THEOREM CompleteReadable == Spec => []CompleteIsReadable
<1>1. IInv => CompleteIsReadable
  BY DEF IInv, SegmentInv, CompleteIsReadable, TypeOK
<1> QED
  BY <1>1, Invariance, PTL

\* The segment under the seqlock implements an atomic register: a publication
\* takes effect at its last store, a read at the second load of the number.
THEOREM Refinement == Spec => ImplementsRegister
<1>1. Init => Register!Init
  BY DEF Init, Register!Init
<1>2. IInv /\ [Next]_vars
        => [Register!Next]_<<Whole(last), IF bCmdValid THEN <<cmdLast>> ELSE <<>> >>
  <2> SUFFICES ASSUME IInv, [Next]_vars
               PROVE  \/ Register!Next
                      \/ UNCHANGED <<last, cmdLast, bCmdValid>>
    BY DEF Whole
  <2>1. CASE WriterStoreEven
    <3>1. Whole(wnum) # Whole(0)
      BY <2>1, HeaderAssumption DEF WriterStoreEven, IInv, WriterInv, TypeOK, Whole
    <3> QED
      BY <2>1, <3>1 DEF WriterStoreEven, reader, IInv, TypeOK, Whole,
                        Register!Next, Register!Publish
  <2>2. CASE ReaderCheck
    <3>1. CASE Acceptable(rs1, seq, snap)
      <4>1. snap = Whole(last) /\ last # 0
        BY <2>2, <3>1, AcceptedIsLast DEF ReaderCheck
      <4>2. Whole(last) # Whole(0)
        BY <4>1, HeaderAssumption DEF Whole
      <4> QED
        BY <2>2, <3>1, <4>1, <4>2 DEF ReaderCheck, Whole, Register!Next, Register!Latch
    <3>2. CASE ~Acceptable(rs1, seq, snap)
      BY <2>2, <3>2 DEF ReaderCheck
    <3> QED
      BY <3>1, <3>2
  <2> QED
    BY <2>1, <2>2 DEF Next, WriterStep, ReaderStep, WriterLoad, WriterStoreOdd, WriterCopy,
       WriterCrash, ScanBegin, ReaderLoad, ReaderCopy, ReaderGiveUp, vars, reader
<1> QED
  BY <1>1, <1>2, Invariance, PTL DEF Spec, ImplementsRegister, Register!Spec
=============================================================================
