------------------------------- MODULE Seqlock -------------------------------
(****************************************************************************)
(* The seqlock on /dev/shm/plc_cmd, one memory access per step: the writer  *)
(* is shm.WritePlcCommand in the bridge process, the reader the bounded     *)
(* retry loop of PRG_ShmPublisher in the PLC task.  The bridge may die      *)
(* between any two stores; the next process writes over what it left.       *)
(*                                                                          *)
(* Memory is sequentially consistent, which amd64's TSO is for one writer   *)
(* of stores and one reader of loads; the bulk copies touch the words in    *)
(* any order.  A payload is the number of the publication it belongs to, so *)
(* a torn payload shows as words with different numbers.  `seq' counts the  *)
(* sequence numbers without wrapping and Word(seq) is the 32-bit word both  *)
(* sides see.                                                               *)
(****************************************************************************)
EXTENDS Integers

CONSTANTS
  Words,       \* words of PlcCommand other than Header.Seq
  HeaderWord,  \* the word with Header.Magic and Header.Version
  SeqMod,      \* values of the sequence word (2^32 in the source)
  MaxTries,    \* attempts per scan (100 in the source)
  MaxPubs      \* bound: the bridge stops publishing there

ASSUME HeaderAssumption == HeaderWord \in Words /\ "seq" \notin Words
ASSUME SeqModAssumption == SeqMod \in Nat /\ SeqMod > 2 /\ SeqMod % 2 = 0
ASSUME BoundAssumption == MaxTries \in Nat /\ MaxPubs \in Nat

VARIABLES
  seq,      \* Header.Seq of the segment, unwrapped
  mem,      \* the other words of the segment
  wpc,      \* writer: "idle", "loaded", "copying"
  ws,       \* s, the sequence number the writer loaded
  wleft,    \* words the writer has still to copy
  wnum,     \* the publication under way
  rpc,      \* reader: "idle", "trying", "copying"
  rs1,      \* s1
  rleft,    \* words the reader has still to copy
  snap,     \* the reader's copy
  tries,    \* i of the retry loop
  cmdLast,  \* the last command the reader accepted
  bCmdValid,\* whether it ever accepted one
  last      \* history: the last completed publication

segment == <<seq, mem>>
writer == <<wpc, ws, wleft, wnum>>
reader == <<rpc, rs1, rleft, snap, tries, cmdLast, bCmdValid>>
vars == <<segment, writer, reader, last>>

SeqWord == "seq"                  \* Header.Seq inside the bulk copy
Word(s) == s % SeqMod
Odd(s) == Word(s) % 2 = 1
Whole(n) == [w \in Words |-> n]   \* the payload of publication n

TypeOK ==
  /\ seq \in Nat /\ mem \in [Words -> Nat]
  /\ wpc \in {"idle", "loaded", "copying"}
  /\ ws \in Nat /\ wnum \in Nat
  /\ wleft \in SUBSET (Words \union {SeqWord})
  /\ rpc \in {"idle", "trying", "copying"}
  /\ rs1 \in Nat /\ rleft \in SUBSET Words
  /\ snap \in [Words -> Nat] /\ cmdLast \in [Words -> Nat]
  /\ bCmdValid \in BOOLEAN
  /\ tries \in 0..MaxTries /\ last \in Nat

Init ==
  /\ seq = 0 /\ mem = Whole(0)
  /\ wpc = "idle" /\ ws = 0 /\ wleft = {} /\ wnum = 0
  /\ rpc = "idle" /\ rs1 = 0 /\ rleft = {} /\ snap = Whole(0) /\ tries = 0
  /\ cmdLast = Whole(0) /\ bCmdValid = FALSE
  /\ last = 0

-----------------------------------------------------------------------------
(* WritePlcCommand.                                                         *)

\* Mutant: no crash recovery, a plain increment.
InProgress_PlainIncrement(s) == s + 1

\* odd := s + 1 + (s & 1)
InProgress(s) == s + 1 + (Word(s) % 2)

\* Mutant: the copy carries the caller's Header.Seq, which is always zero.
TmpSeq_Caller(odd) == 0

\* tmp.Header.Seq = odd
TmpSeq(odd) == odd

\* Environment: the sequence word does not come round to the same value while
\* the PLC copies one command (2^31 publications within one scan).
NoLap(s) == rpc = "copying" => s - rs1 < SeqMod

WriterLoad ==
  /\ wpc = "idle"
  /\ wnum < MaxPubs
  /\ wpc' = "loaded"
  /\ ws' = seq
  /\ wnum' = wnum + 1
  /\ UNCHANGED <<segment, wleft, reader, last>>

WriterStoreOdd ==
  /\ wpc = "loaded"
  /\ NoLap(InProgress(ws))
  /\ wpc' = "copying"
  /\ seq' = InProgress(ws)
  /\ wleft' = Words \union {SeqWord}
  /\ UNCHANGED <<mem, ws, wnum, reader, last>>

WriterCopy(w) ==
  /\ wpc = "copying"
  /\ w \in wleft
  /\ wleft' = wleft \ {w}
  /\ IF w = SeqWord THEN seq' = TmpSeq(InProgress(ws)) /\ UNCHANGED mem
                    ELSE mem' = [mem EXCEPT ![w] = wnum] /\ UNCHANGED seq
  /\ UNCHANGED <<wpc, ws, wnum, reader, last>>

WriterStoreEven ==
  /\ wpc = "copying"
  /\ wleft = {}
  /\ NoLap(InProgress(ws) + 1)
  /\ wpc' = "idle"
  /\ seq' = InProgress(ws) + 1
  /\ last' = wnum
  /\ UNCHANGED <<mem, ws, wleft, wnum, reader>>

\* The bridge dies in the middle of a publication.
WriterCrash ==
  /\ wpc # "idle"
  /\ wpc' = "idle"
  /\ UNCHANGED <<segment, ws, wleft, wnum, reader, last>>

WriterStep ==
  \/ WriterStoreOdd
  \/ \E w \in Words \union {SeqWord} : WriterCopy(w)
  \/ WriterStoreEven

-----------------------------------------------------------------------------
(* The read loop of one PLC scan.                                           *)

ScanBegin ==
  /\ rpc = "idle"
  /\ rpc' = "trying"
  /\ tries' = 0
  /\ UNCHANGED <<segment, writer, rs1, rleft, snap, cmdLast, bCmdValid, last>>

\* Mutant: the retry loop makes one attempt too many.
ReaderLoad_OneMore ==
  /\ rpc = "trying"
  /\ tries <= MaxTries
  /\ rs1' = seq
  /\ IF Odd(seq)
       THEN rpc' = "trying" /\ tries' = tries + 1 /\ UNCHANGED rleft
       ELSE rpc' = "copying" /\ rleft' = Words /\ UNCHANGED tries
  /\ UNCHANGED <<segment, writer, snap, cmdLast, bCmdValid, last>>

\* s1 := seq; an odd s1 costs one attempt.
ReaderLoad ==
  /\ rpc = "trying"
  /\ tries < MaxTries
  /\ rs1' = seq
  /\ IF Odd(seq)
       THEN rpc' = "trying" /\ tries' = tries + 1 /\ UNCHANGED rleft
       ELSE rpc' = "copying" /\ rleft' = Words /\ UNCHANGED tries
  /\ UNCHANGED <<segment, writer, snap, cmdLast, bCmdValid, last>>

ReaderCopy(w) ==
  /\ rpc = "copying"
  /\ w \in rleft
  /\ rleft' = rleft \ {w}
  /\ snap' = [snap EXCEPT ![w] = mem[w]]
  /\ UNCHANGED <<segment, writer, rpc, rs1, tries, cmdLast, bCmdValid, last>>

\* Mutant: magic and version are not looked at.
Acceptable_NoHeader(s1, s2, copy) == Word(s1) = Word(s2)

\* Mutant: the sequence number is not read again after the copy.
Acceptable_NoRecheck(s1, s2, copy) == copy[HeaderWord] # 0

Acceptable(s1, s2, copy) == Word(s1) = Word(s2) /\ copy[HeaderWord] # 0

\* s2 := seq; accept the copy and leave the loop, or spend one attempt.
ReaderCheck ==
  /\ rpc = "copying"
  /\ rleft = {}
  /\ IF Acceptable(rs1, seq, snap)
       THEN rpc' = "idle" /\ cmdLast' = snap /\ bCmdValid' = TRUE /\ UNCHANGED tries
       ELSE rpc' = "trying" /\ tries' = tries + 1 /\ UNCHANGED <<cmdLast, bCmdValid>>
  /\ UNCHANGED <<segment, writer, rs1, rleft, snap, last>>

\* The loop is exhausted: this scan keeps the command it had.
ReaderGiveUp ==
  /\ rpc = "trying"
  /\ tries >= MaxTries
  /\ rpc' = "idle"
  /\ UNCHANGED <<segment, writer, rs1, rleft, snap, tries, cmdLast, bCmdValid, last>>

ReaderStep ==
  \/ ScanBegin \/ ReaderLoad \/ ReaderCheck \/ ReaderGiveUp
  \/ \E w \in Words : ReaderCopy(w)

Next == WriterLoad \/ WriterStep \/ WriterCrash \/ ReaderStep

Spec == Init /\ [][Next]_vars

\* The PLC task is cyclic, and a bridge inside WritePlcCommand goes on unless
\* it dies; nothing obliges a bridge to publish, or to die.
FairSpec == Spec /\ WF_vars(ReaderStep) /\ WF_vars(WriterStep)

-----------------------------------------------------------------------------
(* Properties.                                                              *)

\* The command the PLC acts on is zeroed or one whole publication that was
\* completed: never a mixture, whatever the interleaving and the crashes.
NoTornCommand == \E n \in 0..last : cmdLast = Whole(n)

\* Refinement: the segment is an atomic register of whole commands.
Register == INSTANCE CommandRegister
  WITH Values <- [Words -> Nat], Blank <- Whole(0),
       value <- Whole(last), latched <- IF bCmdValid THEN <<cmdLast>> ELSE <<>>

ImplementsRegister == Register!Spec

\* While no publication is under way a completed one is there to be read, even
\* after a bridge died and another took over: an odd sequence number with no
\* writer only ever marks a publication that was cut short.
CompleteIsReadable ==
  wpc = "idle" /\ wnum = last => ~Odd(seq) /\ mem = Whole(last)

\* A publication that is not cut short by a crash or overtaken reaches the PLC.
PublishedIsLatched ==
  <>[](wpc = "idle" /\ wnum = last) => <>[](cmdLast = Whole(last))
=============================================================================
