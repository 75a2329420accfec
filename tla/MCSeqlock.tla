------------------------------ MODULE MCSeqlock ------------------------------
(* A header word and two data words; the sequence word wraps at 6, so three  *)
(* publications lap it.                                                      *)
EXTENDS Seqlock

MCWords == {"hdr", "a", "b"}
MCHeaderWord == "hdr"
=============================================================================
