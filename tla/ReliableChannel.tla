-------------------------- MODULE ReliableChannel ---------------------------
(***************************************************************************)
(* What a wire promises its users: every message accepted by send reaches  *)
(* the message broker of the counterpart once and in the order of the      *)
(* sends.  Messages are numbered in the order in which they were accepted. *)
(***************************************************************************)
EXTENDS Naturals, Sequences

VARIABLES accepted,   \* number of messages accepted
          delivered   \* what the counterpart's broker has been given, in order

cvars == <<accepted, delivered>>

Init == accepted = 0 /\ delivered = <<>>

Accept == accepted' = accepted + 1 /\ UNCHANGED delivered

Deliver ==
    /\ Len(delivered) < accepted
    /\ delivered' = Append(delivered, Len(delivered) + 1)
    /\ UNCHANGED accepted

Next == Accept \/ Deliver

Spec == Init /\ [][Next]_cvars
=============================================================================
