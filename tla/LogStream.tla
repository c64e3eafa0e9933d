----------------------------- MODULE LogStream -----------------------------
(***************************************************************************)
(* What a binary log channel promises: the entries written come out whole, *)
(* once each and in order, up to the first one that a producer could write *)
(* only in part and did not end with.                                      *)
(***************************************************************************)
EXTENDS Naturals, Sequences

CONSTANT Entries

VARIABLES accepted,  \* entries written whole, while the stream was intact
          delivered, \* what Receive returned
          intact

StreamInit == accepted = <<>> /\ delivered = <<>> /\ intact = TRUE

Accept(e) == intact /\ accepted' = Append(accepted, e) /\ UNCHANGED <<delivered, intact>>

Deliver ==
  /\ Len(delivered) < Len(accepted)
  /\ delivered' = Append(delivered, accepted[Len(delivered) + 1])
  /\ UNCHANGED <<accepted, intact>>

Break == intact' = FALSE /\ UNCHANGED <<accepted, delivered>>

\* Beyond the break a consumer may get anything.
Misread ==
  /\ ~ intact /\ Len(delivered) >= Len(accepted)
  /\ \E e \in Entries : delivered' = Append(delivered, e)
  /\ UNCHANGED <<accepted, intact>>

StreamNext == (\E e \in Entries : Accept(e)) \/ Deliver \/ Break \/ Misread

StreamSpec == StreamInit /\ [][StreamNext]_<<accepted, delivered, intact>>
=============================================================================
