----------------------------- MODULE MCRecordQuery -----------------------------
(***************************************************************************)
(* A small instance of RecordQuery for TLC.                                *)
(***************************************************************************)
EXTENDS RecordQuery, TLC

\* No definition orders checksums: a listing is in the order of its ids.
ChecksumSymmetry == Permutations(Checksum)
=============================================================================
