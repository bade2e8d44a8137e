----------------------------- MODULE MCAnchoringEvm -----------------------------
(***************************************************************************)
(* Small instances of AnchoringEvm for TLC.                                *)
(***************************************************************************)
EXTENDS AnchoringEvm, TLC
=============================================================================
