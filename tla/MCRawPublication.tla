--------------------------- MODULE MCRawPublication ---------------------------
(* Instances of RawPublication for TLC.                                     *)
EXTENDS RawPublication

MCTwo == {1, 2}
=============================================================================
