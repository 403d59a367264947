------------------------------- MODULE MCSHB -------------------------------
(* SHB on small instances.                                                 *)
EXTENDS SHB

\* Three blocks in two windows, one access that is not at a block boundary.
MCAddr == {1, 2, 6}
=============================================================================
