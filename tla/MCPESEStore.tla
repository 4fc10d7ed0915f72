---------------------------- MODULE MCPESEStore ----------------------------
(* PESEStore for TLC.                                                      *)
EXTENDS PESEStore

CONSTANTS p1, p2, p3

AllPlaces == Places

\* Where a crash leaves no file torn and no audit stream locked.
SafePlaces == Places \ (Auditing \cup {"writeLock"})
=============================================================================
