--------------------------- MODULE MCProjectLock ---------------------------
(* ProjectLock for TLC: drivers and process ids are model values.          *)
EXTENDS ProjectLock
=============================================================================
