--------------------------- MODULE MCCoprocesses ---------------------------
EXTENDS Coprocesses
=============================================================================
