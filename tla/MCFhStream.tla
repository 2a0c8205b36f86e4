---------------------------- MODULE MCFhStream ----------------------------
EXTENDS FhStream
=============================================================================
