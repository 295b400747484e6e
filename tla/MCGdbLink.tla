------------------------------ MODULE MCGdbLink ------------------------------
EXTENDS GdbLink
=============================================================================
