----------------------------- MODULE MCGdbDebug -----------------------------
(***************************************************************************)
(* GdbDebug for TLC: a loop that loads one word and stores another.        *)
(***************************************************************************)
EXTENDS GdbDebug

Loop == [p \in Pcs |-> CASE p = 0 -> [how |-> "load", at |-> "x"]
                         [] p = 1 -> [how |-> "store", at |-> "y"]
                         [] OTHER -> NoAccess]
Watches == {[at |-> "x", mode |-> {"load"}], [at |-> "y", mode |-> {"load", "store"}]}
=============================================================================
