------------------------------ MODULE MCConbus ------------------------------
(***************************************************************************)
(* Conbus for TLC: the instruction bus, which only reads RAM, the data bus *)
(* and a third master that compete for the RAM and the CSR bus.            *)
(***************************************************************************)
EXTENDS Conbus

W(b1, b2) == [l \in Lanes |-> IF l = 1 THEN b1 ELSE b2]
Read(s, a) == [slave |-> s, we |-> FALSE, adr |-> a, dat |-> ZeroWord, sel |-> Lanes]
Write(s, a, w, lanes) == [slave |-> s, we |-> TRUE, adr |-> a, dat |-> w, sel |-> lanes]

MCRequests ==
    [m \in Masters |->
        CASE m = 0 -> {Read("ram", 0)}
          [] m = 1 -> {Read("ram", 0), Write("ram", 0, W(1, 1), {1}), Read("csr", 1)}
          [] OTHER -> {Write("ram", 0, W(0, 1), Lanes), Write("csr", 1, W(1, 0), Lanes), Read("csr", 0)}]
=============================================================================
