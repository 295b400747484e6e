----------------------------- MODULE MCMicroUdp -----------------------------
(***************************************************************************)
(* MicroUdp for TLC: what arrives, and the addresses to resolve.           *)
(***************************************************************************)
EXTENDS MicroUdp

Any(t) == [type |-> t, ip |-> NoIp]
Reply(a) == [type |-> "arp_reply", ip |-> a]

RxKinds == {Any("udp")}
TxKinds == {Any("arp_request"), Reply("a"), Reply("b")}

NoTargets == <<>>
TwoTargets == <<"a", "b", "b">>
=============================================================================
