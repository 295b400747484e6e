------------------------------- MODULE Conbus -------------------------------
(***************************************************************************)
(* The shared Wishbone bus of the SoC: conbus5x6.v with the round robin    *)
(* arbiter conbus_arb5.v, between the masters of the CPU (the Wishbone     *)
(* state machines of lm32_instruction_unit.v and lm32_load_store_unit.v)   *)
(* and two slaves, the RAM controller WbEbr and the CSR bridge Csrbrg.     *)
(* One step is one edge of sys_clk, at which every part moves.             *)
(***************************************************************************)
EXTENDS Naturals, WbEbr, Csrbrg

CONSTANTS NumMasters,       \* 5 in conbus5x6.v
          Requests          \* for each master, the accesses it may make

Masters == 0..NumMasters-1

(* An access: the slave its address selects, and the signals of the bus.   *)
Request == [slave : {"ram"}, we : BOOLEAN, adr : Addr, dat : Word, sel : SUBSET Lanes]
           \cup [slave : {"csr"}, we : BOOLEAN, adr : CsrAddr, dat : Word, sel : SUBSET Lanes]

ASSUME BusAssumption == /\ NumMasters \in Nat \ {0}
                        /\ Requests \in [Masters -> SUBSET Request]
                        /\ CsrAddr \subseteq Addr /\ Addr \subseteq CsrAddr
                        /\ 0 \in Byte /\ 0 \in Addr

VARIABLES
    cyc,                    \* for each master, its cyc and stb
    bus,                    \* for each master, the signals it drives
    gnt,                    \* the master the arbiter has granted
    slave_sel_r,            \* the slave selected at the last edge
    shadow,                 \* history: for each slave, what was last written
    passed                  \* history: for each master, the accesses of others
                            \* that completed since it raised cyc

busVars == <<cyc, bus, gnt, slave_sel_r, shadow, passed>>
vars == <<ebrVars, csrVars, busVars>>

Slaves == {"ram", "csr"}

TypeOK ==
    /\ EbrTypeOK /\ CsrTypeOK(Word)
    /\ cyc \in [Masters -> BOOLEAN] /\ bus \in [Masters -> Request]
    /\ gnt \in Masters /\ slave_sel_r \in Slaves
    /\ shadow \in [Slaves -> [Addr -> Word]]
    /\ passed \in [Masters -> Nat]

Init ==
    /\ EbrInit /\ CsrInit(ZeroWord)
    /\ cyc = [m \in Masters |-> FALSE]
    /\ bus = [m \in Masters |-> [slave |-> "ram", we |-> FALSE, adr |-> 0,
                                 dat |-> ZeroWord, sel |-> {}]]
    /\ gnt = 0
    /\ slave_sel_r \in Slaves
    /\ shadow = [s \in Slaves |-> [a \in Addr |-> ZeroWord]]
    /\ passed = [m \in Masters |-> 0]
-----------------------------------------------------------------------------
(* The arbiter stays with a master that holds cyc, then goes to the first  *)
(* requesting one after it, cyclically; with none it stays parked.         *)
After(m, k) == IF m + k < NumMasters THEN m + k ELSE m + k - NumMasters
FirstAfter(m, k) == /\ cyc[After(m, k)]
                    /\ \A j \in 1..k-1 : ~cyc[After(m, j)]
(* Mutants: the grant moves during an access; the lowest requesting master *)
(* wins.                                                                   *)
next_state_Eager == IF \E k \in 1..NumMasters-1 : FirstAfter(gnt, k)
                    THEN After(gnt, CHOOSE k \in 1..NumMasters-1 : FirstAfter(gnt, k))
                    ELSE gnt
next_state_Priority == IF ~cyc[gnt] /\ \E m \in Masters : cyc[m]
                       THEN CHOOSE m \in Masters : cyc[m] /\ \A n \in Masters : cyc[n] => m <= n
                       ELSE gnt
next_state == IF ~cyc[gnt] /\ \E k \in 1..NumMasters-1 : FirstAfter(gnt, k)
              THEN After(gnt, CHOOSE k \in 1..NumMasters-1 : FirstAfter(gnt, k))
              ELSE gnt

slave_sel == bus[gnt].slave
i_bus_ack == EBR_ACK_O \/ csr_ack
m_ack(m) == i_bus_ack /\ gnt = m
i_dat_s == IF slave_sel_r = "ram" THEN ebr_data ELSE csr_dat_o

(* A master that was acknowledged drops cyc; one without a cycle may start *)
(* one.  The other signals keep their last value.                          *)
CycleGoesOn(m) == cyc[m] /\ ~m_ack(m)
MasterClock(start, req) ==
    /\ cyc' = [m \in Masters |-> CycleGoesOn(m) \/ m \in start]
    /\ bus' = [m \in Masters |-> IF m \in start THEN req[m] ELSE bus[m]]

(* What the word at the address becomes by an acknowledged access.         *)
Written(old, r) == CASE ~r.we -> old
                     [] r.we /\ r.slave = "ram" -> Merge(old, r.dat, r.sel)
                     [] OTHER -> r.dat

HistoryClock ==
    /\ shadow' = IF i_bus_ack
                 THEN [shadow EXCEPT ![slave_sel][bus[gnt].adr] = Written(@, bus[gnt])]
                 ELSE shadow
    /\ passed' = [m \in Masters |-> IF ~cyc[m] THEN 0
                                    ELSE IF i_bus_ack /\ gnt # m THEN passed[m] + 1
                                    ELSE passed[m]]

Clock ==
    \E start \in SUBSET {m \in Masters : ~cyc[m] /\ Requests[m] # {}} :
    \E req \in [start -> UNION {Requests[m] : m \in start}] :
        /\ \A m \in start : req[m] \in Requests[m]
        /\ MasterClock(start, req)
        /\ gnt' = next_state
        /\ slave_sel_r' = slave_sel
        /\ LET b == bus[gnt] IN
           /\ EbrClock(cyc[gnt] /\ b.slave = "ram", b.we, b.adr, b.dat, b.sel)
           /\ CsrClock(cyc[gnt] /\ b.slave = "csr", b.we, b.adr, b.dat)
        /\ HistoryClock

Next == Clock
Spec == Init /\ [][Next]_vars
FairSpec == Spec /\ WF_vars(Next)
-----------------------------------------------------------------------------
(* An acknowledgement only reaches a master that asked for it, from the    *)
(* slave it addressed.                                                     *)
AckToOwner ==
    i_bus_ack => /\ cyc[gnt]
                 /\ EBR_ACK_O <=> slave_sel = "ram"
                 /\ csr_ack <=> slave_sel = "csr"

(* Every read returns what the last acknowledged write left there, for     *)
(* every master and either slave: the latency of the slaves, the registers *)
(* of the bridge and the registered selection of the read data agree.      *)
ReadsLastWrite ==
    \A m \in Masters :
        m_ack(m) /\ cyc[m] /\ ~bus[m].we => i_dat_s = shadow[bus[m].slave][bus[m].adr]

(* The arbiter is fair: while a master waits, no more accesses complete    *)
(* than there are other masters.                                           *)
BoundedOvertaking == \A m \in Masters : cyc[m] => passed[m] < NumMasters

(* Every access is acknowledged: no two masters wait for each other.       *)
EveryAccessEnds == \A m \in Masters : cyc[m] ~> m_ack(m)
=============================================================================
