---------------------------- MODULE ConbusProofs ----------------------------
(***************************************************************************)
(* Theorems about Conbus, for any number of masters, whatever they ask.    *)
(***************************************************************************)
EXTENDS Conbus, WellFoundedInduction, TLAPS

(* The constants, expanded.                                                *)
LEMMA Constants ==
    /\ NumMasters \in Nat \ {0} /\ CsrAddr = Addr /\ 0 \in Byte /\ 0 \in Addr
    /\ \A m \in Masters : Requests[m] \subseteq Request
BY BusAssumption

(* Masters are counted cyclically.                                         *)
LEMMA AfterType ==
    ASSUME NEW m \in Masters, NEW k \in 1..NumMasters-1
    PROVE  After(m, k) \in Masters /\ After(m, k) # m
BY Constants DEF After, Masters

(* The grant goes to a master.                                             *)
LEMMA NextStateType ==
    ASSUME gnt \in Masters PROVE next_state \in Masters
<1>1. CASE ~cyc[gnt] /\ \E k \in 1..NumMasters-1 : FirstAfter(gnt, k)
  <2>1. (CHOOSE k \in 1..NumMasters-1 : FirstAfter(gnt, k)) \in 1..NumMasters-1
    BY <1>1
  <2> QED
    BY <1>1, <2>1, AfterType DEF next_state
<1>2. CASE ~(~cyc[gnt] /\ \E k \in 1..NumMasters-1 : FirstAfter(gnt, k))
  BY <1>2 DEF next_state
<1> QED BY <1>1, <1>2

(* The fields of a request.                                                *)
LEMMA RequestFields ==
    ASSUME NEW r \in Request
    PROVE  /\ r.slave \in Slaves /\ r.we \in BOOLEAN /\ r.adr \in Addr /\ r.dat \in Word
           /\ r.sel \in SUBSET Lanes
BY Constants DEF Request, Slaves

(* Words stay words.                                                       *)
LEMMA WrittenType ==
    /\ ZeroWord \in Word
    /\ \A old, new \in Word, sel \in SUBSET Lanes : Merge(old, new, sel) \in Word
    /\ \A old \in Word, r \in Request : Written(old, r) \in Word
BY Constants, RequestFields DEF ZeroWord, Word, Merge, Written
-----------------------------------------------------------------------------
(* A clock edge, taken apart.                                              *)
LEMMA ClockStep ==
    ASSUME TypeOK, Clock
    PROVE  /\ EbrClock(cyc[gnt] /\ bus[gnt].slave = "ram", bus[gnt].we, bus[gnt].adr,
                       bus[gnt].dat, bus[gnt].sel)
           /\ CsrClock(cyc[gnt] /\ bus[gnt].slave = "csr", bus[gnt].we, bus[gnt].adr,
                       bus[gnt].dat)
           /\ gnt' = next_state /\ slave_sel_r' = slave_sel
           /\ cyc' \in [Masters -> BOOLEAN] /\ bus' \in [Masters -> Request]
           /\ \A m \in Masters : cyc[m] => (cyc'[m] <=> ~m_ack(m)) /\ bus'[m] = bus[m]
           /\ HistoryClock
<1> DEFINE Edge(start, req) ==
        /\ \A m \in start : req[m] \in Requests[m]
        /\ MasterClock(start, req)
        /\ gnt' = next_state /\ slave_sel_r' = slave_sel
        /\ EbrClock(cyc[gnt] /\ bus[gnt].slave = "ram", bus[gnt].we, bus[gnt].adr,
                    bus[gnt].dat, bus[gnt].sel)
        /\ CsrClock(cyc[gnt] /\ bus[gnt].slave = "csr", bus[gnt].we, bus[gnt].adr,
                    bus[gnt].dat)
        /\ HistoryClock
<1>a. PICK start \in SUBSET {m \in Masters : ~cyc[m] /\ Requests[m] # {}} :
        \E req \in [start -> UNION {Requests[m] : m \in start}] : Edge(start, req)
  BY DEF Clock
<1>1. PICK req \in [start -> UNION {Requests[m] : m \in start}] : Edge(start, req)
  BY <1>a
<1>2. \A m \in start : m \in Masters /\ ~cyc[m] /\ req[m] \in Request
  BY <1>1, Constants
<1>3. bus' \in [Masters -> Request]
  BY <1>1, <1>2 DEF MasterClock, TypeOK
<1>4. cyc' \in [Masters -> BOOLEAN]
  <2>1. \A m \in Masters : (CycleGoesOn(m) \/ m \in start) \in BOOLEAN
    OBVIOUS
  <2> QED
    BY <1>1, <2>1, Zenon DEF MasterClock
<1>5. \A m \in Masters : cyc[m] => (cyc'[m] <=> ~m_ack(m))
  BY <1>1, <1>2 DEF MasterClock, CycleGoesOn
<1>6. \A m \in Masters : cyc[m] => bus'[m] = bus[m]
  BY <1>1, <1>2 DEF MasterClock
<1>7. HistoryClock
  BY <1>1 DEF HistoryClock
<1> QED
  BY <1>1, <1>3, <1>4, <1>5, <1>6, <1>7

(* Every variable has its type at first.                                   *)
LEMMA TypeInit == Init => TypeOK
<1> SUFFICES ASSUME Init PROVE TypeOK
  OBVIOUS
<1>1. EbrTypeOK
  BY WrittenType DEF Init, EbrInit, EbrTypeOK
<1>2. CsrTypeOK(Word)
  BY WrittenType DEF Init, CsrInit, CsrTypeOK
<1>3. gnt \in Masters
  BY Constants DEF Init, Masters
<1>4. bus \in [Masters -> Request]
  BY Constants, WrittenType DEF Init, Request
<1>5. shadow \in [Slaves -> [Addr -> Word]]
  BY WrittenType DEF Init
<1>6. passed \in [Masters -> Nat] /\ cyc \in [Masters -> BOOLEAN] /\ slave_sel_r \in Slaves
  BY DEF Init
<1> QED
  BY <1>1, <1>2, <1>3, <1>4, <1>5, <1>6 DEF TypeOK

(* Every clock edge keeps the types.                                       *)
LEMMA TypeNext == TypeOK /\ [Next]_vars => TypeOK'
<1> SUFFICES ASSUME TypeOK, [Next]_vars PROVE TypeOK'
  OBVIOUS
<1>1. CASE Clock
  <2> DEFINE b == bus[gnt]
  <2>1. b \in Request /\ gnt \in Masters
    BY DEF TypeOK
  <2>2. /\ b.slave \in Slaves /\ b.we \in BOOLEAN /\ b.adr \in Addr /\ b.dat \in Word
        /\ b.sel \in SUBSET Lanes
    BY <2>1, RequestFields
  <2>3. EbrTypeOK'
    <3>1. EbrClock(cyc[gnt] /\ b.slave = "ram", b.we, b.adr, b.dat, b.sel)
      BY <1>1, ClockStep
    <3>2. ebr_state' \in {"IDLE", "END"}
      BY <3>1 DEF EbrClock
    <3>3. EBR_ACK_O' \in BOOLEAN
      BY <3>1, Zenon DEF EbrClock
    <3>4. ebr_data' \in Word
      BY <3>1, <2>2 DEF EbrClock, TypeOK, EbrTypeOK
    <3>5. Merge(ebr_data, b.dat, b.sel) \in Word
      BY <2>2, WrittenType DEF TypeOK, EbrTypeOK
    <3>6. ebr_mem' \in [Addr -> Word]
      BY <3>1, <3>5, <2>2 DEF EbrClock, TypeOK, EbrTypeOK
    <3> QED
      BY <3>2, <3>3, <3>4, <3>6 DEF EbrTypeOK
  <2>4. CsrTypeOK(Word)'
    <3>1. CsrClock(cyc[gnt] /\ b.slave = "csr", b.we, b.adr, b.dat)
      BY <1>1, ClockStep
    <3>2. csr_state' \in {"IDLE", "DELAYACK1", "DELAYACK2", "ACK"}
      BY <3>1 DEF CsrClock
    <3>3. csr_we' \in BOOLEAN
      BY <3>1, Zenon DEF CsrClock
    <3>4. /\ csr_a' \in CsrAddr /\ csr_do' \in Word /\ csr_regs' \in [CsrAddr -> Word]
          /\ csr_di' \in Word /\ csr_dat_o' \in Word
      BY <3>1, <2>2, Constants DEF CsrClock, TypeOK, CsrTypeOK
    <3> QED
      BY <3>2, <3>3, <3>4 DEF CsrTypeOK
  <2>5. gnt' \in Masters /\ slave_sel_r' \in Slaves
    BY <1>1, <2>2, ClockStep, NextStateType DEF TypeOK, slave_sel
  <2>6. shadow' \in [Slaves -> [Addr -> Word]]
    <3>1. \A w \in Word : Written(w, b) \in Word
      BY <2>1, WrittenType
    <3>2. HistoryClock
      BY <1>1, ClockStep
    <3> HIDE DEF b
    <3>3. shadow' = shadow \/ shadow' = [shadow EXCEPT ![b.slave][b.adr] = Written(@, b)]
      BY <3>2 DEF HistoryClock, b, slave_sel
    <3> QED
      BY <2>2, <3>1, <3>3 DEF TypeOK
  <2>7. passed' \in [Masters -> Nat]
    BY <1>1, ClockStep DEF HistoryClock, TypeOK
  <2> QED
    BY <1>1, <2>3, <2>4, <2>5, <2>6, <2>7, ClockStep DEF TypeOK
<1>2. CASE UNCHANGED vars
  BY <1>2 DEF vars, ebrVars, csrVars, busVars, TypeOK, EbrTypeOK, CsrTypeOK
<1> QED
  BY <1>1, <1>2 DEF Next

(* Every variable has its type, for any number of masters and any          *)
(* requests.                                                               *)
THEOREM TypeCorrect == Spec => []TypeOK
BY TypeInit, TypeNext, PTL DEF Spec

-----------------------------------------------------------------------------
(* A slave that is busy serves the master that has the grant, and only one *)
(* slave is: so the master holds its cycle and the grant stays.            *)
HandshakeInv ==
    /\ EBR_ACK_O <=> ebr_state = "END"
    /\ ebr_state = "END" => cyc[gnt] /\ bus[gnt].slave = "ram" /\ slave_sel_r = "ram"
    /\ csr_state # "IDLE" => cyc[gnt] /\ bus[gnt].slave = "csr" /\ slave_sel_r = "csr"

(* A cycle that is not acknowledged keeps the grant and its signals.       *)
LEMMA CycleKept ==
    ASSUME TypeOK, Clock, cyc[gnt]
    PROVE  /\ gnt' = gnt /\ bus'[gnt'] = bus[gnt] /\ slave_sel_r' = bus[gnt].slave
           /\ cyc'[gnt'] <=> ~i_bus_ack
<1>1. gnt \in Masters /\ gnt' = gnt
  BY ClockStep DEF TypeOK, next_state
<1> QED
  BY <1>1, ClockStep DEF m_ack, slave_sel

(* Every clock edge keeps HandshakeInv.                                    *)
LEMMA HandshakeNext == TypeOK /\ HandshakeInv /\ [Next]_vars => HandshakeInv'
<1> SUFFICES ASSUME TypeOK, HandshakeInv, [Next]_vars PROVE HandshakeInv'
  OBVIOUS
<1>1. CASE Clock
  <2> DEFINE b == bus[gnt]
  <2>1. EbrClock(cyc[gnt] /\ b.slave = "ram", b.we, b.adr, b.dat, b.sel)
    BY <1>1, ClockStep
  <2>2. CsrClock(cyc[gnt] /\ b.slave = "csr", b.we, b.adr, b.dat)
    BY <1>1, ClockStep
  <2>3. ebr_state \in {"IDLE", "END"} /\ csr_state \in {"IDLE", "DELAYACK1", "DELAYACK2", "ACK"}
    BY DEF TypeOK, EbrTypeOK, CsrTypeOK
  <2>4. EBR_ACK_O' <=> ebr_state' = "END"
    BY <2>1 DEF EbrClock
  <2>5. ASSUME ebr_state' = "END"
        PROVE  cyc'[gnt'] /\ bus'[gnt'].slave = "ram" /\ slave_sel_r' = "ram"
    <3>1. cyc[gnt] /\ b.slave = "ram" /\ ~EBR_ACK_O
      BY <2>1, <2>5 DEF EbrClock
    <3>2. ~i_bus_ack
      BY <3>1, <2>3 DEF HandshakeInv, i_bus_ack, csr_ack
    <3> QED
      BY <1>1, <3>1, <3>2, CycleKept
  <2>6. ASSUME csr_state' # "IDLE"
        PROVE  cyc'[gnt'] /\ bus'[gnt'].slave = "csr" /\ slave_sel_r' = "csr"
    <3>1. cyc[gnt] /\ b.slave = "csr" /\ csr_state # "ACK"
      BY <2>2, <2>3, <2>6 DEF CsrClock, HandshakeInv
    <3>2. ~i_bus_ack
      BY <3>1 DEF HandshakeInv, i_bus_ack, csr_ack
    <3> QED
      BY <1>1, <3>1, <3>2, CycleKept
  <2> QED
    BY <2>4, <2>5, <2>6 DEF HandshakeInv
<1>2. CASE UNCHANGED vars
  BY <1>2 DEF vars, ebrVars, csrVars, busVars, HandshakeInv
<1> QED
  BY <1>1, <1>2 DEF Next

(* No access is under way at first.                                        *)
LEMMA HandshakeInit == Init => HandshakeInv
BY DEF Init, EbrInit, CsrInit, HandshakeInv

(* Every acknowledgement belongs to the master that has the grant and      *)
(* comes from the slave that it addresses.                                 *)
THEOREM AckCorrect == Spec => []AckToOwner
<1>1. TypeOK /\ HandshakeInv => AckToOwner
  BY DEF TypeOK, EbrTypeOK, CsrTypeOK, HandshakeInv, AckToOwner, i_bus_ack, csr_ack, slave_sel
<1> QED
  BY HandshakeInit, HandshakeNext, TypeCorrect, <1>1, PTL DEF Spec
-----------------------------------------------------------------------------
(* The slaves hold what was last written; what an access has fetched so    *)
(* far is the word at its address, and what it writes is on its way.       *)
DataInv ==
    LET b == bus[gnt] IN
    /\ shadow["ram"] = ebr_mem /\ shadow["csr"] = csr_regs
    /\ ebr_state = "END" => ebr_data = ebr_mem[b.adr]
    /\ csr_state # "IDLE" => csr_a = b.adr
    /\ csr_state \in {"DELAYACK1", "DELAYACK2"} => ~b.we
    /\ csr_state = "DELAYACK2" => csr_di = csr_regs[b.adr]
    /\ csr_state = "ACK" /\ ~b.we => csr_dat_o = csr_regs[b.adr]
    /\ csr_we <=> csr_state = "ACK" /\ b.we
    /\ csr_we => csr_do = b.dat

(* Every clock edge keeps DataInv.                                         *)
LEMMA DataNext == TypeOK /\ HandshakeInv /\ DataInv /\ [Next]_vars => DataInv'
<1> SUFFICES ASSUME TypeOK, HandshakeInv, DataInv, [Next]_vars PROVE DataInv'
  OBVIOUS
<1>1. CASE Clock
  <2> DEFINE b == bus[gnt]
  <2>1. EbrClock(cyc[gnt] /\ b.slave = "ram", b.we, b.adr, b.dat, b.sel)
    BY <1>1, ClockStep
  <2>2. CsrClock(cyc[gnt] /\ b.slave = "csr", b.we, b.adr, b.dat)
    BY <1>1, ClockStep
  <2>3. ebr_state \in {"IDLE", "END"} /\ csr_state \in {"IDLE", "DELAYACK1", "DELAYACK2", "ACK"}
    BY DEF TypeOK, EbrTypeOK, CsrTypeOK
  <2>4. b \in Request /\ b.slave \in Slaves /\ b.we \in BOOLEAN /\ b.adr \in Addr
    BY RequestFields DEF TypeOK
  <2>5. \/ shadow' = shadow /\ ~i_bus_ack
        \/ shadow' = [shadow EXCEPT ![b.slave][b.adr] = Written(@, b)] /\ i_bus_ack
    BY <1>1, ClockStep DEF HistoryClock, slave_sel
  <2>6. HandshakeInv'
    BY <1>1, HandshakeNext DEF Next
  <2>7. ebr_state' = "END" \/ csr_state' # "IDLE" => bus'[gnt'] = b /\ ~i_bus_ack
    <3>1. ebr_state' = "END" \/ csr_state' # "IDLE" => cyc[gnt]
      BY <2>1, <2>2, <2>3 DEF EbrClock, CsrClock, HandshakeInv
    <3> QED
      BY <1>1, <2>6, <3>1, CycleKept DEF HandshakeInv
  <2>8. CASE ~i_bus_ack
    <3>1. ebr_state = "IDLE" /\ csr_state # "ACK" /\ ~csr_we
      BY <2>3, <2>8 DEF HandshakeInv, DataInv, i_bus_ack, csr_ack
    <3>2. shadow' = shadow /\ ebr_mem' = ebr_mem /\ csr_regs' = csr_regs
      BY <2>1, <2>2, <2>5, <2>8, <3>1 DEF EbrClock, CsrClock
    <3>3. ebr_data' = ebr_mem[b.adr]
      BY <2>1, <3>1 DEF EbrClock
    <3>4. csr_a' = b.adr /\ csr_do' = b.dat /\ csr_di' = csr_regs[csr_a] /\ csr_dat_o' = csr_di
      BY <2>2 DEF CsrClock
    <3>5. csr_state' = CASE csr_state = "IDLE" /\ cyc[gnt] /\ b.slave = "csr" ->
                                 IF b.we THEN "ACK" ELSE "DELAYACK1"
                         [] csr_state = "DELAYACK1" -> "DELAYACK2"
                         [] csr_state = "DELAYACK2" -> "ACK"
                         [] OTHER -> "IDLE"
      BY <2>2 DEF CsrClock
    <3>6. csr_we' <=> csr_state = "IDLE" /\ cyc[gnt] /\ b.slave = "csr" /\ b.we
      BY <2>2 DEF CsrClock
    <3>7. csr_state' \in {"DELAYACK1", "DELAYACK2"} => ~b.we
      BY <2>3, <3>5 DEF DataInv
    <3>8. csr_state' = "DELAYACK2" => csr_di' = csr_regs[b.adr]
      BY <2>3, <3>4, <3>5 DEF DataInv
    <3>9. csr_state' = "ACK" /\ ~b.we => csr_dat_o' = csr_regs[b.adr]
      BY <2>3, <3>4, <3>5 DEF DataInv
    <3>10. csr_we' <=> csr_state' = "ACK" /\ b.we
      BY <2>3, <3>5, <3>6 DEF DataInv
    <3>11. csr_we' <=> csr_state' = "ACK" /\ bus'[gnt'].we
      BY <2>7, <3>10
    <3> QED
      BY <2>7, <3>2, <3>3, <3>4, <3>7, <3>8, <3>9, <3>10, <3>11 DEF DataInv
  <2>9. CASE i_bus_ack
    <3>1. ebr_state' = "IDLE" /\ csr_state' = "IDLE"
      <4>1. ebr_state' \in {"IDLE", "END"}
        BY <2>1 DEF EbrClock
      <4> QED
        BY <2>7, <2>9, <4>1
    <3>2. ~csr_we'
      BY <2>2, <2>3, <2>9 DEF CsrClock, HandshakeInv, i_bus_ack, csr_ack
    <3>3. CASE ebr_state = "END"
      <4>1. b.slave = "ram" /\ csr_state = "IDLE" /\ ~csr_we /\ ebr_data = ebr_mem[b.adr]
        BY <3>3 DEF HandshakeInv, DataInv
      <4>2. csr_regs' = csr_regs
        BY <2>2, <4>1 DEF CsrClock
      <4>3. Written(ebr_mem[b.adr], b) = IF b.we THEN Merge(ebr_data, b.dat, b.sel)
                                         ELSE ebr_mem[b.adr]
        BY <2>4, <4>1 DEF Written
      <4>4. ebr_mem' = [ebr_mem EXCEPT ![b.adr] = Written(ebr_mem[b.adr], b)]
        BY <2>1, <2>4, <3>3, <4>3 DEF EbrClock, TypeOK, EbrTypeOK
      <4>5. shadow'["csr"] = shadow["csr"]
            /\ shadow'["ram"] = [shadow["ram"] EXCEPT ![b.adr] = Written(@, b)]
        BY <2>5, <2>9, <4>1 DEF TypeOK, Slaves
      <4> QED
        BY <3>1, <3>2, <4>2, <4>4, <4>5 DEF DataInv
    <3>4. CASE csr_state = "ACK"
      <4>1. b.slave = "csr" /\ ebr_state = "IDLE" /\ csr_a = b.adr
        BY <2>3, <3>4 DEF HandshakeInv, DataInv
      <4>2. ebr_mem' = ebr_mem
        BY <2>1, <4>1 DEF EbrClock
      <4>3. Written(csr_regs[b.adr], b) = IF b.we THEN b.dat ELSE csr_regs[b.adr]
        BY <2>4, <4>1 DEF Written
      <4>4. csr_regs' = [csr_regs EXCEPT ![b.adr] = Written(csr_regs[b.adr], b)]
        BY <2>2, <2>4, <3>4, <4>1, <4>3, Constants DEF CsrClock, DataInv, TypeOK, CsrTypeOK
      <4>5. shadow'["ram"] = shadow["ram"]
            /\ shadow'["csr"] = [shadow["csr"] EXCEPT ![b.adr] = Written(@, b)]
        BY <2>5, <2>9, <4>1 DEF TypeOK, Slaves
      <4> QED
        BY <3>1, <3>2, <4>2, <4>4, <4>5 DEF DataInv
    <3> QED
      BY <2>9, <3>3, <3>4 DEF HandshakeInv, i_bus_ack, csr_ack
  <2> QED
    BY <2>8, <2>9
<1>2. CASE UNCHANGED vars
  BY <1>2 DEF vars, ebrVars, csrVars, busVars, DataInv
<1> QED
  BY <1>1, <1>2 DEF Next

(* The slaves are empty at first.                                          *)
LEMMA DataInit == Init => DataInv
<1> SUFFICES ASSUME Init PROVE DataInv
  OBVIOUS
<1>1. shadow["ram"] = ebr_mem /\ shadow["csr"] = csr_regs
  BY Constants DEF Init, EbrInit, CsrInit, Slaves
<1>2. ebr_state = "IDLE" /\ csr_state = "IDLE"
  BY DEF Init, EbrInit, CsrInit
<1>3. ~csr_we
  BY Zenon DEF Init, CsrInit
<1> QED
  BY <1>1, <1>2, <1>3 DEF DataInv

(* Every read returns what was last written, for every master and either   *)
(* slave, whatever the others do: conbus5x6.v, wb_ebr_ctrl2.v and csrbrg.v *)
(* together.                                                               *)
THEOREM ReadsCorrect == Spec => []ReadsLastWrite
<1>1. TypeOK /\ HandshakeInv /\ DataInv => ReadsLastWrite
  <2> SUFFICES ASSUME HandshakeInv, DataInv,
                      NEW m \in Masters, m_ack(m), cyc[m], ~bus[m].we
               PROVE  i_dat_s = shadow[bus[m].slave][bus[m].adr]
    BY DEF ReadsLastWrite
  <2>1. gnt = m /\ (EBR_ACK_O \/ csr_state = "ACK")
    BY DEF m_ack, i_bus_ack, csr_ack
  <2>2. CASE EBR_ACK_O
    BY <2>1, <2>2 DEF HandshakeInv, DataInv, i_dat_s
  <2>3. CASE csr_state = "ACK"
    BY <2>1, <2>3 DEF HandshakeInv, DataInv, i_dat_s
  <2> QED
    BY <2>1, <2>2, <2>3
<1> QED
  BY HandshakeInit, HandshakeNext, DataInit, DataNext, TypeCorrect, <1>1, PTL DEF Spec
-----------------------------------------------------------------------------
(* How many masters the grant passes until it reaches m.                   *)
Distance(g, m) == IF m >= g THEN m - g ELSE m - g + NumMasters

(* While a master waits, the accesses that were completed before it and    *)
(* its distance from the grant make at most one round.                     *)
OvertakingInv ==
    \A m \in Masters :
        cyc[m] => passed[m] + Distance(gnt, m)
                    <= IF m = gnt \/ cyc[gnt] THEN NumMasters - 1 ELSE NumMasters

(* Going on from the grant by the distance leads to the master.            *)
LEMMA DistanceAfter ==
    ASSUME NEW g \in Masters, NEW m \in Masters
    PROVE  /\ Distance(g, m) \in 0..NumMasters-1 /\ (Distance(g, m) = 0 <=> m = g)
           /\ After(g, Distance(g, m)) = m
           /\ \A k \in 0..Distance(g, m) : Distance(After(g, k), m) = Distance(g, m) - k
BY Constants DEF Distance, After, Masters

(* Without a cycle the grant moves towards every master that waits.        *)
LEMMA GrantMoves ==
    ASSUME TypeOK, ~cyc[gnt], NEW m \in Masters, cyc[m]
    PROVE  Distance(next_state, m) < Distance(gnt, m)
<1> DEFINE K == {k \in 1..NumMasters-1 : cyc[After(gnt, k)]}
           d == Distance(gnt, m)
<1>1. gnt \in Masters /\ m # gnt
  BY DEF TypeOK
<1>2. d \in 1..NumMasters-1 /\ After(gnt, d) = m
  BY <1>1, DistanceAfter
<1>3. d \in K
  BY <1>2
<1>4. \E k \in K : \A j \in K : ~(j < k)
  <2>1. K \subseteq Nat /\ K # {}
    BY <1>3
  <2>2. IsWellFoundedOn({ss \in Nat \X Nat : ss[1] < ss[2]}, Nat)
    BY NatLessThanWellFounded DEF OpToRel
  <2>3. \E k \in K : \A j \in K : ~(<<j, k>> \in {ss \in Nat \X Nat : ss[1] < ss[2]})
    BY <2>1, <2>2, WFMin
  <2> QED
    BY <2>1, <2>3
<1>5. \E k \in 1..NumMasters-1 : FirstAfter(gnt, k)
  BY <1>4, Constants DEF FirstAfter
<1> DEFINE k == CHOOSE k \in 1..NumMasters-1 : FirstAfter(gnt, k)
<1>6. k \in 1..NumMasters-1 /\ FirstAfter(gnt, k)
  BY <1>5
<1>7. next_state = After(gnt, k)
  BY <1>5 DEF next_state
<1> HIDE DEF k
<1>8. k <= d
  BY <1>2, <1>6, Constants DEF FirstAfter
<1>9. Distance(After(gnt, k), m) = d - k
  BY <1>1, <1>2, <1>6, <1>8, DistanceAfter
<1> QED
  BY <1>2, <1>6, <1>7, <1>9, Constants

(* Every clock edge keeps OvertakingInv.                                   *)
LEMMA OvertakingNext ==
    TypeOK /\ HandshakeInv /\ OvertakingInv /\ [Next]_vars => OvertakingInv'
<1> SUFFICES ASSUME TypeOK, HandshakeInv, OvertakingInv, [Next]_vars PROVE OvertakingInv'
  OBVIOUS
<1>1. CASE Clock
  <2> SUFFICES ASSUME NEW m \in Masters, cyc'[m]
               PROVE  passed'[m] + Distance(gnt', m)
                        <= IF m = gnt' \/ cyc'[gnt'] THEN NumMasters - 1 ELSE NumMasters
    BY DEF OvertakingInv
  <2>1. /\ gnt \in Masters /\ gnt' \in Masters /\ passed[m] \in Nat
        /\ Distance(gnt, m) \in 0..NumMasters-1 /\ Distance(gnt', m) \in 0..NumMasters-1
        /\ Distance(gnt, m) = 0 <=> m = gnt
        /\ Distance(gnt', m) = 0 <=> m = gnt'
    BY <1>1, TypeNext, DistanceAfter DEF TypeOK, Next
  <2>2. passed'[m] = IF ~cyc[m] THEN 0
                     ELSE IF i_bus_ack /\ gnt # m THEN passed[m] + 1 ELSE passed[m]
    BY <1>1, ClockStep DEF HistoryClock
  <2>3. CASE ~cyc[m]
    BY <2>1, <2>2, <2>3, Constants
  <2>4. CASE cyc[m] /\ cyc[gnt]
    <3>1. gnt' = gnt /\ (cyc'[gnt'] <=> ~i_bus_ack)
      BY <1>1, <2>4, CycleKept
    <3>2. passed[m] + Distance(gnt, m) <= NumMasters - 1
      BY <2>4 DEF OvertakingInv
    <3> QED
      BY <2>1, <2>2, <2>4, <3>1, <3>2, Constants
  <2>5. CASE cyc[m] /\ ~cyc[gnt]
    <3>1. ~i_bus_ack
      BY <2>5 DEF HandshakeInv, i_bus_ack, csr_ack
    <3>2. gnt' = next_state
      BY <1>1, ClockStep
    <3>3. Distance(gnt', m) < Distance(gnt, m)
      BY <2>5, <3>2, GrantMoves
    <3>4. passed[m] + Distance(gnt, m) <= NumMasters
      BY <2>1, <2>5, Constants DEF OvertakingInv
    <3> QED
      BY <2>1, <2>2, <2>5, <3>1, <3>3, <3>4, Constants
  <2> QED
    BY <2>3, <2>4, <2>5
<1>2. CASE UNCHANGED vars
  BY <1>2 DEF vars, busVars, OvertakingInv
<1> QED
  BY <1>1, <1>2 DEF Next

(* No master is overtaken by more accesses than there are other masters:   *)
(* the round robin of conbus_arb5.v, for any number of masters.            *)
THEOREM OvertakingBounded == Spec => []BoundedOvertaking
<1>1. Init => OvertakingInv
  BY DEF Init, OvertakingInv
<1>2. TypeOK /\ OvertakingInv => BoundedOvertaking
  <2> SUFFICES ASSUME TypeOK, OvertakingInv, NEW m \in Masters, cyc[m]
               PROVE  passed[m] < NumMasters
    BY DEF BoundedOvertaking
  <2>1. gnt \in Masters /\ passed[m] \in Nat
    BY DEF TypeOK
  <2>2. Distance(gnt, m) \in 0..NumMasters-1 /\ (Distance(gnt, m) = 0 <=> m = gnt)
    BY <2>1, DistanceAfter
  <2> QED
    BY <2>1, <2>2, Constants DEF OvertakingInv
<1> QED
  BY HandshakeInit, HandshakeNext, OvertakingNext, TypeCorrect, <1>1, <1>2, PTL DEF Spec
=============================================================================
