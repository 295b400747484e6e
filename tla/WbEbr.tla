-------------------------------- MODULE WbEbr --------------------------------
(***************************************************************************)
(* The on-chip RAM controller boards/C120/rtl/wb_ebr_ctrl2.v over the      *)
(* dual-port block RAM of memory.v, for the single accesses a CPU without  *)
(* caches makes (CTI is END).  The burst states of the controller are out  *)
(* of reach for such a master and are left out.                            *)
(***************************************************************************)
CONSTANTS Addr,             \* word addresses
          Lanes, Byte       \* the byte lanes of a word, the values of a byte

VARIABLES ebr_state,        \* "IDLE" or "END"
          EBR_ACK_O,
          ebr_data,         \* output register of the block RAM
          ebr_mem

ebrVars == <<ebr_state, EBR_ACK_O, ebr_data, ebr_mem>>

Word == [Lanes -> Byte]
ZeroWord == [l \in Lanes |-> 0]

(* Mutant: the unselected lanes are not filled in. *)
Merge_Selected(old, new, sel) == [l \in sel |-> new[l]]

(* "old" with the selected lanes taken from "new". *)
Merge(old, new, sel) == [l \in Lanes |-> IF l \in sel THEN new[l] ELSE old[l]]

EbrTypeOK ==
    /\ ebr_state \in {"IDLE", "END"} /\ EBR_ACK_O \in BOOLEAN
    /\ ebr_data \in Word /\ ebr_mem \in [Addr -> Word]

EbrInit ==
    /\ ebr_state = "IDLE" /\ EBR_ACK_O = FALSE
    /\ ebr_data = ZeroWord /\ ebr_mem = [a \in Addr |-> ZeroWord]

(* One edge.  "sel" tells whether a cycle addresses this slave; the other  *)
(* signals follow the bus whoever they are meant for.  A write takes the   *)
(* unselected lanes from what the first edge of the access has read; the   *)
(* second edge of a read fetches from pmi_address, which serves bursts and *)
(* is abstracted to any address.                                           *)
EbrClock(cyc, we, adr, dat, sel) ==
    LET start == ebr_state = "IDLE" /\ cyc /\ ~EBR_ACK_O
        write_enable == ebr_state = "END" /\ we
        read_enable == ~we \/ ebr_state = "IDLE"
    IN  /\ ebr_state' = IF start THEN "END" ELSE "IDLE"
        /\ EBR_ACK_O' = start
        /\ ebr_data' \in IF ~read_enable THEN {ebr_data}
                         ELSE {ebr_mem[a] : a \in IF ebr_state = "END" THEN Addr ELSE {adr}}
        /\ ebr_mem' = IF write_enable
                      THEN [ebr_mem EXCEPT ![adr] = Merge(ebr_data, dat, sel)]
                      ELSE ebr_mem
=============================================================================
