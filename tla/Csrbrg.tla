------------------------------- MODULE Csrbrg -------------------------------
(***************************************************************************)
(* The bridge from the Wishbone bus to the CSR bus, cores/csrbrg/csrbrg.v, *)
(* and a peripheral behind it: registers written by csr_we and read into a *)
(* registered output, which is zero when another peripheral is addressed   *)
(* (as in cores/sysctl/sysctl.v), so that the outputs can be ORed.         *)
(***************************************************************************)
CONSTANT CsrAddr

VARIABLES csr_state,        \* "IDLE", "DELAYACK1", "DELAYACK2" or "ACK"
          csr_a, csr_we, csr_do,
          csr_di,           \* what the peripherals drive
          csr_dat_o,        \* wb_dat_o
          csr_regs          \* the registers of the peripherals

csrVars == <<csr_state, csr_a, csr_we, csr_do, csr_di, csr_dat_o, csr_regs>>

CsrTypeOK(word) ==
    /\ csr_state \in {"IDLE", "DELAYACK1", "DELAYACK2", "ACK"}
    /\ csr_a \in CsrAddr /\ csr_we \in BOOLEAN /\ csr_do \in word
    /\ csr_di \in word /\ csr_dat_o \in word /\ csr_regs \in [CsrAddr -> word]

CsrInit(zero) ==
    /\ csr_state = "IDLE" /\ csr_we = FALSE
    /\ csr_a \in CsrAddr /\ csr_do = zero /\ csr_di = zero /\ csr_dat_o = zero
    /\ csr_regs = [a \in CsrAddr |-> zero]

csr_ack == csr_state = "ACK"

(* Mutant: one delay state is missing. *)
CsrClock_Early(cyc, we, adr, dat) ==
    LET start == csr_state = "IDLE" /\ cyc
    IN  /\ csr_a' = adr /\ csr_do' = dat
        /\ csr_we' = (start /\ we)
        /\ csr_state' = CASE start -> IF we THEN "ACK" ELSE "DELAYACK2"
                          [] csr_state = "DELAYACK2" -> "ACK"
                          [] OTHER -> "IDLE"
        /\ csr_regs' = IF csr_we THEN [csr_regs EXCEPT ![csr_a] = csr_do] ELSE csr_regs
        /\ csr_di' = csr_regs[csr_a]
        /\ csr_dat_o' = csr_di

(* Mutant: the last delay state returns to IDLE. *)
CsrClock_NoAck(cyc, we, adr, dat) ==
    LET start == csr_state = "IDLE" /\ cyc
    IN  /\ csr_a' = adr /\ csr_do' = dat
        /\ csr_we' = (start /\ we)
        /\ csr_state' = CASE start -> IF we THEN "ACK" ELSE "DELAYACK1"
                          [] csr_state = "DELAYACK1" -> "DELAYACK2"
                          [] OTHER -> "IDLE"
        /\ csr_regs' = IF csr_we THEN [csr_regs EXCEPT ![csr_a] = csr_do] ELSE csr_regs
        /\ csr_di' = csr_regs[csr_a]
        /\ csr_dat_o' = csr_di

(* One edge of the bridge and of the peripherals. *)
CsrClock(cyc, we, adr, dat) ==
    LET start == csr_state = "IDLE" /\ cyc
    IN  /\ csr_a' = adr /\ csr_do' = dat
        /\ csr_we' = (start /\ we)
        /\ csr_state' = CASE start -> IF we THEN "ACK" ELSE "DELAYACK1"
                          [] csr_state = "DELAYACK1" -> "DELAYACK2"
                          [] csr_state = "DELAYACK2" -> "ACK"
                          [] OTHER -> "IDLE"
        /\ csr_regs' = IF csr_we THEN [csr_regs EXCEPT ![csr_a] = csr_do] ELSE csr_regs
        /\ csr_di' = csr_regs[csr_a]
        /\ csr_dat_o' = csr_di
=============================================================================
