--------------------------- MODULE Lm32Interrupt ---------------------------
(***************************************************************************)
(* The CPU's interrupt logic, cores/lm32/lm32_interrupt.v.  Each operator  *)
(* is what one clock edge does to the IE, IM and IP registers; "lines" is  *)
(* the set of interrupt inputs asserted at that edge.                      *)
(***************************************************************************)
EXTENDS FiniteSets

CONSTANT Irqs               \* the interrupt lines that exist

VARIABLES ie, eie, bie,     \* interrupt enable, saved by exceptions and breaks
          im, ip            \* mask and pending registers, sets of lines

irqVars == <<ie, eie, bie, im, ip>>

IrqTypeOK ==
    /\ ie \in BOOLEAN /\ eie \in BOOLEAN /\ bie \in BOOLEAN
    /\ im \in SUBSET Irqs /\ ip \in SUBSET Irqs

IrqInit == ie = FALSE /\ eie = FALSE /\ bie = FALSE /\ im = {} /\ ip = {}

interrupt_exception == ie /\ ip \cap im # {}

asserted(lines) == ip \cup lines

(* An edge at which the pipeline does nothing to these registers. *)
IrqIdle(lines) == ip' = asserted(lines) /\ UNCHANGED <<ie, eie, bie, im>>

(* An exception other than a debug one is raised. *)
IrqException(lines) ==
    /\ ip' = asserted(lines)
    /\ eie' = ie /\ ie' = FALSE
    /\ UNCHANGED <<bie, im>>

(* Mutant: saved where other exceptions are. *)
IrqDebugException_SaveEie(lines) == IrqException(lines)

IrqDebugException(lines) ==
    /\ ip' = asserted(lines)
    /\ bie' = ie /\ ie' = FALSE
    /\ UNCHANGED <<eie, im>>

IrqEret(lines) == ip' = asserted(lines) /\ ie' = eie /\ UNCHANGED <<eie, bie, im>>
IrqBret(lines) == ip' = asserted(lines) /\ ie' = bie /\ UNCHANGED <<eie, bie, im>>

(* irq_enable, irq_setmask and irq_ack: wcsr to IE, IM and IP.  A line     *)
(* that is still asserted while it is acknowledged pends again at the next *)
(* edge.                                                                   *)
WcsrIE(lines, en) ==
    /\ ip' = asserted(lines)
    /\ ie' = en /\ eie' = FALSE /\ bie' = FALSE
    /\ im' = im
WcsrIM(lines, mask) == ip' = asserted(lines) /\ im' = mask /\ UNCHANGED <<ie, eie, bie>>
WcsrIP(lines, mask) == ip' = asserted(lines) \ mask /\ UNCHANGED <<ie, eie, bie, im>>
=============================================================================
