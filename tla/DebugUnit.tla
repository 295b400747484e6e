------------------------------ MODULE DebugUnit ------------------------------
(***************************************************************************)
(* The debug unit of the CPU, cores/lm32/lm32_debug.v: breakpoint and      *)
(* watchpoint registers and the single-step state machine, as lm32_include *)
(* configures it (no caches).  RESTART, which lasts one clock after the    *)
(* exception, is IDLE here.                                                *)
(***************************************************************************)
EXTENDS Naturals, FiniteSets

CONSTANTS
    Pcs, Data,              \* addresses of instructions and of data
    NumBps, NumWps          \* CFG_BREAKPOINTS and CFG_WATCHPOINTS, 4 and 4

ASSUME UnitAssumption == /\ NumBps \in 0..4 /\ NumWps \in 0..4
                         /\ Pcs # {} /\ Data # {}

VARIABLES bp, wp, wpc, state, dc_ss
unitVars == <<bp, wp, wpc, state, dc_ss>>

Bps == 0..NumBps-1
Wps == 0..NumWps-1
Modes == SUBSET {"load", "store"}
SsStates == {"IDLE", "WAIT_FOR_RET", "EXECUTE_ONE_INSN", "RAISE_BREAKPOINT"}

UnitTypeOK ==
    /\ bp \in [Bps -> [a : Pcs, e : BOOLEAN]]
    /\ wp \in [Wps -> Data] /\ wpc \in [Wps -> Modes]
    /\ state \in SsStates /\ dc_ss \in BOOLEAN

(* Addresses are undefined after a reset. *)
UnitReset ==
    /\ bp \in [Bps -> [a : Pcs, e : {FALSE}]]
    /\ wp \in [Wps -> Data] /\ wpc = [i \in Wps |-> {}]
    /\ state = "IDLE" /\ dc_ss = FALSE

(* What matches in the X stage. *)
bp_match(pc) == \/ \E i \in Bps : bp[i].e /\ bp[i].a = pc
                \/ state = "RAISE_BREAKPOINT"
wp_match(access) == \E i \in Wps : access.how \in wpc[i] /\ access.at = wp[i]

(* The writes to DC, BP and WP. *)
WriteDC(modes, step) ==
    /\ wpc' = [i \in Wps |-> modes[i]]
    /\ dc_ss' = step
    /\ state' = IF step THEN "WAIT_FOR_RET" ELSE "IDLE"
WriteBP(i, address, enable) == bp' = [bp EXCEPT ![i] = [a |-> address, e |-> enable]]
WriteWP(i, address) == wp' = [wp EXCEPT ![i] = address]

(* The state machine as bret or another instruction goes through the X     *)
(* stage, with an exception or not.                                        *)
AfterBret(s) == IF s = "WAIT_FOR_RET" THEN "EXECUTE_ONE_INSN" ELSE s

(* Mutant: the exception of the step does not end it. *)
Qualified_StaysRaised(exception) ==
    /\ state' = IF state = "EXECUTE_ONE_INSN" THEN "RAISE_BREAKPOINT" ELSE state
    /\ dc_ss' = (dc_ss /\ ~(state = "RAISE_BREAKPOINT" /\ exception))

Qualified(exception) ==
    /\ state' = CASE state = "EXECUTE_ONE_INSN" -> "RAISE_BREAKPOINT"
                  [] state = "RAISE_BREAKPOINT" /\ exception -> "IDLE"
                  [] OTHER -> state
    /\ dc_ss' = (dc_ss /\ ~(state = "RAISE_BREAKPOINT" /\ exception))
=============================================================================
