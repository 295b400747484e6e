------------------------------ MODULE GdbDebug ------------------------------
(***************************************************************************)
(* Debugging a program: gdb's commands as handle_exception of gdbstub.c    *)
(* executes them (each once, GdbLink), the debug unit, and the CPU that    *)
(* runs the program, its interrupt handler or the stub.  Values in         *)
(* registers and memory are left out, except for the program counter:      *)
(* nothing here depends on them.  gdb is external; it inserts what is not  *)
(* inserted, removes what is, and never resumes at an address where a      *)
(* breakpoint is inserted.                                                 *)
(***************************************************************************)
EXTENDS DebugUnit

CONSTANTS
    Code,                   \* what the instruction at each address accesses, or NoAccess
    Isr, Crash,             \* the program's interrupt and breakpoint handlers
    Stub,                   \* the stub's
    BreakAt, WatchFor,      \* the breakpoints and watchpoints that gdb inserts
    MaxDetach               \* bound on detaching and resetting

NoAccess == [how |-> "none", at |-> "none"]
Accesses == [how : {"load", "store"}, at : Data]

MainPcs == Pcs \ {Isr, Crash}  \* of the program itself, from 0 on

ASSUME GdbAssumption == /\ IsFiniteSet(Pcs) /\ Stub \notin Pcs
                        /\ {Isr, Crash} \subseteq Pcs /\ Isr # Crash
                        /\ 0 \in MainPcs /\ MainPcs = 0..Cardinality(MainPcs)-1
                        /\ Code \in [Pcs -> Accesses \cup {NoAccess}]
                        /\ BreakAt \subseteq Pcs /\ MaxDetach \in Nat
                        /\ WatchFor \subseteq [at : Data, mode : Modes \ {{}}]

VARIABLES
    pc, ea,                 \* the CPU
    scratchpad, registers,  \* CSR_DBG_SCRATCHPAD; the saved program counter
    bpwp_enabled, bp_address, wp_address, dc, gdb_connected, \* the stub's data
    session, breaks, watches, told, \* gdb: attached, what is inserted, the last status
    detached,               \* counter for the bound
    executed,               \* history: instructions since the program went on, 2 for more
    stepping,               \* history: it went on for one instruction
    faults                  \* history: what has gone wrong

cpuVars == <<pc, ea>>
tableVars == <<bpwp_enabled, bp_address, wp_address, dc>>
stubVars == <<scratchpad, registers, tableVars, gdb_connected>>
gdbVars == <<session, breaks, watches, told>>
histVars == <<detached, executed, stepping, faults>>
vars == <<unitVars, cpuVars, stubVars, gdbVars, histVars>>

Places == Pcs \cup {Stub}

(* Every variable has its type. *)
GdbTypeOK ==
    /\ UnitTypeOK
    /\ pc \in Places /\ ea \in Pcs
    /\ scratchpad \in BOOLEAN /\ registers \in Places
    /\ bpwp_enabled \subseteq ({"bp"} \X Bps) \cup ({"wp"} \X Wps)
    /\ bp_address \in [Bps -> Pcs] /\ wp_address \in [Wps -> Data] /\ dc \in [Wps -> Modes]
    /\ gdb_connected \in BOOLEAN /\ session \in BOOLEAN
    /\ breaks \subseteq BreakAt /\ watches \subseteq WatchFor /\ told \in Places
    /\ detached \in 0..MaxDetach /\ executed \in 0..2 /\ stepping \in BOOLEAN
    /\ faults \subseteq {"stale", "second", "watched", "step_stopped", "coincided"}

NoModes == [i \in Wps |-> {}]
ClearBss == /\ bpwp_enabled' = {} /\ dc' = NoModes /\ gdb_connected' = FALSE
            /\ bp_address' = [i \in Bps |-> 0]
            /\ wp_address' = [i \in Wps |-> CHOOSE a \in Data : TRUE]

Init ==
    /\ UnitReset
    /\ pc \in MainPcs /\ ea = pc
    /\ scratchpad = FALSE /\ registers = Stub
    /\ bpwp_enabled = {} /\ dc = NoModes /\ gdb_connected = FALSE
    /\ bp_address = [i \in Bps |-> 0]
    /\ wp_address = [i \in Wps |-> CHOOSE a \in Data : TRUE]
    /\ session = FALSE /\ breaks = {} /\ watches = {} /\ told = pc
    /\ detached = 0 /\ executed = 0 /\ stepping = FALSE /\ faults = {}
-----------------------------------------------------------------------------
(* The CPU.  An exception of the debug unit or of the external break       *)
(* enters the stub, which saves the registers; after a reset of the board  *)
(* it clears its data; and if gdb was connected it reports.                *)
Running == pc # Stub

EnterStub ==
    /\ pc' = Stub
    /\ registers' = pc
    /\ scratchpad' = TRUE
    /\ IF scratchpad THEN UNCHANGED <<tableVars, gdb_connected>> ELSE ClearBss
    /\ told' = IF gdb_connected' THEN pc ELSE told
    /\ Qualified(TRUE)
    /\ faults' = faults \cup (IF Running /\ state = "EXECUTE_ONE_INSN" THEN {"step_stopped"} ELSE {})
    /\ UNCHANGED <<bp, wp, wpc, ea, session, breaks, watches, detached, executed, stepping>>

InterruptEnabled == Running /\ pc \notin {Isr, Crash} /\ ~dc_ss

DebugException == Running /\ (bp_match(pc) \/ wp_match(Code[pc])) /\ EnterStub

ExternalBreak == Running /\ EnterStub

(* At the first instruction of the stub the state machine may still raise  *)
(* the breakpoint of the step: the saved registers are those of the stub.  *)
Pending == pc = Stub /\ state = "RAISE_BREAKPOINT"
NestedException == Pending /\ EnterStub

Following(p) == CASE p = Isr -> ea [] p = Crash -> Crash
                  [] OTHER -> (p + 1) % Cardinality(MainPcs)

Execute ==
    /\ Running /\ ~bp_match(pc) /\ ~wp_match(Code[pc])
    /\ pc' = Following(pc)
    /\ executed' = IF executed = 2 THEN 2 ELSE executed + 1
    /\ Qualified(FALSE)
    /\ UNCHANGED <<bp, wp, wpc, ea, stubVars, gdbVars, detached, stepping, faults>>

(* Mutant: interrupts are taken during a step. *)
Interrupt_Stepping ==
    /\ Running /\ pc \notin {Isr, Crash}
    /\ ea' = pc
    /\ pc' = Isr /\ faults' = faults
    /\ executed' = IF executed = 2 THEN 2 ELSE executed + 1
    /\ Qualified(TRUE)
    /\ UNCHANGED <<bp, wp, wpc, stubVars, gdbVars, detached, stepping>>

(* An interrupt; together with a debug exception it is entered by the      *)
(* program's own vector, of the debug exception.                           *)
Interrupt ==
    /\ InterruptEnabled
    /\ ea' = pc
    /\ IF bp_match(pc) \/ wp_match(Code[pc])
       THEN pc' = Crash /\ faults' = faults \cup {"coincided"}
       ELSE pc' = Isr /\ faults' = faults
    /\ executed' = IF executed = 2 THEN 2 ELSE executed + 1
    /\ Qualified(TRUE)
    /\ UNCHANGED <<bp, wp, wpc, stubVars, gdbVars, detached, stepping>>

(* The reset of the board clears the registers and not the memory; gdb     *)
(* gives up.                                                               *)
Reset ==
    /\ detached < MaxDetach /\ detached' = detached + 1
    /\ bp' = [i \in Bps |-> [bp[i] EXCEPT !.e = FALSE]] /\ wpc' = NoModes
    /\ state' = "IDLE" /\ dc_ss' = FALSE
    /\ pc' = 0 /\ scratchpad' = FALSE
    /\ session' = FALSE /\ breaks' = {} /\ watches' = {} /\ told' = 0
    /\ executed' = 0 /\ stepping' = FALSE /\ faults' = {}
    /\ wp' \in [Wps -> Data]
    /\ UNCHANGED <<ea, registers, tableVars, gdb_connected>>
-----------------------------------------------------------------------------
(* The commands.  The first one attaches. *)
Command == pc = Stub /\ ~Pending
Attached == /\ Command /\ session' = TRUE /\ gdb_connected' = TRUE
            /\ UNCHANGED <<scratchpad, ea, detached>>
Stopped == UNCHANGED <<pc, registers, executed, stepping>>

(* '?', 'g' and 'p' of the program counter. *)
Status == /\ Attached /\ told' = registers
          /\ Stopped /\ UNCHANGED <<unitVars, tableVars, breaks, watches, faults>>

(* 'G' and 'P' of the program counter. *)
SetPc == \E a \in MainPcs :
            /\ Attached /\ registers \notin {Isr, Crash}
            /\ registers' = a /\ told' = a
            /\ UNCHANGED <<unitVars, pc, executed, stepping, tableVars, breaks, watches, faults>>

(* 'm', 'M' and 'X': the stub's own load or store may match a watchpoint.  *)
Memory == \E access \in Accesses :
            /\ Attached /\ session
            /\ IF wp_match(access)
               THEN /\ registers' = Stub /\ told' = Stub
                    /\ Qualified(TRUE) /\ faults' = faults \cup {"watched"}
               ELSE UNCHANGED <<registers, told, state, dc_ss, faults>>
            /\ UNCHANGED <<bp, wp, wpc, pc, executed, stepping, tableVars, breaks, watches>>

Least(S) == CHOOSE i \in S : \A j \in S : i <= j

(* Mutant: one register more than there is. *)
FreeBps_OneMore == {i \in 0..NumBps : <<"bp", i>> \notin bpwp_enabled}

(* The registers that are not in use. *)
FreeBps == {i \in Bps : <<"bp", i>> \notin bpwp_enabled}
FreeWps == {i \in Wps : <<"wp", i>> \notin bpwp_enabled}

(* set_hw_breakpoint: the first free register, or E28. *)
set_hw_breakpoint(a) ==
    IF FreeBps = {} THEN UNCHANGED <<bp, bpwp_enabled, bp_address, breaks>>
    ELSE LET i == Least(FreeBps) IN
         /\ WriteBP(i, a, TRUE)
         /\ bpwp_enabled' = bpwp_enabled \cup {<<"bp", i>>}
         /\ bp_address' = [bp_address EXCEPT ![i] = a]
         /\ breaks' = breaks \cup {a}

disable_hw_breakpoint(a) ==
    LET found == {i \in Bps : <<"bp", i>> \in bpwp_enabled /\ bp_address[i] = a} IN
    IF found = {} THEN UNCHANGED <<bp, bpwp_enabled, bp_address, breaks>>
    ELSE LET i == Least(found) IN
         /\ bp' = [bp EXCEPT ![i] = [a |-> 0, e |-> FALSE]]
         /\ bpwp_enabled' = bpwp_enabled \ {<<"bp", i>>}
         /\ breaks' = breaks \ {a}
         /\ UNCHANGED bp_address

(* set_hw_watchpoint: the address always goes to WP0. *)
set_hw_watchpoint(w) ==
    IF FreeWps = {} THEN UNCHANGED <<wp, wpc, state, dc_ss, bpwp_enabled, wp_address, dc, watches, faults>>
    ELSE LET i == Least(FreeWps) IN
         /\ bpwp_enabled' = bpwp_enabled \cup {<<"wp", i>>}
         /\ wp_address' = [wp_address EXCEPT ![i] = w.at]
         /\ dc' = [dc EXCEPT ![i] = w.mode]
         /\ WriteWP(0, w.at) /\ WriteDC(dc', FALSE)
         /\ watches' = watches \cup {w}
         /\ faults' = faults \cup (IF i = 0 THEN {} ELSE {"second"})

disable_hw_watchpoint(w) ==
    LET found == {i \in Wps : /\ <<"wp", i>> \in bpwp_enabled
                              /\ wp_address[i] = w.at /\ dc[i] = w.mode} IN
    IF found = {} THEN UNCHANGED <<wpc, state, dc_ss, bpwp_enabled, dc, watches>>
    ELSE LET i == Least(found) IN
         /\ bpwp_enabled' = bpwp_enabled \ {<<"wp", i>>}
         /\ dc' = [dc EXCEPT ![i] = {}]
         /\ WriteDC(dc', FALSE)
         /\ watches' = watches \ {w}

(* cmd_break: 'Z1', 'z1' and 'Z2' to 'Z4', 'z2' to 'z4'.  To 'Z0' the      *)
(* answer is empty, and gdb writes memory instead.                         *)
Break ==
    \E a \in BreakAt :
        /\ Attached /\ session
        /\ IF a \in breaks THEN disable_hw_breakpoint(a) ELSE set_hw_breakpoint(a)
        /\ Stopped /\ UNCHANGED <<wp, wpc, state, dc_ss, wp_address, dc, watches, told, faults>>

Watch ==
    \E w \in WatchFor :
        /\ Attached /\ session
        /\ IF w \in watches
           THEN disable_hw_watchpoint(w) /\ UNCHANGED <<wp, wp_address, faults>>
           ELSE set_hw_watchpoint(w)
        /\ Stopped /\ UNCHANGED <<bp, bp_address, breaks, told>>

(* Back to the program: bret.  A stub that was entered from the stub has    *)
(* overwritten its stack; its return is left out.                          *)
Return(step) ==
    /\ registers # Stub /\ pc' = registers
    /\ executed' = 0 /\ stepping' = step

(* cmd_continuestep: 'c', and 's', for which DC is written.                *)
Continue ==
    /\ Attached /\ session /\ registers \notin breaks
    /\ Return(FALSE)
    /\ UNCHANGED <<unitVars, registers, tableVars, breaks, watches, told, faults>>

SingleStep ==
    /\ Attached /\ session /\ registers \notin breaks
    /\ wpc' = [i \in Wps |-> dc[i]] /\ dc_ss' = TRUE /\ state' = AfterBret("WAIT_FOR_RET")
    /\ Return(TRUE)
    /\ UNCHANGED <<bp, wp, registers, tableVars, breaks, watches, told, faults>>

(* Mutant: only the breakpoints are removed. *)
remove_all_break_KeepDc ==
    /\ bp' = [i \in Bps |-> [a |-> 0, e |-> FALSE]]
    /\ UNCHANGED <<wp, wpc, state, dc_ss>>

(* cmd_detachkill: the registers are cleared, the table is not. *)
remove_all_break ==
    /\ WriteDC(NoModes, FALSE)
    /\ bp' = [i \in Bps |-> [a |-> 0, e |-> FALSE]]
    /\ UNCHANGED wp

Detach ==
    /\ Command /\ session /\ detached < MaxDetach
    /\ remove_all_break
    /\ gdb_connected' = FALSE /\ session' = FALSE
    /\ breaks' = {} /\ watches' = {}
    /\ detached' = detached + 1
    /\ faults' = faults \cup (IF bpwp_enabled = {} THEN {} ELSE {"stale"})
    /\ Return(FALSE)
    /\ UNCHANGED <<ea, scratchpad, registers, tableVars, told>>

Cpu == DebugException \/ ExternalBreak \/ NestedException \/ Execute \/ Interrupt
Next == \/ Cpu \/ Reset
        \/ Status \/ SetPc \/ Memory \/ Break \/ Watch \/ Continue \/ SingleStep \/ Detach
Spec == Init /\ [][Next]_vars
-----------------------------------------------------------------------------
(* While the program runs, the debug unit stops it where gdb has inserted  *)
(* breakpoints and watchpoints and nowhere else.  Where more is armed than *)
(* gdb asked for, gdb has been attached before (the table outlives         *)
(* cmd_detachkill); where a watchpoint is missing, there are two of them   *)
(* (WP0 holds the address of the last).  Without gdb nothing is armed.     *)
Armed == {bp[i].a : i \in {j \in Bps : bp[j].e}}
Watching == {[at |-> wp[i], mode |-> wpc[i]] : i \in {j \in Wps : wpc[j] # {}}}

ArmedAsAsked ==
    Running => /\ breaks \subseteq Armed
               /\ "stale" \notin faults => Armed = breaks
               /\ {"stale", "second"} \cap faults = {} => Watching = watches
               /\ ~session => Armed = {} /\ Watching = {}

(* The program counter gdb is told is one of the program, not of the stub  *)
(* and not of the BIOS's endless loop for unexpected exceptions: unless    *)
(* the stub itself touched a watched word, the instruction of a step had   *)
(* an exception, or an interrupt came with the breakpoint.                 *)
ToldTheProgram ==
    {"watched", "step_stopped", "coincided"} \cap faults = {} => told \in Pcs \ {Crash}

(* A step executes one instruction and no interrupt.                       *)
StepsOne == stepping /\ Running => executed <= 1
=============================================================================
