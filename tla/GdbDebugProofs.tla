--------------------------- MODULE GdbDebugProofs ---------------------------
(***************************************************************************)
(* Theorems about GdbDebug, for every program, number of registers and set *)
(* of breakpoints and watchpoints.                                         *)
(***************************************************************************)
EXTENDS GdbDebug, FiniteSetTheorems, TLAPS

(* The addresses of the main program are closed under Following.           *)
LEMMA Addresses ==
    /\ 0 \in MainPcs /\ MainPcs \subseteq Pcs
    /\ \A p \in MainPcs : (p + 1) % Cardinality(MainPcs) \in MainPcs
<1> DEFINE c == Cardinality(MainPcs)
<1>1. MainPcs \subseteq Pcs /\ IsFiniteSet(MainPcs)
  BY GdbAssumption, FS_Subset DEF MainPcs
<1>2. c \in Nat
  BY <1>1, FS_CardinalityType
<1>3. 0 \in MainPcs /\ MainPcs = 0..c-1
  BY GdbAssumption
<1> HIDE DEF c
<1>4. \A p \in 0..c-1 : (p + 1) % c \in 0..c-1
  BY <1>2
<1> QED
  BY <1>1, <1>3, <1>4 DEF c

(* A set of register numbers that is not empty has a least one.            *)
LEMMA LeastOf ==
    ASSUME NEW k \in 0..4, NEW S \in SUBSET (0..k-1), S # {}
    PROVE  Least(S) \in S /\ \A j \in S : Least(S) <= j
<1>1. \E i \in S : \A j \in S : i <= j
  <2>1. CASE 0 \in S BY <2>1
  <2>2. CASE 0 \notin S /\ 1 \in S BY <2>2
  <2>3. CASE {0, 1} \cap S = {} /\ 2 \in S BY <2>3
  <2>4. CASE S = {3} BY <2>4
  <2>5. S \subseteq {0, 1, 2, 3}
    OBVIOUS
  <2> QED BY <2>1, <2>2, <2>3, <2>4, <2>5
<1> QED
  BY <1>1 DEF Least

-----------------------------------------------------------------------------
(* A step of the debug unit's state machine keeps its type.                *)
LEMMA QualifiedType ==
    ASSUME NEW e \in BOOLEAN, Qualified(e), state \in SsStates, dc_ss \in BOOLEAN
    PROVE  state' \in SsStates /\ dc_ss' \in BOOLEAN
BY DEF Qualified, SsStates

(* Every variable has its type at first.                                   *)
LEMMA TypeInit == Init => GdbTypeOK
<1> SUFFICES ASSUME Init PROVE GdbTypeOK
  OBVIOUS
<1>1. UnitTypeOK
  BY DEF Init, UnitReset, UnitTypeOK, SsStates, Modes
<1>2. pc \in Places /\ ea \in Pcs /\ registers \in Places /\ told \in Places
  BY Addresses DEF Init, Places
<1>3. bp_address \in [Bps -> Pcs] /\ wp_address \in [Wps -> Data] /\ dc \in [Wps -> Modes]
  BY UnitAssumption, Addresses DEF Init, Modes, NoModes
<1>4. detached \in 0..MaxDetach
  BY GdbAssumption DEF Init
<1>5. /\ bpwp_enabled \subseteq ({"bp"} \X Bps) \cup ({"wp"} \X Wps)
      /\ breaks \subseteq BreakAt /\ watches \subseteq WatchFor
      /\ faults \subseteq {"stale", "second", "watched", "step_stopped", "coincided"}
  BY DEF Init
<1>6. scratchpad \in BOOLEAN /\ gdb_connected \in BOOLEAN /\ session \in BOOLEAN
      /\ stepping \in BOOLEAN
  BY Zenon DEF Init
<1>7. executed \in 0..2
  BY DEF Init
<1> QED
  BY <1>1, <1>2, <1>3, <1>4, <1>5, <1>6, <1>7 DEF GdbTypeOK

(* Entering the stub, with or without clearing its data, keeps the types.  *)
LEMMA EnterStubType ==
    ASSUME GdbTypeOK, EnterStub PROVE GdbTypeOK'
<1>1. state' \in SsStates /\ dc_ss' \in BOOLEAN
  BY QualifiedType DEF EnterStub, GdbTypeOK, UnitTypeOK
<1>2. /\ bpwp_enabled' \subseteq ({"bp"} \X Bps) \cup ({"wp"} \X Wps)
      /\ bp_address' \in [Bps -> Pcs] /\ wp_address' \in [Wps -> Data] /\ dc' \in [Wps -> Modes]
      /\ gdb_connected' \in BOOLEAN
  BY UnitAssumption, Addresses DEF EnterStub, ClearBss, NoModes, Modes, GdbTypeOK, tableVars
<1>3. /\ pc' \in Places /\ registers' \in Places /\ scratchpad' \in BOOLEAN /\ told' \in Places
  BY DEF EnterStub, GdbTypeOK, Places
<1> QED
  BY <1>1, <1>2, <1>3 DEF EnterStub, GdbTypeOK, UnitTypeOK

(* After an instruction of the program comes another one.                  *)
LEMMA FollowingType ==
    ASSUME NEW p \in Pcs, ea \in Pcs PROVE Following(p) \in Pcs
<1>1. CASE p \in MainPcs
  <2>1. p # Isr /\ p # Crash
    BY <1>1 DEF MainPcs
  <2> QED
    BY <1>1, <2>1, Addresses DEF Following
<1>2. CASE p \in {Isr, Crash}
  BY <1>2, GdbAssumption DEF Following
<1> QED
  BY <1>1, <1>2 DEF MainPcs

(* The registers that the commands find are registers of the debug unit.   *)
LEMMA FoundRegisters ==
    /\ \A S \in SUBSET Bps : S # {} => Least(S) \in S
    /\ \A S \in SUBSET Wps : S # {} => Least(S) \in S /\ \A j \in S : Least(S) <= j
BY LeastOf, UnitAssumption DEF Bps, Wps

(* The command to insert a breakpoint: nothing, when no register is free,  *)
(* or one that is not in use is taken.                                     *)
LEMMA SetBreakStep ==
    ASSUME NEW a, set_hw_breakpoint(a)
    PROVE  \/ UNCHANGED <<bp, bpwp_enabled, bp_address, breaks>>
           \/ \E i \in Bps :
                /\ <<"bp", i>> \notin bpwp_enabled
                /\ bp' = [bp EXCEPT ![i] = [a |-> a, e |-> TRUE]]
                /\ bpwp_enabled' = bpwp_enabled \cup {<<"bp", i>>}
                /\ bp_address' = [bp_address EXCEPT ![i] = a]
                /\ breaks' = breaks \cup {a}
<1>1. CASE FreeBps = {}
  BY <1>1 DEF set_hw_breakpoint
<1>2. CASE FreeBps # {}
  <2>1. Least(FreeBps) \in FreeBps
    BY <1>2, FoundRegisters DEF FreeBps
  <2> QED
    BY <1>2, <2>1 DEF set_hw_breakpoint, WriteBP, FreeBps
<1> QED BY <1>1, <1>2

(* The command to remove a breakpoint: nothing, when it is not in the table, *)
(* or the register that holds it is given back.                            *)
LEMMA ClearBreakStep ==
    ASSUME NEW a, disable_hw_breakpoint(a)
    PROVE  \/ /\ UNCHANGED <<bp, bpwp_enabled, bp_address, breaks>>
              /\ ~\E i \in Bps : <<"bp", i>> \in bpwp_enabled /\ bp_address[i] = a
           \/ \E i \in Bps :
                /\ <<"bp", i>> \in bpwp_enabled /\ bp_address[i] = a
                /\ bp' = [bp EXCEPT ![i] = [a |-> 0, e |-> FALSE]]
                /\ bpwp_enabled' = bpwp_enabled \ {<<"bp", i>>}
                /\ breaks' = breaks \ {a} /\ bp_address' = bp_address
<1> DEFINE found == {i \in Bps : <<"bp", i>> \in bpwp_enabled /\ bp_address[i] = a}
<1>1. CASE found = {}
  BY <1>1 DEF disable_hw_breakpoint
<1>2. CASE found # {}
  <2>1. Least(found) \in found
    BY <1>2, FoundRegisters
  <2> QED
    BY <1>2, <2>1 DEF disable_hw_breakpoint
<1> QED BY <1>1, <1>2

(* The command to insert a watchpoint: nothing, or the least register that *)
(* is not in use is taken, while the address goes to WP0.                  *)
LEMMA SetWatchStep ==
    ASSUME NEW w, set_hw_watchpoint(w)
    PROVE  \/ UNCHANGED <<wp, wpc, state, dc_ss, bpwp_enabled, wp_address, dc, watches, faults>>
           \/ \E i \in Wps :
                /\ <<"wp", i>> \notin bpwp_enabled
                /\ \A j \in Wps : <<"wp", j>> \notin bpwp_enabled => i <= j
                /\ bpwp_enabled' = bpwp_enabled \cup {<<"wp", i>>}
                /\ wp_address' = [wp_address EXCEPT ![i] = w.at]
                /\ dc' = [dc EXCEPT ![i] = w.mode]
                /\ wp' = [wp EXCEPT ![0] = w.at] /\ WriteDC(dc', FALSE)
                /\ watches' = watches \cup {w}
                /\ faults' = faults \cup (IF i = 0 THEN {} ELSE {"second"})
<1>1. CASE FreeWps = {}
  BY <1>1 DEF set_hw_watchpoint
<1>2. CASE FreeWps # {}
  <2>1. Least(FreeWps) \in FreeWps /\ \A j \in FreeWps : Least(FreeWps) <= j
    BY <1>2, FoundRegisters DEF FreeWps
  <2> QED
    BY <1>2, <2>1 DEF set_hw_watchpoint, WriteWP, FreeWps
<1> QED BY <1>1, <1>2

(* The command to remove a watchpoint: nothing, or its register is given   *)
(* back.                                                                   *)
LEMMA ClearWatchStep ==
    ASSUME NEW w, disable_hw_watchpoint(w)
    PROVE  \/ /\ UNCHANGED <<wpc, state, dc_ss, bpwp_enabled, dc, watches>>
              /\ ~\E i \in Wps : /\ <<"wp", i>> \in bpwp_enabled
                                  /\ wp_address[i] = w.at /\ dc[i] = w.mode
           \/ \E i \in Wps :
                /\ <<"wp", i>> \in bpwp_enabled /\ wp_address[i] = w.at /\ dc[i] = w.mode
                /\ bpwp_enabled' = bpwp_enabled \ {<<"wp", i>>}
                /\ dc' = [dc EXCEPT ![i] = {}] /\ WriteDC(dc', FALSE)
                /\ watches' = watches \ {w}
<1> DEFINE found == {i \in Wps : /\ <<"wp", i>> \in bpwp_enabled
                                /\ wp_address[i] = w.at /\ dc[i] = w.mode}
<1>1. CASE found = {}
  BY <1>1 DEF disable_hw_watchpoint
<1>2. CASE found # {}
  <2>1. Least(found) \in found
    BY <1>2, FoundRegisters
  <2> QED
    BY <1>2, <2>1 DEF disable_hw_watchpoint
<1> QED BY <1>1, <1>2

(* The commands on breakpoints write only what the registers can hold.     *)
LEMMA BreakType ==
    ASSUME GdbTypeOK, Break PROVE GdbTypeOK'
<1>1. PICK a \in BreakAt :
        /\ Attached
        /\ IF a \in breaks THEN disable_hw_breakpoint(a) ELSE set_hw_breakpoint(a)
        /\ Stopped /\ UNCHANGED <<wp, wpc, state, dc_ss, wp_address, dc, watches, told, faults>>
  BY DEF Break
<1>2. a \in Pcs /\ 0 \in Pcs
  BY GdbAssumption, Addresses
<1> DEFINE Typed == /\ bp \in [Bps -> [a : Pcs, e : BOOLEAN]]
                    /\ bpwp_enabled \subseteq ({"bp"} \X Bps) \cup ({"wp"} \X Wps)
                    /\ bp_address \in [Bps -> Pcs] /\ breaks \subseteq BreakAt
<1>3. Typed'
  <2>1. CASE UNCHANGED <<bp, bpwp_enabled, bp_address, breaks>>
    BY <2>1 DEF GdbTypeOK, UnitTypeOK
  <2>2. ASSUME NEW i \in Bps,
               bp' = [bp EXCEPT ![i] = [a |-> a, e |-> TRUE]],
               bpwp_enabled' = bpwp_enabled \cup {<<"bp", i>>},
               bp_address' = [bp_address EXCEPT ![i] = a], breaks' = breaks \cup {a}
        PROVE  Typed'
    BY <2>2, <1>2 DEF GdbTypeOK, UnitTypeOK
  <2>3. ASSUME NEW i \in Bps,
               bp' = [bp EXCEPT ![i] = [a |-> 0, e |-> FALSE]],
               bpwp_enabled' = bpwp_enabled \ {<<"bp", i>>},
               bp_address' = bp_address, breaks' = breaks \ {a}
        PROVE  Typed'
    BY <2>3, <1>2 DEF GdbTypeOK, UnitTypeOK
  <2> QED
    BY <1>1, <2>1, <2>2, <2>3, SetBreakStep, ClearBreakStep
<1>4. session' \in BOOLEAN /\ gdb_connected' \in BOOLEAN
  BY <1>1, Zenon DEF Attached
<1> QED
  BY <1>1, <1>3, <1>4 DEF Attached, Stopped, GdbTypeOK, UnitTypeOK

(* The commands on watchpoints write only what the registers can hold.     *)
LEMMA WatchType ==
    ASSUME GdbTypeOK, Watch PROVE GdbTypeOK'
<1>1. PICK w \in WatchFor :
        /\ Attached
        /\ IF w \in watches
           THEN disable_hw_watchpoint(w) /\ UNCHANGED <<wp, wp_address, faults>>
           ELSE set_hw_watchpoint(w)
        /\ Stopped /\ UNCHANGED <<bp, bp_address, breaks, told>>
  BY DEF Watch
<1>2. w.at \in Data /\ w.mode \in Modes /\ {} \in Modes
  BY GdbAssumption DEF Modes
<1> DEFINE Typed ==
        /\ wp \in [Wps -> Data] /\ wpc \in [Wps -> Modes]
        /\ wp_address \in [Wps -> Data] /\ dc \in [Wps -> Modes]
        /\ bpwp_enabled \subseteq ({"bp"} \X Bps) \cup ({"wp"} \X Wps)
        /\ state \in SsStates /\ watches \subseteq WatchFor
        /\ faults \subseteq {"stale", "second", "watched", "step_stopped", "coincided"}
<1>3. Typed'
  <2>1. CASE w \in watches
    <3>1. CASE UNCHANGED <<wpc, state, dc_ss, bpwp_enabled, dc, watches>>
      BY <1>1, <2>1, <3>1 DEF GdbTypeOK, UnitTypeOK
    <3>2. ASSUME NEW i \in Wps, bpwp_enabled' = bpwp_enabled \ {<<"wp", i>>},
                 dc' = [dc EXCEPT ![i] = {}], WriteDC(dc', FALSE), watches' = watches \ {w}
          PROVE  Typed'
      BY <1>1, <1>2, <2>1, <3>2 DEF WriteDC, SsStates, GdbTypeOK, UnitTypeOK
    <3> QED
      BY <1>1, <2>1, <3>1, <3>2, ClearWatchStep
  <2>2. CASE w \notin watches
    <3>1. CASE UNCHANGED <<wp, wpc, state, dc_ss, bpwp_enabled, wp_address, dc, watches, faults>>
      BY <3>1 DEF GdbTypeOK, UnitTypeOK
    <3>2. ASSUME NEW i \in Wps, bpwp_enabled' = bpwp_enabled \cup {<<"wp", i>>},
                 wp_address' = [wp_address EXCEPT ![i] = w.at],
                 dc' = [dc EXCEPT ![i] = w.mode],
                 wp' = [wp EXCEPT ![0] = w.at], WriteDC(dc', FALSE),
                 watches' = watches \cup {w},
                 faults' = faults \cup (IF i = 0 THEN {} ELSE {"second"})
          PROVE  Typed'
      <4>1. wp' \in [Wps -> Data] /\ wp_address' \in [Wps -> Data] /\ dc' \in [Wps -> Modes]
        BY <1>2, <3>2 DEF GdbTypeOK, UnitTypeOK
      <4>2. wpc' \in [Wps -> Modes] /\ state' \in SsStates
        BY <4>1, <3>2 DEF WriteDC, SsStates
      <4>3. /\ bpwp_enabled' \subseteq ({"bp"} \X Bps) \cup ({"wp"} \X Wps)
            /\ watches' \subseteq WatchFor
            /\ faults' \subseteq {"stale", "second", "watched", "step_stopped", "coincided"}
        BY <3>2 DEF GdbTypeOK
      <4> QED
        BY <4>1, <4>2, <4>3
    <3> QED
      BY <1>1, <2>2, <3>1, <3>2, SetWatchStep
  <2> QED BY <2>1, <2>2
<1>4. dc_ss' \in BOOLEAN
  BY <1>1 DEF disable_hw_watchpoint, set_hw_watchpoint, WriteDC, GdbTypeOK, UnitTypeOK
<1>5. session' \in BOOLEAN /\ gdb_connected' \in BOOLEAN
  BY <1>1, Zenon DEF Attached
<1> QED
  BY <1>1, <1>3, <1>4, <1>5 DEF Attached, Stopped, GdbTypeOK, UnitTypeOK

(* Every step keeps the types.                                             *)
LEMMA TypeNext == GdbTypeOK /\ [Next]_vars => GdbTypeOK'
<1> SUFFICES ASSUME GdbTypeOK, [Next]_vars PROVE GdbTypeOK'
  OBVIOUS
<1>1. CASE DebugException \/ ExternalBreak \/ NestedException
  BY <1>1, EnterStubType DEF DebugException, ExternalBreak, NestedException
<1>2. CASE Execute
  <2>1. pc' \in Places
    BY <1>2, FollowingType DEF Execute, Running, Places, GdbTypeOK
  <2>2. state' \in SsStates /\ dc_ss' \in BOOLEAN
    BY <1>2, QualifiedType DEF Execute, GdbTypeOK, UnitTypeOK
  <2> QED
    BY <1>2, <2>1, <2>2 DEF Execute, stubVars, tableVars, gdbVars, GdbTypeOK, UnitTypeOK
<1>3. CASE Interrupt
  <2>1. pc' \in Places /\ ea' \in Pcs
    BY <1>3, GdbAssumption DEF Interrupt, InterruptEnabled, Running, Places, GdbTypeOK
  <2>2. state' \in SsStates /\ dc_ss' \in BOOLEAN
    BY <1>3, QualifiedType DEF Interrupt, GdbTypeOK, UnitTypeOK
  <2>3. faults' \subseteq {"stale", "second", "watched", "step_stopped", "coincided"}
    BY <1>3 DEF Interrupt, GdbTypeOK
  <2> QED
    BY <1>3, <2>1, <2>2, <2>3
    DEF Interrupt, stubVars, tableVars, gdbVars, GdbTypeOK, UnitTypeOK
<1>4. CASE Reset
  <2>1. UnitTypeOK'
    BY <1>4 DEF Reset, NoModes, Modes, SsStates, GdbTypeOK, UnitTypeOK
  <2>2. pc' \in Places /\ told' \in Places /\ detached' \in 0..MaxDetach
    BY <1>4, Addresses, GdbAssumption DEF Reset, Places, GdbTypeOK
  <2>3. scratchpad' \in BOOLEAN /\ session' \in BOOLEAN /\ stepping' \in BOOLEAN
    BY <1>4, Zenon DEF Reset
  <2> QED
    BY <1>4, <2>1, <2>2, <2>3 DEF Reset, tableVars, GdbTypeOK
<1>5. CASE Status
  <2>1. session' \in BOOLEAN /\ gdb_connected' \in BOOLEAN
    BY <1>5, Zenon DEF Status, Attached
  <2> QED
    BY <1>5, <2>1 DEF Status, Attached, Stopped, unitVars, tableVars, GdbTypeOK, UnitTypeOK
<1>6. CASE SetPc
  <2>1. session' \in BOOLEAN /\ gdb_connected' \in BOOLEAN
    BY <1>6, Zenon DEF SetPc, Attached
  <2> QED
    BY <1>6, <2>1, Addresses DEF SetPc, Attached, Places, unitVars, tableVars, GdbTypeOK, UnitTypeOK
<1>7. CASE Memory
  <2>1. session' \in BOOLEAN /\ gdb_connected' \in BOOLEAN
    BY <1>7, Zenon DEF Memory, Attached
  <2>2. state' \in SsStates /\ dc_ss' \in BOOLEAN
    BY <1>7, QualifiedType DEF Memory, GdbTypeOK, UnitTypeOK
  <2> QED
    BY <1>7, <2>1, <2>2 DEF Memory, Attached, Places, tableVars, GdbTypeOK, UnitTypeOK
<1>8. CASE Break
  BY <1>8, BreakType
<1>9. CASE Watch
  BY <1>9, WatchType
<1>10. CASE Continue
  <2>1. session' \in BOOLEAN /\ gdb_connected' \in BOOLEAN /\ stepping' \in BOOLEAN
    BY <1>10, Zenon DEF Continue, Attached, Return
  <2> QED
    BY <1>10, <2>1
    DEF Continue, Attached, Return, unitVars, tableVars, GdbTypeOK, UnitTypeOK
<1>11. CASE SingleStep
  <2>1. session' \in BOOLEAN /\ gdb_connected' \in BOOLEAN /\ stepping' \in BOOLEAN
        /\ dc_ss' \in BOOLEAN
    BY <1>11, Zenon DEF SingleStep, Attached, Return
  <2> QED
    BY <1>11, <2>1
    DEF SingleStep, Attached, Return, AfterBret, SsStates, tableVars, GdbTypeOK, UnitTypeOK
<1>12. CASE Detach
  <2>1. session' \in BOOLEAN /\ gdb_connected' \in BOOLEAN /\ stepping' \in BOOLEAN
        /\ dc_ss' \in BOOLEAN
    BY <1>12, Zenon DEF Detach, Return, remove_all_break, WriteDC
  <2>2. bp' \in [Bps -> [a : Pcs, e : BOOLEAN]] /\ wpc' \in [Wps -> Modes]
        /\ state' \in SsStates
    BY <1>12, Addresses DEF Detach, remove_all_break, WriteDC, NoModes, Modes, SsStates
  <2>3. faults' \subseteq {"stale", "second", "watched", "step_stopped", "coincided"}
        /\ detached' \in 0..MaxDetach
    BY <1>12, GdbAssumption DEF Detach, GdbTypeOK
  <2> QED
    BY <1>12, <2>1, <2>2, <2>3
    DEF Detach, Return, remove_all_break, tableVars, GdbTypeOK, UnitTypeOK
<1>13. CASE UNCHANGED vars
  BY <1>13
  DEF vars, unitVars, cpuVars, stubVars, tableVars, gdbVars, histVars, GdbTypeOK, UnitTypeOK
<1> QED
  BY <1>1, <1>2, <1>3, <1>4, <1>5, <1>6, <1>7, <1>8, <1>9, <1>10, <1>11, <1>12, <1>13
  DEF Next, Cpu

(* GdbTypeOK holds for every program and any number of registers.          *)
THEOREM TypeCorrect == Spec => []GdbTypeOK
BY TypeInit, TypeNext, PTL DEF Spec

-----------------------------------------------------------------------------
(* A step that has begun and not ended: the state machine waits for the    *)
(* instruction, or it has seen it and raises the breakpoint at the next;   *)
(* and no interrupt is taken.                                              *)
StepInv ==
    stepping /\ Running => /\ dc_ss
                          /\ \/ state = "EXECUTE_ONE_INSN" /\ executed = 0
                             \/ state = "RAISE_BREAKPOINT" /\ executed \in 0..1

(* No command goes on with the program but the last three.                 *)
LEMMA StillStopped ==
    ASSUME Status \/ SetPc \/ Memory \/ Break \/ Watch
    PROVE  pc = Stub /\ pc' = Stub /\ stepping' = stepping
BY DEF Status, SetPc, Memory, Break, Watch, Attached, Command, Stopped

(* Every step keeps StepInv.                                               *)
LEMMA StepNext == StepInv /\ [Next]_vars => StepInv'
<1> SUFFICES ASSUME StepInv, [Next]_vars PROVE StepInv'
  OBVIOUS
<1>1. CASE DebugException \/ ExternalBreak \/ NestedException
  BY <1>1 DEF DebugException, ExternalBreak, NestedException, EnterStub, StepInv, Running
<1>2. CASE Execute
  <2>1. Running /\ stepping' = stepping /\ state # "RAISE_BREAKPOINT"
    BY <1>2 DEF Execute, bp_match
  <2>2. CASE stepping
    <3>1. dc_ss /\ state = "EXECUTE_ONE_INSN" /\ executed = 0
      BY <2>1, <2>2 DEF StepInv
    <3>2. dc_ss'
      BY <1>2, <3>1, Zenon DEF Execute, Qualified
    <3>3. state' = "RAISE_BREAKPOINT" /\ executed' = 1
      BY <1>2, <3>1 DEF Execute, Qualified
    <3> QED
      BY <3>2, <3>3 DEF StepInv
  <2>3. CASE ~stepping
    BY <2>1, <2>3 DEF StepInv
  <2> QED BY <2>2, <2>3
<1>3. CASE Interrupt
  BY <1>3 DEF Interrupt, InterruptEnabled, StepInv
<1>4. CASE Reset
  BY <1>4 DEF Reset, StepInv
<1>5. CASE Status \/ SetPc \/ Memory \/ Break \/ Watch
  BY <1>5, StillStopped DEF StepInv, Running
<1>6. CASE Continue \/ Detach
  BY <1>6 DEF Continue, Detach, Return, StepInv
<1>7. CASE SingleStep
  BY <1>7 DEF SingleStep, Return, AfterBret, StepInv
<1>8. CASE UNCHANGED vars
  BY <1>8 DEF vars, unitVars, cpuVars, histVars, StepInv, Running
<1> QED
  BY <1>1, <1>2, <1>3, <1>4, <1>5, <1>6, <1>7, <1>8 DEF Next, Cpu

(* With "s" the CPU executes one instruction of the program and no         *)
(* interrupt before it is back in the stub: the debug unit's state machine *)
(* (lm32_debug.v) and cmd_continuestep together.                           *)
THEOREM StepsOneInstruction == Spec => []StepsOne
<1>1. Init => StepInv
  BY DEF Init, StepInv
<1>2. StepInv => StepsOne
  BY DEF StepInv, StepsOne
<1> QED
  BY <1>1, <1>2, StepNext, PTL DEF Spec

-----------------------------------------------------------------------------
(* Nothing has happened that loses the program's own counter.              *)
Clean == {"watched", "step_stopped", "coincided"} \cap faults = {}

(* Where the program is and where it goes on: neither place is the stub or *)
(* the endless loop, and inside the stub no breakpoint of a step is left.  *)
ToldInv ==
    /\ ea \in MainPcs
    /\ Clean => /\ pc # Crash /\ told \in Pcs \ {Crash}
                /\ pc = Stub => registers \in Pcs \ {Crash} /\ state # "RAISE_BREAKPOINT"

(* Every step keeps ToldInv.                                               *)
LEMMA ToldNext == GdbTypeOK /\ ToldInv /\ [Next]_vars => ToldInv'
<1> SUFFICES ASSUME GdbTypeOK, ToldInv, [Next]_vars PROVE ToldInv'
  OBVIOUS
<1>a. Stub \notin Pcs /\ Isr \in Pcs /\ Crash \in Pcs /\ Isr # Crash
  BY GdbAssumption
<1>1. CASE DebugException \/ ExternalBreak \/ NestedException
  <2>1. EnterStub /\ (Running \/ Pending)
    BY <1>1 DEF DebugException, ExternalBreak, NestedException
  <2>2. SUFFICES ASSUME Clean' PROVE told' \in Pcs \ {Crash} /\ registers' \in Pcs \ {Crash}
                                    /\ state' # "RAISE_BREAKPOINT"
    BY <1>a, <2>1 DEF EnterStub, ToldInv
  <2>3. Clean /\ ~(Running /\ state = "EXECUTE_ONE_INSN")
    BY <2>1, <2>2 DEF EnterStub, Clean
  <2>4. Running /\ pc \in Pcs \ {Crash}
    BY <2>1, <2>3 DEF Pending, ToldInv, Running, GdbTypeOK, Places
  <2>5. state' # "RAISE_BREAKPOINT"
    BY <2>1, <2>3, <2>4 DEF EnterStub, Qualified
  <2> QED
    BY <2>1, <2>3, <2>4, <2>5 DEF EnterStub, ToldInv
<1>2. CASE Execute
  <2>1. pc \in Pcs /\ pc' = Following(pc) /\ ea' = ea /\ told' = told /\ faults' = faults
    BY <1>2 DEF Execute, Running, GdbTypeOK, Places, gdbVars
  <2>2. ASSUME pc # Crash PROVE Following(pc) \in MainPcs
    <3>1. CASE pc = Isr
      BY <1>a, <3>1 DEF Following, ToldInv
    <3>2. CASE pc # Isr
      BY <2>1, <2>2, <3>2, Addresses DEF Following, MainPcs
    <3> QED BY <3>1, <3>2
  <2> QED
    BY <1>a, <2>1, <2>2 DEF ToldInv, Clean, MainPcs
<1>3. CASE Interrupt
  <2>1. pc \in MainPcs /\ ea' = pc /\ told' = told
    BY <1>3 DEF Interrupt, InterruptEnabled, Running, GdbTypeOK, Places, MainPcs, gdbVars
  <2>2. \/ pc' = Crash /\ faults' = faults \cup {"coincided"}
        \/ pc' = Isr /\ faults' = faults
    BY <1>3 DEF Interrupt
  <2> QED
    BY <1>a, <2>1, <2>2 DEF ToldInv, Clean
<1>4. CASE Reset
  <2>1. 0 \in Pcs \ {Crash}
    BY Addresses DEF MainPcs
  <2> QED
    BY <1>a, <1>4, <2>1 DEF Reset, ToldInv
<1>5. CASE Status
  BY <1>5 DEF Status, Attached, Command, Stopped, unitVars, ToldInv, Clean
<1>6. CASE SetPc
  BY <1>6, <1>a DEF SetPc, Attached, Command, Pending, unitVars, MainPcs, ToldInv, Clean
<1>7. CASE Memory
  BY <1>7 DEF Memory, Attached, ToldInv, Clean
<1>8. CASE Break
  BY <1>8 DEF Break, Attached, Stopped, ToldInv, Clean
<1>9. CASE Watch
  <2>1. PICK w \in WatchFor :
          /\ Attached /\ Stopped /\ told' = told
          /\ IF w \in watches
             THEN disable_hw_watchpoint(w) /\ faults' = faults
             ELSE set_hw_watchpoint(w)
    BY <1>9 DEF Watch
  <2>2. state' \in {state, "IDLE"}
    BY <2>1 DEF disable_hw_watchpoint, set_hw_watchpoint, WriteDC
  <2>3. faults \subseteq faults'
    BY <2>1 DEF set_hw_watchpoint
  <2> QED
    BY <2>1, <2>2, <2>3 DEF Attached, Stopped, ToldInv, Clean
<1>10. CASE Continue \/ SingleStep \/ Detach
  <2>1. /\ pc = Stub /\ pc' = registers /\ registers # Stub
        /\ ea' = ea /\ told' = told /\ faults \subseteq faults'
    BY <1>10 DEF Continue, SingleStep, Detach, Attached, Command, Return
  <2> QED
    BY <2>1 DEF ToldInv, Clean
<1>11. CASE UNCHANGED vars
  BY <1>11 DEF vars, unitVars, cpuVars, stubVars, gdbVars, histVars, ToldInv, Clean
<1> QED
  BY <1>1, <1>2, <1>3, <1>4, <1>5, <1>6, <1>7, <1>8, <1>9, <1>10, <1>11 DEF Next, Cpu

(* What gdb is told is a place of the program, except after the three      *)
(* faults: handle_exception, cmd_continuestep, the debug unit and the      *)
(* CPU's exceptions together, for every program.                           *)
THEOREM ToldCorrect == Spec => []ToldTheProgram
<1>1. Init => ToldInv
  BY GdbAssumption DEF Init, UnitReset, ToldInv, MainPcs
<1>2. ToldInv => ToldTheProgram
  BY DEF ToldInv, ToldTheProgram, Clean
<1> QED
  BY <1>1, <1>2, ToldNext, TypeCorrect, PTL DEF Spec

-----------------------------------------------------------------------------
(* Before the stub has been entered gdb is not attached, and without gdb   *)
(* nothing is armed.                                                       *)
SessionInv ==
    /\ ~scratchpad => pc # Stub /\ ~session
    /\ ~session => /\ \A i \in Bps : ~bp[i].e
                   /\ wpc = NoModes /\ breaks = {} /\ watches = {}

(* The table of the stub, the breakpoint registers and what gdb has        *)
(* inserted: what is armed is in the table and what gdb wants is armed;    *)
(* until a detach leaves the table behind, what is in the table is armed,  *)
(* once, and wanted.                                                       *)
BreakInv ==
    /\ \A i \in Bps : bp[i].e => <<"bp", i>> \in bpwp_enabled /\ bp[i].a = bp_address[i]
    /\ \A a \in breaks : \E i \in Bps : bp[i].e /\ bp[i].a = a
    /\ scratchpad /\ "stale" \notin faults =>
         \A i \in Bps : /\ <<"bp", i>> \in bpwp_enabled => bp[i].e
                        /\ bp[i].e => bp[i].a \in breaks
                        /\ \A j \in Bps : bp[i].e /\ bp[j].e /\ bp[i].a = bp[j].a => i = j

(* The same of the watchpoints, of which at most the first is used until   *)
(* gdb inserts a second.                                                   *)
WatchInv ==
    scratchpad /\ {"stale", "second"} \cap faults = {} =>
        /\ wpc = dc /\ Watching = watches
        /\ \A i \in Wps : /\ <<"wp", i>> \in bpwp_enabled <=> dc[i] # {}
                          /\ dc[i] # {} => i = 0 /\ wp[i] = wp_address[i]

ArmedInv == SessionInv /\ BreakInv /\ WatchInv

(* Entering the stub keeps the registers; it clears the table only when    *)
(* nothing is armed.                                                       *)
LEMMA EnterStubArmed ==
    ASSUME GdbTypeOK, ArmedInv, EnterStub PROVE ArmedInv'
<1>1. /\ bp' = bp /\ wp' = wp /\ wpc' = wpc /\ session' = session
      /\ breaks' = breaks /\ watches' = watches
      /\ faults \subseteq faults' /\ faults' \subseteq faults \cup {"step_stopped"}
      /\ scratchpad' = TRUE
  BY DEF EnterStub
<1>2. CASE scratchpad
  <2>1. bpwp_enabled' = bpwp_enabled /\ bp_address' = bp_address /\ wp_address' = wp_address
        /\ dc' = dc
    BY <1>2 DEF EnterStub, tableVars
  <2> QED
    BY <1>1, <1>2, <2>1 DEF ArmedInv, SessionInv, BreakInv, WatchInv, Watching
<1>3. CASE ~scratchpad
  <2>1. bpwp_enabled' = {} /\ dc' = NoModes
    BY <1>3 DEF EnterStub, ClearBss
  <2>2. ~session
    BY <1>3 DEF ArmedInv, SessionInv
  <2>3. /\ \A i \in Bps : ~bp[i].e
        /\ wpc = NoModes /\ breaks = {} /\ watches = {}
    BY <2>2 DEF ArmedInv, SessionInv
  <2>4. SessionInv' /\ BreakInv'
    BY <1>1, <2>1, <2>3 DEF SessionInv, BreakInv
  <2>5. WatchInv'
    <3>1. Watching' = {}
      BY <1>1, <2>3 DEF Watching, NoModes
    <3> QED
      BY <1>1, <2>1, <2>3, <3>1 DEF WatchInv, NoModes
  <2> QED
    BY <2>4, <2>5 DEF ArmedInv
<1> QED BY <1>2, <1>3

(* 'Z1' and 'z1'.                                                          *)
LEMMA BreakArmed ==
    ASSUME GdbTypeOK, ArmedInv, Break PROVE ArmedInv'
<1>1. PICK a \in BreakAt :
        /\ Attached /\ session
        /\ IF a \in breaks THEN disable_hw_breakpoint(a) ELSE set_hw_breakpoint(a)
        /\ Stopped /\ UNCHANGED <<wp, wpc, state, dc_ss, wp_address, dc, watches, told, faults>>
  BY DEF Break
<1>2. scratchpad /\ scratchpad' /\ session'
  BY <1>1 DEF Attached, ArmedInv, SessionInv
<1>3. SessionInv'
  BY <1>2 DEF SessionInv
<1>4. bp \in [Bps -> [a : Pcs, e : BOOLEAN]] /\ bp_address \in [Bps -> Pcs]
  BY DEF GdbTypeOK, UnitTypeOK
<1>5. CASE UNCHANGED <<bp, bpwp_enabled, bp_address, breaks>>
  BY <1>1, <1>2, <1>3, <1>5 DEF ArmedInv, BreakInv, WatchInv, Watching
<1>6. ASSUME a \notin breaks,
             NEW i \in Bps, <<"bp", i>> \notin bpwp_enabled,
             bp' = [bp EXCEPT ![i] = [a |-> a, e |-> TRUE]],
             bpwp_enabled' = bpwp_enabled \cup {<<"bp", i>>},
             bp_address' = [bp_address EXCEPT ![i] = a], breaks' = breaks \cup {a}
      PROVE  ArmedInv'
  <2>1. /\ bp'[i].a = a /\ bp'[i].e /\ bp_address'[i] = a
        /\ \A j \in Bps \ {i} : bp'[j] = bp[j] /\ bp_address'[j] = bp_address[j]
    BY <1>4, <1>6
  <2>2. ~bp[i].e
    BY <1>6 DEF ArmedInv, BreakInv
  <2>3. \A j \in Bps : <<"bp", j>> \in bpwp_enabled' <=> j = i \/ <<"bp", j>> \in bpwp_enabled
    BY <1>6
  <2>4. \A j \in Wps : <<"wp", j>> \in bpwp_enabled' <=> <<"wp", j>> \in bpwp_enabled
    BY <1>6
  <2>5. \A j \in Bps : bp'[j].e => <<"bp", j>> \in bpwp_enabled' /\ bp'[j].a = bp_address'[j]
    BY <2>1, <2>3 DEF ArmedInv, BreakInv
  <2>6. \A b \in breaks' : \E j \in Bps : bp'[j].e /\ bp'[j].a = b
    BY <1>6, <2>1, <2>2 DEF ArmedInv, BreakInv
  <2>7. ASSUME "stale" \notin faults
        PROVE  \A j \in Bps :
                 /\ <<"bp", j>> \in bpwp_enabled' => bp'[j].e
                 /\ bp'[j].e => bp'[j].a \in breaks'
                 /\ \A k \in Bps : bp'[j].e /\ bp'[k].e /\ bp'[j].a = bp'[k].a => j = k
    <3>1. \A j \in Bps : <<"bp", j>> \in bpwp_enabled => bp[j].e
      BY <1>2, <2>7 DEF ArmedInv, BreakInv
    <3>2. \A j \in Bps : bp[j].e => bp[j].a \in breaks
      BY <1>2, <2>7 DEF ArmedInv, BreakInv
    <3>3. \A j, k \in Bps : bp[j].e /\ bp[k].e /\ bp[j].a = bp[k].a => j = k
      BY <1>2, <2>7 DEF ArmedInv, BreakInv
    <3>4. \A j \in Bps : <<"bp", j>> \in bpwp_enabled' => bp'[j].e
      BY <2>1, <2>3, <3>1
    <3>5. \A j \in Bps : bp'[j].e => bp'[j].a \in breaks'
      BY <1>6, <2>1, <3>2
    <3>6. \A j \in Bps \ {i} : bp'[j].e => bp'[j].a # a
      BY <1>6, <2>1, <3>2
    <3>7. \A j, k \in Bps : bp'[j].e /\ bp'[k].e /\ bp'[j].a = bp'[k].a => j = k
      BY <2>1, <3>3, <3>6
    <3> QED
      BY <3>4, <3>5, <3>7
  <2>8. BreakInv'
    BY <1>1, <2>5, <2>6, <2>7 DEF BreakInv
  <2>9. WatchInv'
    BY <1>1, <1>2, <2>4 DEF ArmedInv, WatchInv, Watching
  <2> QED
    BY <1>3, <2>8, <2>9 DEF ArmedInv
<1>7. ASSUME NEW i \in Bps, <<"bp", i>> \in bpwp_enabled, bp_address[i] = a,
             bp' = [bp EXCEPT ![i] = [a |-> 0, e |-> FALSE]],
             bpwp_enabled' = bpwp_enabled \ {<<"bp", i>>},
             bp_address' = bp_address, breaks' = breaks \ {a}
      PROVE  ArmedInv'
  <2>1. ~bp'[i].e /\ \A j \in Bps \ {i} : bp'[j] = bp[j]
    BY <1>4, <1>7
  <2>2. bp[i].e => bp[i].a = a
    BY <1>7 DEF ArmedInv, BreakInv
  <2>3. \A j \in Bps : <<"bp", j>> \in bpwp_enabled' <=> j # i /\ <<"bp", j>> \in bpwp_enabled
    BY <1>7
  <2>4. \A j \in Wps : <<"wp", j>> \in bpwp_enabled' <=> <<"wp", j>> \in bpwp_enabled
    BY <1>7
  <2>5. \A j \in Bps : bp'[j].e => <<"bp", j>> \in bpwp_enabled' /\ bp'[j].a = bp_address'[j]
    BY <1>7, <2>1, <2>3 DEF ArmedInv, BreakInv
  <2>6. \A b \in breaks' : \E j \in Bps : bp'[j].e /\ bp'[j].a = b
    BY <1>7, <2>1, <2>2 DEF ArmedInv, BreakInv
  <2>7. ASSUME "stale" \notin faults
        PROVE  \A j \in Bps :
                 /\ <<"bp", j>> \in bpwp_enabled' => bp'[j].e
                 /\ bp'[j].e => bp'[j].a \in breaks'
                 /\ \A k \in Bps : bp'[j].e /\ bp'[k].e /\ bp'[j].a = bp'[k].a => j = k
    <3>1. \A j \in Bps : <<"bp", j>> \in bpwp_enabled => bp[j].e
      BY <1>2, <2>7 DEF ArmedInv, BreakInv
    <3>2. \A j \in Bps : bp[j].e => bp[j].a \in breaks
      BY <1>2, <2>7 DEF ArmedInv, BreakInv
    <3>3. \A j, k \in Bps : bp[j].e /\ bp[k].e /\ bp[j].a = bp[k].a => j = k
      BY <1>2, <2>7 DEF ArmedInv, BreakInv
    <3>4. \A j \in Bps : <<"bp", j>> \in bpwp_enabled' => bp'[j].e
      BY <2>1, <2>3, <3>1
    <3>5. bp[i].e /\ bp[i].a = a
      BY <1>7, <2>2, <3>1
    <3>6. \A j \in Bps : bp'[j].e => j # i /\ bp[j].e /\ bp'[j].a = bp[j].a
      BY <2>1
    <3>7. \A j \in Bps : bp'[j].e => bp'[j].a \in breaks'
      BY <1>7, <3>2, <3>3, <3>5, <3>6
    <3>8. \A j, k \in Bps : bp'[j].e /\ bp'[k].e /\ bp'[j].a = bp'[k].a => j = k
      BY <3>3, <3>6
    <3> QED
      BY <3>4, <3>7, <3>8
  <2>8. BreakInv'
    BY <1>1, <2>5, <2>6, <2>7 DEF BreakInv
  <2>9. WatchInv'
    BY <1>1, <1>2, <2>4 DEF ArmedInv, WatchInv, Watching
  <2> QED
    BY <1>3, <2>8, <2>9 DEF ArmedInv
<1> QED
  BY <1>1, <1>5, <1>6, <1>7, SetBreakStep, ClearBreakStep

(* 'Z2' to 'Z4' and 'z2' to 'z4'.                                          *)
LEMMA WatchArmed ==
    ASSUME GdbTypeOK, ArmedInv, Watch PROVE ArmedInv'
<1>1. PICK w \in WatchFor :
        /\ Attached /\ session
        /\ IF w \in watches
           THEN disable_hw_watchpoint(w) /\ UNCHANGED <<wp, wp_address, faults>>
           ELSE set_hw_watchpoint(w)
        /\ Stopped /\ UNCHANGED <<bp, bp_address, breaks, told>>
  BY DEF Watch
<1>2. scratchpad /\ scratchpad' /\ session'
  BY <1>1 DEF Attached, ArmedInv, SessionInv
<1>3. SessionInv'
  BY <1>2 DEF SessionInv
<1>4. /\ w \in [at : Data, mode : Modes \ {{}}] /\ wp \in [Wps -> Data]
      /\ wp_address \in [Wps -> Data] /\ wpc \in [Wps -> Modes] /\ dc \in [Wps -> Modes]
  BY GdbAssumption DEF GdbTypeOK, UnitTypeOK
<1>5. ASSUME faults' = faults \/ faults' = faults \cup {"second"},
             \A j \in Bps : <<"bp", j>> \in bpwp_enabled' <=> <<"bp", j>> \in bpwp_enabled
      PROVE  BreakInv'
  <2>1. "stale" \in faults' <=> "stale" \in faults
    BY <1>5
  <2>2. bp' = bp /\ bp_address' = bp_address /\ breaks' = breaks
    BY <1>1
  <2> QED
    BY <1>2, <1>5, <2>1, <2>2 DEF ArmedInv, BreakInv
<1>6. CASE UNCHANGED <<wp, wpc, bpwp_enabled, wp_address, dc, watches, faults>>
  <2>1. WatchInv'
    BY <1>2, <1>6 DEF ArmedInv, WatchInv, Watching
  <2> QED
    BY <1>3, <1>5, <1>6, <2>1 DEF ArmedInv
<1>7. ASSUME NEW i \in Wps, <<"wp", i>> \notin bpwp_enabled,
             \A j \in Wps : <<"wp", j>> \notin bpwp_enabled => i <= j,
             bpwp_enabled' = bpwp_enabled \cup {<<"wp", i>>},
             wp_address' = [wp_address EXCEPT ![i] = w.at], dc' = [dc EXCEPT ![i] = w.mode],
             wp' = [wp EXCEPT ![0] = w.at], WriteDC(dc', FALSE), watches' = watches \cup {w},
             faults' = faults \cup (IF i = 0 THEN {} ELSE {"second"})
      PROVE  ArmedInv'
  <2>1. \A j \in Bps : <<"bp", j>> \in bpwp_enabled' <=> <<"bp", j>> \in bpwp_enabled
    BY <1>7
  <2>2. BreakInv'
    BY <1>5, <1>7, <2>1
  <2>3. ASSUME {"stale", "second"} \cap faults' = {}
        PROVE  /\ wpc' = dc' /\ Watching' = watches'
               /\ \A j \in Wps : /\ <<"wp", j>> \in bpwp_enabled' <=> dc'[j] # {}
                                 /\ dc'[j] # {} => j = 0 /\ wp'[j] = wp_address'[j]
    <3>1. i = 0 /\ {"stale", "second"} \cap faults = {}
      BY <1>7, <2>3
    <3>2. /\ wpc = dc /\ Watching = watches
          /\ \A j \in Wps : /\ <<"wp", j>> \in bpwp_enabled <=> dc[j] # {}
                            /\ dc[j] # {} => j = 0
      BY <1>2, <3>1 DEF ArmedInv, WatchInv
    <3>3. \A j \in Wps : dc[j] = {}
      BY <1>7, <3>1, <3>2
    <3>4. watches = {}
      BY <3>2, <3>3 DEF Watching
    <3>5. dc'[i] = w.mode /\ w.mode # {} /\ \A j \in Wps \ {i} : dc'[j] = {}
      BY <1>4, <1>7, <3>3
    <3>6. wpc' = dc'
      BY <1>4, <1>7 DEF WriteDC
    <3>7. wp'[i] = w.at /\ wp_address'[i] = w.at
      BY <1>4, <1>7, <3>1
    <3>8. w = [at |-> w.at, mode |-> w.mode]
      BY <1>4
    <3>9. {j \in Wps : wpc'[j] # {}} = {i}
      BY <3>5, <3>6
    <3>10. Watching' = {w}
      BY <3>5, <3>6, <3>7, <3>8, <3>9 DEF Watching
    <3>11. \A j \in Wps : <<"wp", j>> \in bpwp_enabled' <=> j = i
      BY <1>7, <3>2, <3>3
    <3> QED
      BY <1>7, <3>1, <3>4, <3>5, <3>6, <3>7, <3>10, <3>11
  <2>4. WatchInv'
    BY <2>3 DEF WatchInv
  <2> QED
    BY <1>3, <2>2, <2>4 DEF ArmedInv
<1>8. ASSUME UNCHANGED <<wp, wp_address, faults>>,
             NEW i \in Wps, <<"wp", i>> \in bpwp_enabled,
             wp_address[i] = w.at, dc[i] = w.mode,
             bpwp_enabled' = bpwp_enabled \ {<<"wp", i>>},
             dc' = [dc EXCEPT ![i] = {}], WriteDC(dc', FALSE), watches' = watches \ {w}
      PROVE  ArmedInv'
  <2>1. \A j \in Bps : <<"bp", j>> \in bpwp_enabled' <=> <<"bp", j>> \in bpwp_enabled
    BY <1>8
  <2>2. BreakInv'
    BY <1>5, <1>8, <2>1
  <2>3. ASSUME {"stale", "second"} \cap faults = {}
        PROVE  /\ wpc' = dc' /\ Watching' = watches'
               /\ \A j \in Wps : <<"wp", j>> \notin bpwp_enabled' /\ dc'[j] = {}
    <3>1. /\ wpc = dc /\ Watching = watches
          /\ \A j \in Wps : /\ <<"wp", j>> \in bpwp_enabled <=> dc[j] # {}
                            /\ dc[j] # {} => j = 0 /\ wp[j] = wp_address[j]
      BY <1>2, <2>3 DEF ArmedInv, WatchInv
    <3>2. i = 0 /\ \A j \in Wps : <<"wp", j>> \in bpwp_enabled => j = i
      BY <1>8, <3>1
    <3>3. {j \in Wps : wpc[j] # {}} = {i}
      BY <1>8, <3>1, <3>2
    <3>4. w = [at |-> wp[i], mode |-> wpc[i]]
      BY <1>4, <1>8, <3>1
    <3>5. Watching = {w}
      BY <3>3, <3>4 DEF Watching
    <3>6. \A j \in Wps : <<"wp", j>> \notin bpwp_enabled' /\ dc'[j] = {}
      BY <1>4, <1>8, <3>1, <3>2
    <3>7. wpc' = dc'
      BY <1>4, <1>8 DEF WriteDC
    <3>8. Watching' = {}
      BY <3>6, <3>7 DEF Watching
    <3> QED
      BY <1>8, <3>1, <3>5, <3>6, <3>7, <3>8
  <2>4. WatchInv'
    BY <1>8, <2>3 DEF WatchInv
  <2> QED
    BY <1>3, <2>2, <2>4 DEF ArmedInv
<1> QED
  BY <1>1, <1>6, <1>7, <1>8, SetWatchStep, ClearWatchStep

(* Every step keeps ArmedInv.                                              *)
LEMMA ArmedNext == GdbTypeOK /\ ArmedInv /\ [Next]_vars => ArmedInv'
<1> SUFFICES ASSUME GdbTypeOK, ArmedInv, [Next]_vars PROVE ArmedInv'
  OBVIOUS
<1>1. CASE DebugException \/ ExternalBreak \/ NestedException
  BY <1>1, EnterStubArmed DEF DebugException, ExternalBreak, NestedException
<1>2. CASE Execute \/ Interrupt
  <2>1. /\ UNCHANGED <<bp, wp, wpc, stubVars, gdbVars>> /\ Running
        /\ pc' \in Pcs
    BY <1>2, FollowingType, GdbAssumption
    DEF Execute, Interrupt, InterruptEnabled, Running, GdbTypeOK, Places
  <2>2. pc' # Stub
    BY <2>1, GdbAssumption
  <2>3. faults' = faults \/ faults' = faults \cup {"coincided"}
    BY <1>2 DEF Execute, Interrupt
  <2>4. /\ "stale" \in faults' <=> "stale" \in faults
        /\ {"stale", "second"} \cap faults' = {} <=> {"stale", "second"} \cap faults = {}
    BY <2>3
  <2> QED
    BY <2>1, <2>2, <2>4
    DEF ArmedInv, SessionInv, BreakInv, WatchInv, Watching, stubVars, tableVars, gdbVars
<1>3. CASE Reset
  <2>1. \A i \in Bps : bp'[i].e = FALSE
    BY <1>3 DEF Reset, GdbTypeOK, UnitTypeOK
  <2>2. pc' # Stub
    BY <1>3, Addresses, GdbAssumption DEF Reset
  <2> QED
    BY <1>3, <2>1, <2>2 DEF Reset, ArmedInv, SessionInv, BreakInv, WatchInv
<1>4. CASE Status \/ SetPc
  <2>1. /\ UNCHANGED <<unitVars, tableVars, breaks, watches, faults, scratchpad>>
        /\ pc = Stub /\ session'
    BY <1>4 DEF Status, SetPc, Attached, Command
  <2> QED
    BY <2>1 DEF ArmedInv, SessionInv, BreakInv, WatchInv, Watching, unitVars, tableVars
<1>5. CASE Memory
  <2>1. /\ UNCHANGED <<bp, wp, wpc, tableVars, breaks, watches, scratchpad>>
        /\ pc = Stub /\ session'
        /\ faults' = faults \/ faults' = faults \cup {"watched"}
    BY <1>5 DEF Memory, Attached, Command
  <2>2. /\ "stale" \in faults' <=> "stale" \in faults
        /\ {"stale", "second"} \cap faults' = {} <=> {"stale", "second"} \cap faults = {}
    BY <2>1
  <2> QED
    BY <2>1, <2>2 DEF ArmedInv, SessionInv, BreakInv, WatchInv, Watching, tableVars
<1>6. CASE Break
  BY <1>6, BreakArmed
<1>7. CASE Watch
  BY <1>7, WatchArmed
<1>8. CASE Continue
  <2>1. /\ UNCHANGED <<unitVars, tableVars, breaks, watches, faults, scratchpad>>
        /\ pc = Stub /\ session'
    BY <1>8 DEF Continue, Attached, Command
  <2> QED
    BY <2>1 DEF ArmedInv, SessionInv, BreakInv, WatchInv, Watching, unitVars, tableVars
<1>9. CASE SingleStep
  <2>1. /\ UNCHANGED <<bp, wp, tableVars, breaks, watches, faults, scratchpad>>
        /\ pc = Stub /\ session' /\ wpc' = dc
    BY <1>9 DEF SingleStep, Attached, Command, GdbTypeOK
  <2>2. scratchpad
    BY <2>1 DEF ArmedInv, SessionInv
  <2>3. SessionInv' /\ BreakInv'
    BY <2>1, <2>2 DEF ArmedInv, SessionInv, BreakInv, tableVars
  <2>4. WatchInv'
    BY <2>1, <2>2 DEF ArmedInv, WatchInv, Watching, tableVars
  <2> QED
    BY <2>3, <2>4 DEF ArmedInv
<1>10. CASE Detach
  <2>1. /\ wpc' = NoModes /\ \A i \in Bps : bp'[i].e = FALSE
        /\ breaks' = {} /\ watches' = {} /\ scratchpad' = scratchpad
        /\ UNCHANGED <<bpwp_enabled, dc>>
    BY <1>10 DEF Detach, remove_all_break, WriteDC, NoModes, tableVars
  <2>2. scratchpad
    BY <1>10 DEF Detach, Command, ArmedInv, SessionInv
  <2>3. SessionInv'
    BY <2>1, <2>2 DEF SessionInv
  <2>4. "stale" \notin faults' => bpwp_enabled = {} /\ "stale" \notin faults
    BY <1>10 DEF Detach
  <2>5. BreakInv'
    BY <2>1, <2>4 DEF BreakInv
  <2>6. WatchInv'
    <3>1. SUFFICES ASSUME {"stale", "second"} \cap faults' = {}
                   PROVE  wpc' = dc' /\ \A i \in Wps : dc'[i] = {} /\ <<"wp", i>> \notin bpwp_enabled'
      <4>1. Watching' = {}
        BY <2>1 DEF Watching, NoModes
      <4> QED
        BY <2>1, <4>1 DEF WatchInv
    <3>2. bpwp_enabled = {} /\ {"stale", "second"} \cap faults = {}
      BY <1>10, <3>1 DEF Detach
    <3>3. \A i \in Wps : dc[i] = {}
      BY <2>2, <3>2 DEF ArmedInv, WatchInv
    <3>4. dc = NoModes
      BY <3>3 DEF NoModes, GdbTypeOK
    <3> QED
      BY <2>1, <3>2, <3>3, <3>4
  <2> QED
    BY <2>3, <2>5, <2>6 DEF ArmedInv
<1>11. CASE UNCHANGED vars
  BY <1>11
  DEF vars, unitVars, cpuVars, stubVars, tableVars, gdbVars, histVars,
      ArmedInv, SessionInv, BreakInv, WatchInv, Watching
<1> QED
  BY <1>1, <1>2, <1>3, <1>4, <1>5, <1>6, <1>7, <1>8, <1>9, <1>10, <1>11 DEF Next, Cpu

(* The debug unit stops the program where gdb has asked for it, whatever   *)
(* was inserted and removed before; nowhere else until a detach has left   *)
(* its table behind; and at every watchpoint until there are two:          *)
(* cmd_break, cmd_detachkill and the registers of lm32_debug.v.            *)
THEOREM ArmedCorrect == Spec => []ArmedAsAsked
<1>1. Init => ArmedInv
  <2> SUFFICES ASSUME Init PROVE ArmedInv
    OBVIOUS
  <2>1. \A i \in Bps : bp[i].e = FALSE
    BY DEF Init, UnitReset
  <2>2. pc # Stub
    BY GdbAssumption DEF Init, MainPcs
  <2>3. ~scratchpad /\ ~session
    BY Zenon DEF Init
  <2>4. wpc = NoModes /\ breaks = {} /\ watches = {}
    BY DEF Init, UnitReset, NoModes
  <2> QED
    BY <2>1, <2>2, <2>3, <2>4 DEF ArmedInv, SessionInv, BreakInv, WatchInv
<1>2. GdbTypeOK /\ ArmedInv => ArmedAsAsked
  <2> SUFFICES ASSUME GdbTypeOK, ArmedInv PROVE ArmedAsAsked
    OBVIOUS
  <2>1. breaks \subseteq Armed
    BY DEF ArmedInv, BreakInv, Armed
  <2>2. ~scratchpad => Armed = {} /\ Watching = {} /\ watches = {}
    BY DEF ArmedInv, SessionInv, Armed, Watching, NoModes
  <2>3. ~session => Armed = {} /\ Watching = {}
    BY DEF ArmedInv, SessionInv, Armed, Watching, NoModes
  <2>4. ASSUME "stale" \notin faults PROVE Armed \subseteq breaks
    <3>1. CASE scratchpad
      <4>1. \A i \in Bps : bp[i].e => bp[i].a \in breaks
        BY <2>4, <3>1 DEF ArmedInv, BreakInv
      <4> QED
        BY <4>1 DEF Armed
    <3>2. CASE ~scratchpad
      BY <2>2, <3>2
    <3> QED BY <3>1, <3>2
  <2>5. {"stale", "second"} \cap faults = {} => Watching = watches
    BY <2>2 DEF ArmedInv, WatchInv
  <2> QED
    BY <2>1, <2>3, <2>4, <2>5 DEF ArmedAsAsked
<1> QED
  BY <1>1, <1>2, ArmedNext, TypeCorrect, PTL DEF Spec
=============================================================================
