--------------------------- MODULE UartStubProofs ---------------------------
(***************************************************************************)
(* A debug session over the UART of an interrupted program (UartStub),     *)
(* proved for every ring size, FIFO depth and number of characters: the    *)
(* interrupts are given back as they were found; a session that starts     *)
(* while no transmission is under way gives the permission to transmit     *)
(* back too, so that the program's stream of characters comes through it.  *)
(***************************************************************************)
EXTENDS UartStub, UartStreamProofs

ReadyPcs == {"stat", "loop", "get_clear", "get_read", "ack", "ret"}

(* The handler only runs where interrupts were on. *)
RestoreInv ==
    /\ InterruptsRestored
    /\ ipc # "none" => pc \notin {"init_ie", "rb_id", "rb_spin"}

(* The stub is past a poll of THRE, and has not written since. *)
ReadyInv == spc \in ReadyPcs => thre

(* Where the permission to transmit is during a session that disturbs no   *)
(* transmission: with tx_cts, while the event of the stub's own characters *)
(* is pending or already seen by the interrupt logic.                      *)
SessionInv ==
    /\ pc = "run" /\ ipc = "none" /\ tx_cts /\ tx_produce = tx_consume
    /\ im = {"UART"} /\ irq_en = {"TX_INT", "RX_INT"}
    /\ spc # "poll" => thre /\ (tx_event => "UART" \in ip)
    /\ spc = "poll" /\ thre => tx_event

StubToken == ~disturbed => IF spc = "none" THEN TokenInv ELSE SessionInv
-----------------------------------------------------------------------------
(* Every step of the stub is an edge of the core, and the program stands   *)
(* still.                                                                  *)
LEMMA StubStepShape ==
    ASSUME StubTypeOK, Break \/ Stub
    PROVE  /\ UNCHANGED <<ringVars, appVars, isrVars, histVars>>
           /\ \/ Clock(NoWrite) \/ Clock(WriteRXTX(0))
              \/ \E bits \in SUBSET {"RX_EVT", "TX_EVT"} : Clock(WriteSTAT(bits))
           /\ IrqIdle(Lines) \/ IrqDebugException(Lines) \/ IrqBret(Lines)
<1> USE DEF StubAt, Cpu, Bus
<1>1. CASE Break
  BY <1>1 DEF Break
<1>2. CASE StubWaitThre \/ StubSaveStat \/ StubPoll \/ StubGet \/ StubGetRead
  BY <1>2 DEF StubWaitThre, StubSaveStat, StubPoll, StubGet, StubGetRead
<1>3. CASE StubPut
  BY <1>3 DEF StubPut
<1>4. CASE StubGetClear
  BY <1>4 DEF StubGetClear
<1>5. CASE StubExit
  <2>1. sstat \cap {"TX_EVT"} \in SUBSET {"RX_EVT", "TX_EVT"}
    OBVIOUS
  <2> QED
    BY <1>5, <2>1 DEF StubExit
<1>6. CASE StubReturn
  BY <1>6 DEF StubReturn
<1> QED
  BY <1>1, <1>2, <1>3, <1>4, <1>5, <1>6 DEF Stub

(* The types of the system the stub has interrupted.                       *)
LEMMA StubKeepsDriverType ==
    ASSUME StubTypeOK, Break \/ Stub
    PROVE  DriverTypeOK'
<1>1. UartTypeOK /\ IrqTypeOK /\ DriverVarsOK
  BY DEF StubTypeOK, DriverTypeOK
<1>2. UartTypeOK'
  <2>1. CASE Clock(NoWrite)
    <3>1. NoWrite.char \in Char /\ NoWrite.reg # "CTRL"
      BY DEF NoWrite, Char
    <3> QED
      BY <1>1, <2>1, <3>1, ClockType
  <2>2. CASE Clock(WriteRXTX(0))
    <3>1. WriteRXTX(0).char \in Char /\ WriteRXTX(0).reg # "CTRL"
      BY DEF WriteRXTX, Char
    <3> QED
      BY <1>1, <2>2, <3>1, ClockType
  <2>3. ASSUME NEW bits, Clock(WriteSTAT(bits)) PROVE UartTypeOK'
    <3>1. WriteSTAT(bits).char \in Char /\ WriteSTAT(bits).reg # "CTRL"
      BY DEF WriteSTAT, Char
    <3> QED
      BY <1>1, <2>3, <3>1, ClockType
  <2> QED
    BY <2>1, <2>2, <2>3, StubStepShape
<1>3. IrqTypeOK'
  <2>1. Lines \in SUBSET Irqs
    BY IrqAssumption DEF Lines
  <2> QED
    BY <1>1, <2>1, StubStepShape DEF IrqTypeOK, IrqIdle, IrqDebugException, IrqBret, asserted
<1>4. DriverVarsOK'
  BY <1>1, StubStepShape DEF DriverVarsOK, ringVars, appVars, isrVars, histVars
<1> QED
  BY <1>2, <1>3, <1>4 DEF DriverTypeOK

(* Every step keeps the types, the stub's own and the program's.           *)
LEMMA StubTypeStep ==
    ASSUME StubTypeOK, [StubNext]_systemVars
    PROVE  StubTypeOK'
<1> USE DEF StubTypeOK
<1>1. CASE Program \/ Environment
  <2>1. Next /\ UNCHANGED stubVars
    BY <1>1 DEF Program, Environment, Next
  <2>2. DriverTypeOK'
    BY <2>1, StepTypesHw, StepTypesDriver DEF DriverTypeOK
  <2> QED
    BY <2>1, <2>2 DEF stubVars
<1>2. CASE Break \/ Stub
  <2>1. DriverTypeOK'
    BY <1>2, StubKeepsDriverType
  <2>2. spc' \in StubPc
    BY <1>2 DEF Break, Stub, StubAt, StubWaitThre, StubSaveStat, StubPut, StubPoll, StubGet,
                StubGetClear, StubGetRead, StubExit, StubReturn, StubPc
  <2>3. sstat' \in SUBSET StatBits
    BY <1>2 DEF Break, Stub, StubWaitThre, StubSaveStat, StubPut, StubPoll, StubGet,
                StubGetClear, StubGetRead, StubExit, StubReturn, STAT
  <2>4. answered' \in BOOLEAN /\ disturbed' \in BOOLEAN
    BY <1>2 DEF Break, Stub, StubWaitThre, StubSaveStat, StubPut, StubPoll, StubGet,
                StubGetClear, StubGetRead, StubExit, StubReturn
  <2>5. stubPut' \in 0..MaxStub
    BY <1>2, StubAssumption DEF Break, Stub, StubWaitThre, StubSaveStat, StubPut, StubPoll, StubGet,
                StubGetClear, StubGetRead, StubExit, StubReturn
  <2> QED
    BY <2>1, <2>2, <2>3, <2>4, <2>5
<1>3. CASE UNCHANGED systemVars
  <2>1. UNCHANGED vars /\ UNCHANGED stubVars
    BY <1>3 DEF systemVars
  <2>2. DriverTypeOK'
    BY <2>1 DEF vars, uartVars, uartRegs, irqVars, ringVars, appVars, isrVars, histVars,
                DriverTypeOK, DriverVarsOK, UartTypeOK, IrqTypeOK
  <2> QED
    BY <2>1, <2>2 DEF stubVars
<1> QED
  BY <1>1, <1>2, <1>3 DEF StubNext

(* Every variable of the driver and of the stub keeps its type, also when  *)
(* a debug session interrupts the program or its interrupt handler.        *)
THEOREM StubTypeCorrect == StubSpec => []StubTypeOK
<1>1. StubInit => StubTypeOK
  BY RingAssumption, StubAssumption
     DEF StubInit, StubTypeOK, StubPc, Init, DriverTypeOK, DriverVarsOK, UartInit, UartTypeOK, IrqInit,
         IrqTypeOK, Char, AppPc, IsrPc
<1>2. StubTypeOK /\ [StubNext]_systemVars => StubTypeOK'
  BY StubTypeStep
<1> QED
  BY <1>1, <1>2, PTL DEF StubSpec
-----------------------------------------------------------------------------
(* A step of the program, its handler or the environment keeps the         *)
(* interrupt enable where the program wants it.                            *)
LEMMA RestoreProgram ==
    ASSUME StubTypeOK, RestoreInv, Program
    PROVE  RestoreInv'
<1> USE DEF RestoreInv, InterruptsRestored, App, Goto, Cpu, Bus, IrqIdle, isrVars, appVars,
            interrupt_exception
<1>1. spc = "none" /\ spc' = "none" /\ ie \in BOOLEAN /\ eie \in BOOLEAN
  BY DEF Program, stubVars, StubTypeOK, DriverTypeOK, IrqTypeOK
<1>2. CASE InitStep
  BY <1>1, <1>2 DEF InitStep, InitIE, InitVars, InitAck, InitStatRead, InitStatWrite, InitCtrl, InitMask,
                    WcsrIE, WcsrIP, WcsrIM
<1>3. CASE WriteStep
  BY <1>1, <1>3 DEF WriteStep, WriteSync, WriteDirect, WriteTest, WriteRing, WriteRegister, WritePoll,
                    WriteRestore, WcsrIM
<1>4. CASE ReadStep \/ SyncStep
  BY <1>1, <1>4 DEF ReadStep, ReadChar, ReadAdvance, SyncStep, ForceSyncSet, RebootMask, RebootIE,
                    RebootWriteId, WcsrIM, WcsrIE
<1>5. CASE AppCall
  BY <1>1, <1>5 DEF AppCall, WriteCall, ReadCall, ForceSyncOn, ForceSyncOff, RebootCall, WcsrIM
<1>6. CASE Isr
  BY <1>1, <1>6 DEF Isr, IsrEnter, IsrReadStat, IsrClear, IsrRx, IsrTxIdle, IsrTxNext, IsrAck, IsrEret,
                    IsrAt, IrqException, IrqEret, WcsrIP
<1> QED
  BY <1>2, <1>3, <1>4, <1>5, <1>6 DEF Program, AppStep

(* And so does every step of the system.                                   *)
LEMMA RestoreStep ==
    ASSUME StubTypeOK, RestoreInv, [StubNext]_systemVars
    PROVE  RestoreInv'
<1> USE DEF RestoreInv, InterruptsRestored
<1>1. spc \in StubPc /\ ie \in BOOLEAN /\ bie \in BOOLEAN
  BY DEF StubTypeOK, DriverTypeOK, IrqTypeOK
<1>2. CASE Environment
  BY <1>1, <1>2 DEF Environment, Stall, Cpu, Bus, IrqIdle, DriverHostReceive, DriverHostSend,
                    DriverUnchanged, irqVars, isrVars, appVars, stubVars
<1>3. CASE Break
  BY <1>1, <1>3 DEF Break, StubAt, IrqDebugException, isrVars, appVars
<1>4. CASE StubReturn
  BY <1>1, <1>4 DEF StubReturn, StubAt, IrqBret, isrVars, appVars
<1>5. CASE Stub /\ ~StubReturn
  BY <1>1, <1>5 DEF Stub, StubAt, StubWaitThre, StubSaveStat, StubPut, StubPoll, StubGet, StubGetClear,
                    StubGetRead, StubExit, Cpu, Bus, IrqIdle, isrVars, appVars
<1>6. CASE UNCHANGED systemVars
  BY <1>1, <1>6 DEF systemVars, vars, irqVars, isrVars, appVars, stubVars
<1> QED
  BY <1>2, <1>3, <1>4, <1>5, <1>6, RestoreProgram DEF StubNext

(* The stub runs with interrupts off and gives them back as it found them, *)
(* also when it has interrupted the interrupt handler.                     *)
THEOREM RestoreCorrect == StubSpec => []InterruptsRestored
<1>1. StubInit => RestoreInv
  BY DEF StubInit, Init, IrqInit, RestoreInv, InterruptsRestored
<1>2. StubTypeOK /\ RestoreInv /\ [StubNext]_systemVars => RestoreInv'
  BY RestoreStep
<1>3. RestoreInv => InterruptsRestored
  BY DEF RestoreInv
<1> QED
  BY <1>1, <1>2, <1>3, StubTypeCorrect, PTL DEF StubSpec
-----------------------------------------------------------------------------
(* Past a poll of THRE nobody but the stub itself writes RXTX.             *)
LEMMA ReadyStep ==
    ASSUME StubTypeOK, ReadyInv, [StubNext]_systemVars
    PROVE  ReadyInv'
<1> USE DEF ReadyInv, ReadyPcs, StubAt, Cpu, Bus, Clock, ClockTx, jtag_we, NoWrite, WriteSTAT, STAT
<1>1. thre \in BOOLEAN /\ spc \in StubPc
  BY DEF StubTypeOK, DriverTypeOK, UartTypeOK
<1>2. CASE Program
  BY <1>2 DEF Program, stubVars
<1>3. CASE Environment
  BY <1>1, <1>3 DEF Environment, Stall, DriverHostReceive, DriverHostSend, HostReceive, HostSend,
                    uartRegs, stubVars
<1>4. CASE Break \/ StubPut \/ StubReturn
  BY <1>4 DEF Break, StubPut, StubReturn
<1>5. CASE StubWaitThre \/ StubPoll
  BY <1>1, <1>5 DEF StubWaitThre, StubPoll
<1>6. CASE StubSaveStat \/ StubGet \/ StubGetClear \/ StubGetRead \/ StubExit
  BY <1>1, <1>6 DEF StubSaveStat, StubGet, StubGetClear, StubGetRead, StubExit
<1>7. CASE UNCHANGED systemVars
  BY <1>7 DEF systemVars, vars, uartVars, uartRegs, stubVars
<1> QED
  BY <1>2, <1>3, <1>4, <1>5, <1>6, <1>7 DEF StubNext, Stub

(* A session that finds the transmitter's permission with tx_cts leaves it *)
(* there, and leaves no event behind that the interrupt logic has not      *)
(* seen.                                                                   *)
LEMMA SessionStep ==
    ASSUME StubTypeOK, ReadyInv, SessionInv, spc # "none", Environment \/ Stub \/ UNCHANGED systemVars
    PROVE  SessionInv'
<1> USE DEF SessionInv, StubAt, Cpu, Bus, Clock, ClockTx, jtag_we, NoWrite, WriteSTAT, WriteRXTX,
            IrqIdle, asserted, Lines, tx_irq, ringVars, appVars, isrVars
<1>1. thre \in BOOLEAN /\ tx_event \in BOOLEAN /\ spc \in StubPc
  BY DEF StubTypeOK, DriverTypeOK, UartTypeOK
<1>2. CASE Environment
  <2>1. spc' = spc
    BY <1>2 DEF Environment, stubVars
  <2>2. CASE Stall
    <3>1. UNCHANGED <<pc, ipc, tx_cts, tx_produce, tx_consume, im>> /\ ip' = ip \cup Lines
      BY <2>2 DEF Stall
    <3>2. Clock(NoWrite)
      BY <2>2 DEF Stall
    <3>3. irq_en' = irq_en /\ thre' = (jtag_we \/ thre) /\ tx_event' = (tx_event \/ jtag_we)
      BY <1>1, <3>2
    <3>4. spc # "poll" => thre' /\ (tx_event' => "UART" \in ip')
      BY <1>1, <3>1, <3>3
    <3>5. spc = "poll" /\ thre' => tx_event'
      BY <1>1, <3>3
    <3> QED
      BY <2>1, <3>1, <3>3, <3>4, <3>5
  <2>3. CASE DriverHostReceive \/ DriverHostSend
    <3>1. UNCHANGED <<pc, ipc, tx_cts, tx_produce, tx_consume, im, ip, irq_en, thre, tx_event>>
      BY <2>3 DEF DriverHostReceive, DriverHostSend, DriverUnchanged, HostReceive, HostSend,
                  uartRegs, irqVars
    <3> QED
      BY <2>1, <3>1
  <2> QED
    BY <1>2, <2>2, <2>3 DEF Environment
<1>3. CASE StubWaitThre \/ StubSaveStat \/ StubGet \/ StubGetRead
  BY <1>1, <1>3 DEF StubWaitThre, StubSaveStat, StubGet, StubGetRead
<1>4. CASE StubPut
  <2>1. thre
    BY <1>4 DEF StubPut, ReadyInv, ReadyPcs
  <2> QED
    BY <1>1, <1>4, <2>1 DEF StubPut
<1>5. CASE StubPoll
  BY <1>1, <1>5 DEF StubPoll, STAT
<1>6. CASE StubGetClear \/ StubExit
  BY <1>1, <1>6 DEF StubGetClear, StubExit
<1>7. CASE StubReturn
  BY <1>1, <1>7 DEF StubReturn, IrqBret
<1>8. CASE UNCHANGED systemVars
  BY <1>8 DEF systemVars, vars, uartVars, uartRegs, irqVars, stubVars
<1> QED
  BY <1>2, <1>3, <1>4, <1>5, <1>6, <1>7, <1>8 DEF Stub

(* Back in the program, with the interrupts as they were, it is the        *)
(* driver's own invariant again.                                           *)
LEMMA ReturnToken ==
    ASSUME StubTypeOK, RestoreInv, SessionInv, SessionInv', StubReturn
    PROVE  TokenInv'
<1>1. ie'
  BY DEF StubReturn, StubAt, IrqBret, RestoreInv, InterruptsRestored, SessionInv
<1>2. spc' = "none" /\ force_sync' = force_sync
  BY DEF StubReturn, StubAt, appVars
<1> QED
  BY <1>1, <1>2 DEF SessionInv, TokenInv, MaskInv, StartInv, ClearToSendInv, EventInv, StaleInv,
                    NoStall, InitPcs, WritePcs, OffPcs

(* A session starts from the driver's invariant.                           *)
LEMMA BreakToken ==
    ASSUME StubTypeOK, TokenInv, Break, ~disturbed'
    PROVE  SessionInv'
<1>1. /\ pc = "run" /\ ipc = "none" /\ tx_cts /\ spc' = "thre"
      /\ UNCHANGED <<pc, ipc, tx_cts, tx_produce, tx_consume, im>>
      /\ Clock(NoWrite) /\ ip' = ip \cup Lines
  BY DEF Break, StubAt, IrqDebugException, asserted, ringVars, appVars, isrVars
<1>2. /\ thre /\ tx_produce = tx_consume /\ im = {"UART"} /\ irq_en = {"TX_INT", "RX_INT"}
      /\ tx_event => "UART" \in ip
  BY <1>1 DEF TokenInv, MaskInv, ClearToSendInv, StaleInv, InitPcs, WritePcs, OffPcs
<1>3. thre' /\ tx_event' = tx_event /\ irq_en' = irq_en
  <2>1. tx_event \in BOOLEAN
    BY DEF StubTypeOK, DriverTypeOK, UartTypeOK
  <2> QED
    BY <1>1, <1>2, <2>1 DEF Clock, ClockTx, jtag_we, NoWrite
<1> QED
  BY <1>1, <1>2, <1>3 DEF SessionInv

(* The token survives a session that starts while tx_cts holds it.         *)
LEMMA StubTokenStep ==
    ASSUME StubTypeOK, RestoreInv, ReadyInv, StubToken, [StubNext]_systemVars
    PROVE  StubToken'
<1> SUFFICES ASSUME ~disturbed' PROVE StubToken'
  BY DEF StubToken
<1>1. ~disturbed
  BY DEF StubNext, Program, Environment, Break, Stub, StubWaitThre, StubSaveStat, StubPut, StubPoll,
         StubGet, StubGetClear, StubGetRead, StubExit, StubReturn, stubVars, systemVars
<1>2. DriverTypeOK
  BY DEF StubTypeOK
<1>3. CASE spc = "none" /\ (Program \/ Environment \/ UNCHANGED systemVars)
  <2>1. TokenInv /\ spc' = "none" /\ (Next \/ UNCHANGED vars)
    BY <1>1, <1>3 DEF StubToken, Program, Environment, Next, stubVars, systemVars
  <2>2. TokenInv'
    BY <1>2, <2>1, TokenStep
  <2> QED
    BY <2>1, <2>2 DEF StubToken
<1>4. CASE Break
  <2>1. TokenInv /\ spc' = "thre"
    BY <1>1, <1>4 DEF StubToken, Break, StubAt
  <2> QED
    BY <1>4, <2>1, BreakToken DEF StubToken
<1>5. CASE spc # "none" /\ (Environment \/ Stub \/ UNCHANGED systemVars)
  <2>1. SessionInv
    BY <1>1, <1>5 DEF StubToken
  <2>2. SessionInv'
    BY <1>5, <2>1, SessionStep
  <2>3. CASE StubReturn
    <3>1. spc' = "none"
      BY <2>3 DEF StubReturn, StubAt
    <3> QED
      BY <2>1, <2>2, <2>3, <3>1, ReturnToken DEF StubToken
  <2>4. CASE ~StubReturn
    <3>1. spc' # "none"
      BY <1>5, <2>4 DEF Environment, Stub, StubAt, StubWaitThre, StubSaveStat, StubPut, StubPoll,
                        StubGet, StubGetClear, StubGetRead, StubExit, stubVars, systemVars
    <3> QED
      BY <2>2, <3>1 DEF StubToken
  <2> QED
    BY <2>3, <2>4
<1>6. Stub => spc # "none"
  BY DEF Stub, StubAt, StubWaitThre, StubSaveStat, StubPut, StubPoll, StubGet, StubGetClear,
         StubGetRead, StubExit, StubReturn
<1> QED
  BY <1>3, <1>4, <1>5, <1>6 DEF StubNext, Program

(* What a session needs and keeps: the interrupts' state, the poll of THRE *)
(* before each character, and the permission to transmit.                  *)
StubIInv == StubTypeOK /\ RestoreInv /\ ReadyInv /\ StubToken

(* These hold together in every reachable state.                           *)
LEMMA StubInvCorrect == StubSpec => []StubIInv
<1>1. StubInit => RestoreInv /\ ReadyInv /\ StubToken
  BY DEF StubInit, Init, UartInit, IrqInit, RestoreInv, InterruptsRestored, ReadyInv, ReadyPcs,
         StubToken, TokenInv, MaskInv, StartInv, ClearToSendInv, EventInv, StaleInv, NoStall,
         InitPcs, WritePcs, OffPcs
<1>2. StubTypeOK /\ RestoreInv /\ ReadyInv /\ StubToken /\ [StubNext]_systemVars
        => RestoreInv' /\ ReadyInv' /\ StubToken'
  BY RestoreStep, ReadyStep, StubTokenStep
<1> QED
  BY <1>1, <1>2, StubTypeCorrect, PTL DEF StubSpec, StubIInv

(* Neither the program nor the stub writes RXTX over a character, and      *)
(* after a session that disturbs no transmission the driver still never    *)
(* waits for an event that will not come.                                  *)
THEOREM StubNeverOverruns == StubSpec => []NoOverrunNorStall
<1>1. StubIInv => NoOverrunNorStall
  BY DEF StubIInv, ReadyInv, ReadyPcs, StubToken, TokenInv, ClearToSendInv, EventInv,
         NoOverrunNorStall, NoOverrun
<1> QED
  BY <1>1, StubInvCorrect, PTL
-----------------------------------------------------------------------------
(* The character the stub puts comes after all of the program's: with      *)
(* tx_cts nothing else is on its way past the holding register.            *)
LEMMA PutExtendsPath ==
    ASSUME StubTypeOK, ReadyInv, SessionInv, StubPut
    PROVE  TxPath' = Append(TxPath, 0) /\ UNCHANGED <<sent, hostRx, txDropped>>
<1>1. /\ thre /\ tx_produce = tx_consume /\ pc = "run" /\ DriverTypeOK
      /\ Clock(WriteRXTX(0)) /\ UNCHANGED <<ringVars, appVars, histVars>>
  BY DEF StubPut, StubAt, Bus, ReadyInv, ReadyPcs, SessionInv, StubTypeOK
<1>2. TxRing = <<>> /\ TxRing' = <<>>
  BY <1>1, RingEmpty, RingAssumption DEF TxRing, ringVars, DriverTypeOK, DriverVarsOK
<1>3. Pending = <<>> /\ Pending' = <<>>
  BY <1>1 DEF Pending, appVars
<1>4. InCore' = InCore \o <<0>> /\ InCore \in Seq(Char) /\ 0 \in Char
  BY <1>1, InCoreGrows, PathType DEF DriverTypeOK, Char
<1>5. TxPath = (InCore \o TxRing) \o Pending /\ TxPath' = (InCore' \o TxRing') \o Pending'
  BY DEF TxPath, InCore, Pending
<1>6. TxPath = InCore /\ TxPath' = InCore \o <<0>>
  BY <1>2, <1>3, <1>4, <1>5, ConcatEmptySeq, ConcatProperties
<1>7. TxPath' = Append(TxPath, 0)
  BY <1>4, <1>6, AppendIsConcat
<1> QED
  BY <1>1, <1>7 DEF histVars, Clock

(* The other steps of the stub do not touch the path.                      *)
LEMMA StubIsIdle ==
    ASSUME StubTypeOK, Break \/ Stub, ~StubPut
    PROVE  Idle
<1>1. UNCHANGED <<ringVars, appVars, isrVars, histVars>>
  BY StubStepShape
<1>2. \E w : Clock(w) /\ w.reg # "RXTX"
  <2>1. NoWrite.reg # "RXTX" /\ \A bits : WriteSTAT(bits).reg # "RXTX"
    BY DEF NoWrite, WriteSTAT
  <2> QED
    BY <2>1 DEF Break, Stub, StubWaitThre, StubSaveStat, StubPoll, StubGet, StubGetClear,
                StubGetRead, StubExit, StubReturn, Cpu, Bus
<1> QED
  BY <1>1, <1>2 DEF Idle, TxRing, Pending, ringVars, appVars, histVars

(* During a session the core and the host only move the path along.        *)
LEMMA EnvironmentStream ==
    ASSUME DriverTypeOK, Environment
    PROVE  [Stream!StreamNext]_(Stream!streamVars)
<1>1. CASE Stall
  <2>1. Idle
    BY <1>1 DEF Idle, Stall, Cpu, Bus, NoWrite, TxRing, Pending, ringVars, appVars
  <2> QED
    BY <2>1, IdleStutters DEF Stream!streamVars
<1>2. CASE DriverHostReceive
  BY <1>2, HostDelivers DEF Stream!StreamNext
<1>3. CASE DriverHostSend
  BY <1>3 DEF DriverHostSend, HostSend, DriverUnchanged, uartRegs, ringVars, appVars, histVars,
              Stream!streamVars, TxPath, Thr, TxRing
<1> QED
  BY <1>1, <1>2, <1>3 DEF Environment

(* The program's characters, with the stub's in between. *)
StubStreamInv == NextCharInv /\ (~disturbed => TxDelivers({0}) /\ DroppedInv)

(* Every step keeps the program's stream whole.                            *)
LEMMA StubStreamStep ==
    ASSUME StubTypeOK, ReadyInv, StubToken, StubStreamInv, [StubNext]_systemVars
    PROVE  StubStreamInv'
<1>1. DriverTypeOK /\ NextCharInv
  BY DEF StubTypeOK, StubStreamInv
<1>2. Program \/ Environment \/ UNCHANGED systemVars => [Next]_vars
  BY DEF Program, Environment, Next, systemVars
<1>3. NextCharInv'
  <2>1. CASE Break \/ Stub
    BY <1>1, <2>1, StubStepShape DEF NextCharInv, appVars, histVars
  <2> QED
    BY <1>1, <1>2, <2>1, NextCharStep DEF StubNext
<1>4. ASSUME ~disturbed' PROVE TxDelivers({0})' /\ DroppedInv'
  <2>1. ~disturbed
    BY <1>4 DEF StubNext, Program, Environment, Break, Stub, StubWaitThre, StubSaveStat, StubPut,
           StubPoll, StubGet, StubGetClear, StubGetRead, StubExit, StubReturn, stubVars, systemVars
  <2>2. TxDelivers({0}) /\ DroppedInv /\ (IF spc = "none" THEN TokenInv ELSE SessionInv)
    BY <2>1 DEF StubStreamInv, StubToken
  <2>3. CASE [Stream!StreamNext]_(Stream!streamVars)
    BY <1>1, <2>2, <2>3, StreamKeeps
  <2>4. CASE Program
    BY <1>1, <1>2, <2>2, <2>3, <2>4, StreamStep DEF Program
  <2>5. CASE Environment
    BY <1>1, <2>3, <2>5, EnvironmentStream
  <2>6. CASE (Break \/ Stub) /\ ~StubPut
    BY <1>1, <2>3, <2>6, StubIsIdle, IdleStutters DEF Stream!streamVars
  <2>7. CASE StubPut
    <3>1. spc # "none"
      BY <2>7 DEF StubPut, StubAt
    <3>2. TxPath' = Append(TxPath, 0) /\ UNCHANGED <<sent, hostRx, txDropped>>
      BY <2>2, <2>7, <3>1, PutExtendsPath
    <3>3. hostRx \in Seq(Nat) /\ TxPath \in Seq(Nat) /\ hostRx \o TxPath \in Seq(Nat) /\ sent \in Nat
      BY <1>1, PathType, ConcatProperties DEF Char, DriverTypeOK, DriverVarsOK
    <3>4. hostRx' \o TxPath' = Append(hostRx \o TxPath, 0)
      BY <3>2, <3>3
    <3> DEFINE s == hostRx \o TxPath
    <3>5. Delivers(s, sent, txDropped, {0})
      BY <2>2 DEF TxDelivers
    <3> HIDE DEF s
    <3>6. Delivers(Append(s, 0), sent, txDropped, {0})
      BY <3>3, <3>5, DeliversOther DEF s
    <3> QED
      BY <2>2, <3>2, <3>4, <3>6 DEF TxDelivers, DroppedInv, s
  <2>8. CASE UNCHANGED systemVars
    <3>1. UNCHANGED vars
      BY <2>8 DEF systemVars
    <3> QED
      BY <2>3, <3>1 DEF vars, uartVars, uartRegs, ringVars, appVars, histVars, Stream!streamVars,
                        TxPath, Thr, TxRing
  <2> QED
    BY <2>4, <2>5, <2>6, <2>7, <2>8 DEF StubNext
<1> QED
  BY <1>3, <1>4 DEF StubStreamInv

(* The program's characters come through a debug session unharmed when it  *)
(* starts while no transmission is under way: none is lost, repeated or    *)
(* reordered, and the stub's own are mixed in between.                     *)
THEOREM StubStreamCorrect == StubSpec => []TxStreamThroughStub
<1>1. StubInit => StubStreamInv
  <2> SUFFICES ASSUME StubInit PROVE StubStreamInv
    OBVIOUS
  <2>1. Init /\ pc = "init_ie" /\ sent = 0 /\ txDropped = {}
    BY DEF StubInit, Init
  <2>2. hostRx = <<>> /\ TxPath = <<>>
    BY <2>1, StreamStart DEF Stream!StreamInit
  <2>3. hostRx \o TxPath = <<>>
    BY <2>2, ConcatEmptySeq
  <2>4. TxDelivers({0})
    BY <2>1, <2>3 DEF TxDelivers, Delivers, Range
  <2> QED
    BY <2>1, <2>4 DEF StubStreamInv, NextCharInv, DroppedInv
<1>2. StubIInv /\ StubStreamInv /\ [StubNext]_systemVars => StubStreamInv'
  BY StubStreamStep DEF StubIInv
<1>3. StubStreamInv => TxStreamThroughStub
  BY DEF StubStreamInv, TxDelivers, TxStreamThroughStub
<1> QED
  BY <1>1, <1>2, <1>3, StubInvCorrect, PTL DEF StubSpec
=============================================================================
