-------------------------- MODULE UartDriverProofs --------------------------
(***************************************************************************)
(* UartDriver proved for every ring size, FIFO depth and number of         *)
(* characters: its types, that the transmit register is never overrun,     *)
(* that reboot leaves nothing behind, and that the transmitter never       *)
(* stalls.  The argument: the permission to transmit is a token, held by   *)
(* tx_cts, by uart_write on its way to RXTX, by the full holding register, *)
(* by the TX event, or by the handler that has just acknowledged it.       *)
(***************************************************************************)
EXTENDS UartDriver, TLAPS

InitPcs == {"init_ie", "init_vars", "init_ack", "init_stat", "init_stat2", "init_ctrl", "init_mask"}
WritePcs == {"w_test", "w_rxtx", "w_ring", "w_sync", "w_poll", "w_restore"}
OffPcs == {"rb_ie", "rb_id", "rb_spin"}

(* What the interrupt controller holds at each point of the program.       *)
MaskInv ==
    /\ im = IF pc \in InitPcs \cup WritePcs \cup OffPcs THEN {} ELSE {"UART"}
    /\ pc \in WritePcs => oldmask = {"UART"}
    /\ pc \notin InitPcs \/ pc = "init_mask" => irq_en = {"TX_INT", "RX_INT"}
    /\ pc \in InitPcs \cup WritePcs \cup OffPcs => ipc = "none"
    /\ ipc # "none" => ~ie /\ eie
    /\ ipc = "none" /\ pc \notin {"init_ie", "rb_id", "rb_spin"} => ie

(* Before uart_init is done the transmitter is idle. *)
StartInv ==
    pc \in InitPcs => /\ thre /\ ~tx_event /\ ~force_sync
                      /\ tx_produce = 0 /\ tx_consume = 0
                      /\ pc \notin {"init_ie", "init_vars"} => tx_cts

(* While tx_cts is set the ring is empty and so is the holding register,   *)
(* but for a forced write in progress.                                     *)
ClearToSendInv ==
    /\ tx_cts => tx_produce = tx_consume /\ (thre \/ pc = "w_poll")
    /\ force_sync => tx_cts
    /\ pc \in {"w_sync", "w_poll"} => force_sync
    /\ pc \in {"rb_mask", "rb_ie", "rb_id", "rb_spin"} => tx_cts
    /\ pc = "w_rxtx" => ~tx_cts /\ ~tx_event /\ thre /\ tx_produce = tx_consume
    /\ pc = "w_ring" => ~tx_cts
    /\ pc = "w_sync" => ~tx_event

(* An event is only pending when the holding register is empty; the        *)
(* handler that saw it owns it until it has acted on it.                   *)
EventInv ==
    /\ tx_event => thre
    /\ ipc = "clear" /\ "TX_EVT" \in stat => thre /\ tx_event
    /\ ipc \in {"rx", "tx"} /\ "TX_EVT" \in stat => thre /\ ~tx_event

(* A stale event, one left by a forced write, is served before the         *)
(* application gets as far as a write that is not forced.                  *)
StaleInv ==
    /\ pc = "w_test" /\ tx_cts => ~tx_event
    /\ pc = "w_poll" /\ thre => tx_event
    /\ ipc = "none" /\ tx_cts /\ tx_event /\ pc \notin InitPcs \cup {"w_poll"} => "UART" \in ip
    /\ ipc = "clear" /\ tx_cts /\ tx_event => "TX_EVT" \in stat
    /\ ipc \in {"rx", "tx", "ack", "eret"} /\ tx_cts => ~tx_event

TokenInv == MaskInv /\ StartInv /\ ClearToSendInv /\ EventInv /\ StaleInv /\ NoStall
IInv == DriverTypeOK /\ TokenInv
-----------------------------------------------------------------------------
(* Indices stay within a ring. *)
LEMMA NextInRing ==
    ASSUME NEW N \in Nat \ {0}, NEW i \in 0..N-1
    PROVE  (i + 1) % N \in 0..N-1
  OBVIOUS

(* What a ring holds is taken from its buffer. *)
LEMMA RingInBuffer ==
    ASSUME NEW N \in Nat \ {0}, NEW buf \in [0..N-1 -> Char],
           NEW p \in 0..N-1, NEW c \in 0..N-1
    PROVE  Range(RingContents(buf, N, p, c)) \subseteq Char
<1> DEFINE n == (p + N - c) % N
<1>1. n \in Nat
  OBVIOUS
<1>2. \A i \in 1..n : buf[(c + i - 1) % N] \in Char
  <2> TAKE i \in 1..n
  <2>1. c + i - 1 \in Nat
    BY <1>1
  <2>2. (c + i - 1) % N \in 0..N-1
    BY <2>1
  <2> QED
    BY <2>2
<1> QED
  BY <1>1, <1>2 DEF Range, RingContents

(* An edge of the core keeps its registers and FIFOs in their types. *)
LEMMA ClockType ==
    ASSUME UartTypeOK, NEW w, Clock(w), w.char \in Char,
           w.reg = "CTRL" => w.bits \in SUBSET CtrlBits
    PROVE  UartTypeOK'
<1>1. /\ thre' \in BOOLEAN /\ tx_event' \in BOOLEAN /\ rx_event' \in BOOLEAN /\ jtag_rd' \in BOOLEAN
      /\ irq_en' \in SUBSET CtrlBits
  BY DEF UartTypeOK, Clock, ClockTx, ClockRx, read_jtag
<1>2. tx_reg' \in Char /\ rx_reg' \in Char
  BY DEF UartTypeOK, Clock, ClockTx, ClockRx
<1>3. jtag_q' \in Char /\ rfifo' \in Seq(Char)
  BY DEF UartTypeOK, Clock, ClockRx, read_jtag
<1>4. wfifo' \in Seq(Char)
  BY DEF UartTypeOK, Clock, ClockTx
<1>5. hostRx' \in Seq(Char) /\ hostTx' \in Nat
  BY DEF UartTypeOK, Clock
<1> QED
  BY <1>1, <1>2, <1>3, <1>4, <1>5 DEF UartTypeOK
-----------------------------------------------------------------------------
(* An edge keeps the interrupt registers in their types. *)
LEMMA IrqType ==
    ASSUME IrqTypeOK,
           \/ IrqIdle(Lines) \/ IrqException(Lines) \/ IrqEret(Lines)
           \/ \E en \in BOOLEAN : WcsrIE(Lines, en)
           \/ \E mask \in SUBSET Irqs : WcsrIM(Lines, mask) \/ WcsrIP(Lines, mask)
    PROVE  IrqTypeOK'
<1>1. Lines \in SUBSET Irqs
  BY IrqAssumption DEF Lines
<1> QED
  BY <1>1 DEF IrqTypeOK, IrqIdle, IrqException, IrqEret, WcsrIE, WcsrIM, WcsrIP, asserted

(* The host's two actions keep the types. *)
LEMMA HostType ==
    ASSUME UartTypeOK, HostReceive \/ HostSend
    PROVE  UartTypeOK'
<1>1. CASE HostReceive
  <2>1. Head(wfifo) \in Char /\ Tail(wfifo) \in Seq(Char)
    BY <1>1 DEF UartTypeOK, HostReceive
  <2>2. hostRx' \in Seq(Char) /\ wfifo' \in Seq(Char)
    BY <1>1, <2>1 DEF UartTypeOK, HostReceive
  <2> QED
    BY <1>1, <2>2 DEF UartTypeOK, HostReceive, uartRegs
<1>2. CASE HostSend
  <2>1. hostTx' \in Nat /\ hostTx' \in Char
    BY <1>2 DEF UartTypeOK, HostSend, Char
  <2>2. rfifo' \in Seq(Char)
    BY <1>2, <2>1 DEF UartTypeOK, HostSend
  <2> QED
    BY <1>2, <2>1, <2>2 DEF UartTypeOK, HostSend, uartRegs
<1> QED
  BY <1>1, <1>2
-----------------------------------------------------------------------------
(* Every step is an edge of the core with one of the four kinds of write,  *)
(* or one of the host's actions; and an edge of the interrupt logic.       *)
LEMMA StepShape ==
    ASSUME DriverTypeOK, Next
    PROVE  /\ \/ HostReceive \/ HostSend \/ Clock(NoWrite)
              \/ \E c \in Char : Clock(WriteRXTX(c))
              \/ Clock(WriteSTAT(stat))
              \/ Clock(WriteCTRL({"TX_INT", "RX_INT"}))
           /\ \/ UNCHANGED irqVars
              \/ IrqIdle(Lines) \/ IrqException(Lines) \/ IrqEret(Lines)
              \/ \E en \in BOOLEAN : WcsrIE(Lines, en)
              \/ \E mask \in SUBSET Irqs : WcsrIM(Lines, mask) \/ WcsrIP(Lines, mask)
<1>1. ch \in Char /\ tx_buf[tx_consume] \in Char
  BY DEF DriverTypeOK, DriverVarsOK
<1>2. {} \in SUBSET Irqs /\ {"UART"} \in SUBSET Irqs /\ im \cup {"UART"} \in SUBSET Irqs
      /\ oldmask \in SUBSET Irqs
  BY IrqAssumption DEF DriverTypeOK, DriverVarsOK, IrqTypeOK
<1>3. CASE InitStep
  BY <1>1, <1>2, <1>3 DEF InitStep, InitIE, InitVars, InitAck, InitStatRead, InitStatWrite,
                          InitCtrl, InitMask, Cpu, Bus
<1>4. CASE WriteStep
  BY <1>1, <1>2, <1>4 DEF WriteStep, WriteSync, WriteDirect, WriteTest, WriteRing, WriteRegister,
                          WritePoll, WriteRestore, Cpu, Bus
<1>5. CASE ReadStep \/ SyncStep
  BY <1>2, <1>5 DEF ReadStep, ReadChar, ReadAdvance, SyncStep, ForceSyncSet, RebootMask,
                    RebootIE, RebootWriteId, Cpu, Bus
<1>6. CASE AppCall
  BY <1>2, <1>6 DEF AppCall, WriteCall, ReadCall, ForceSyncOn, ForceSyncOff, RebootCall, Cpu, Bus
<1>7. CASE Isr
  BY <1>1, <1>2, <1>7 DEF Isr, IsrEnter, IsrReadStat, IsrClear, IsrRx, IsrTxIdle, IsrTxNext,
                          IsrAck, IsrEret, Cpu, Bus
<1>8. CASE Stall \/ DriverHostReceive \/ DriverHostSend
  BY <1>8 DEF Stall, Cpu, Bus, DriverHostReceive, DriverHostSend, DriverUnchanged
<1> QED
  BY <1>3, <1>4, <1>5, <1>6, <1>7, <1>8 DEF Next, AppStep

(* Every step keeps the types of the core and of the interrupt logic.      *)
LEMMA StepTypesHw ==
    ASSUME DriverTypeOK, Next
    PROVE  UartTypeOK' /\ IrqTypeOK'
<1>1. UartTypeOK /\ IrqTypeOK /\ stat \in SUBSET StatBits
  BY DEF DriverTypeOK, DriverVarsOK
<1>2. UartTypeOK'
  <2>1. CASE HostReceive \/ HostSend
    BY <1>1, <2>1, HostType
  <2>2. CASE Clock(NoWrite)
    <3>1. NoWrite.char \in Char /\ NoWrite.reg # "CTRL"
      BY DEF NoWrite, Char
    <3> QED
      BY <1>1, <2>2, <3>1, ClockType
  <2>3. CASE \E c \in Char : Clock(WriteRXTX(c))
    <3>1. PICK c \in Char : Clock(WriteRXTX(c))
      BY <2>3
    <3>2. WriteRXTX(c).char \in Char /\ WriteRXTX(c).reg # "CTRL"
      BY DEF WriteRXTX
    <3> QED
      BY <1>1, <3>1, <3>2, ClockType
  <2>4. CASE Clock(WriteSTAT(stat))
    <3>1. WriteSTAT(stat).char \in Char /\ WriteSTAT(stat).reg # "CTRL"
      BY DEF WriteSTAT, Char
    <3> QED
      BY <1>1, <2>4, <3>1, ClockType
  <2>5. CASE Clock(WriteCTRL({"TX_INT", "RX_INT"}))
    <3>1. /\ WriteCTRL({"TX_INT", "RX_INT"}).char \in Char
          /\ WriteCTRL({"TX_INT", "RX_INT"}).bits \in SUBSET CtrlBits
      BY DEF WriteCTRL, Char, CtrlBits
    <3> QED
      BY <1>1, <2>5, <3>1, ClockType
  <2> QED
    BY <2>1, <2>2, <2>3, <2>4, <2>5, StepShape
<1>3. IrqTypeOK'
  <2>1. CASE UNCHANGED irqVars
    BY <1>1, <2>1 DEF irqVars, IrqTypeOK
  <2> QED
    BY <1>1, <2>1, StepShape, IrqType
<1> QED
  BY <1>2, <1>3
-----------------------------------------------------------------------------
(* The driver's own variables keep their types. *)
LEMMA StepTypesDriver ==
    ASSUME DriverTypeOK, Next
    PROVE  DriverVarsOK'
<1> USE DEF DriverVarsOK, AppPc, IsrPc, ringVars, appVars, isrVars, histVars, App, Goto
<1>1. DriverVarsOK /\ UartTypeOK /\ IrqTypeOK
  BY DEF DriverTypeOK, DriverVarsOK
<1>2. /\ NextRX(rx_produce) \in 0..RingSizeRX-1 /\ NextRX(rx_consume) \in 0..RingSizeRX-1
      /\ NextTX(tx_produce) \in 0..RingSizeTX-1 /\ NextTX(tx_consume) \in 0..RingSizeTX-1
  BY <1>1, RingAssumption, NextInRing DEF NextRX, NextTX
<1>3. Range(TxRing) \subseteq Char /\ Range(RxRing) \subseteq Char
  BY <1>1, RingAssumption, RingInBuffer DEF TxRing, RxRing
<1>4. STAT \in SUBSET StatBits /\ RXTX \in Char /\ rx_reg \in Char
  BY <1>1 DEF STAT, RXTX, UartTypeOK
<1>5. 0 \in 0..RingSizeRX-1 /\ 0 \in 0..RingSizeTX-1
  BY RingAssumption
<1>6. rx_buf[rx_consume] \in Char /\ im \in SUBSET Irqs /\ sent + 1 \in Char /\ ch \in Nat
  BY <1>1 DEF IrqTypeOK, Char
<1>7. CASE InitStep
  BY <1>1, <1>4, <1>5, <1>7 DEF InitStep, InitIE, InitVars, InitAck, InitStatRead,
                                InitStatWrite, InitCtrl, InitMask
<1>8. CASE WriteStep
  <2>1. CASE WriteRing
    <3>1. tx_buf' \in [0..RingSizeTX-1 -> Char]
      BY <1>1, <2>1 DEF WriteRing
    <3>2. txDropped' \in SUBSET Char
      BY <1>1, <1>3, <2>1 DEF WriteRing
    <3> QED
      BY <1>1, <1>2, <1>6, <2>1, <3>1, <3>2 DEF WriteRing
  <2>2. CASE WriteSync \/ WriteDirect \/ WriteTest \/ WriteRegister \/ WritePoll \/ WriteRestore
    BY <1>1, <1>6, <2>2 DEF WriteSync, WriteDirect, WriteTest, WriteRegister, WritePoll, WriteRestore
  <2> QED
    BY <1>8, <2>1, <2>2 DEF WriteStep
<1>9. CASE ReadStep
  <2>1. CASE ReadAdvance
    <3>1. got' \in Seq(Char)
      BY <1>1, <2>1 DEF ReadAdvance
    <3> QED
      BY <1>1, <1>2, <2>1, <3>1 DEF ReadAdvance
  <2> QED
    BY <1>1, <1>6, <1>9, <2>1 DEF ReadStep, ReadChar
<1>10. CASE SyncStep \/ AppCall
  BY <1>1, <1>6, <1>10 DEF SyncStep, ForceSyncSet, RebootMask, RebootIE, RebootWriteId,
                           AppCall, WriteCall, ReadCall, ForceSyncOn, ForceSyncOff, RebootCall
<1>11. CASE Isr
  <2>1. CASE IsrRx
    <3>1. rx_buf' \in [0..RingSizeRX-1 -> Char] /\ rx_produce' \in 0..RingSizeRX-1
      BY <1>1, <1>2, <1>4, <2>1 DEF IsrRx
    <3>2. rxDropped' \in SUBSET Char
      BY <1>1, <1>3, <1>4, <2>1 DEF IsrRx
    <3>3. rxFault' \in SUBSET {"clobbered", "overtaken"}
      BY <1>1, <2>1 DEF IsrRx
    <3> QED
      BY <1>1, <2>1, <3>1, <3>2, <3>3 DEF IsrRx, IsrAt
  <2>2. CASE IsrEnter \/ IsrReadStat \/ IsrClear \/ IsrAck \/ IsrEret
    BY <1>1, <1>4, <2>2, ZenonT(40) DEF IsrEnter, IsrReadStat, IsrClear, IsrAck, IsrEret, IsrAt
  <2>3. CASE IsrTxIdle \/ IsrTxNext
    BY <1>1, <1>2, <2>3 DEF IsrTxIdle, IsrTxNext, IsrAt
  <2> QED
    BY <1>11, <2>1, <2>2, <2>3 DEF Isr
<1>12. CASE Stall \/ DriverHostReceive \/ DriverHostSend
  <2>1. CASE Stall
    <3>1. rxFault' \in SUBSET {"clobbered", "overtaken"}
      BY <1>1, <2>1 DEF Stall
    <3> QED
      BY <1>1, <2>1, <3>1 DEF Stall
  <2> QED
    BY <1>1, <1>12, <2>1, ZenonT(40) DEF DriverHostReceive, DriverHostSend, DriverUnchanged
<1> QED
  BY <1>7, <1>8, <1>9, <1>10, <1>11, <1>12 DEF Next, AppStep

(* Every variable keeps its type: the ring indices stay in their rings,    *)
(* and the counters of characters stay natural numbers.                    *)
THEOREM TypeCorrect == Spec => []DriverTypeOK
<1>1. Init => DriverTypeOK
  BY RingAssumption DEF Init, DriverTypeOK, DriverVarsOK, UartInit, UartTypeOK, IrqInit, IrqTypeOK, Char,
                        AppPc, IsrPc
<1>2. DriverTypeOK /\ [Next]_vars => DriverTypeOK'
  <2> SUFFICES ASSUME DriverTypeOK, [Next]_vars PROVE DriverTypeOK'
    OBVIOUS
  <2>1. CASE Next
    BY <2>1, StepTypesHw, StepTypesDriver DEF DriverTypeOK, DriverVarsOK
  <2>2. CASE UNCHANGED vars
    BY <2>2 DEF vars, uartVars, uartRegs, irqVars, ringVars, appVars, isrVars, histVars,
                DriverTypeOK, DriverVarsOK, UartTypeOK, IrqTypeOK
  <2> QED
    BY <2>1, <2>2
<1> QED
  BY <1>1, <1>2, PTL DEF Spec
-----------------------------------------------------------------------------
(* uart_init leaves the token with tx_cts.                                *)
LEMMA TokenInit ==
    ASSUME DriverTypeOK, TokenInv, InitStep
    PROVE  TokenInv'
<1> USE DEF TokenInv, MaskInv, StartInv, ClearToSendInv, EventInv, StaleInv, NoStall,
            InitPcs, WritePcs, OffPcs, App, Goto, Cpu, Bus, Clock, ClockTx, jtag_we,
            NoWrite, IrqIdle, asserted, Lines, tx_irq, interrupt_exception,
            isrVars, ringVars, appVars, uartRegs, irqVars
<1>0. /\ thre \in BOOLEAN /\ tx_event \in BOOLEAN /\ tx_cts \in BOOLEAN /\ force_sync \in BOOLEAN
      /\ ie \in BOOLEAN /\ eie \in BOOLEAN
  BY DEF DriverTypeOK, DriverVarsOK, UartTypeOK, IrqTypeOK
<1>1. CASE InitIE
  BY <1>0, <1>1 DEF InitIE, WcsrIE
<1>2. CASE InitVars
  BY <1>0, <1>2 DEF InitVars
<1>3. CASE InitAck
  BY <1>0, <1>3 DEF InitAck, WcsrIP
<1>4. CASE InitStatRead
  BY <1>0, <1>4 DEF InitStatRead, STAT
<1>5. CASE InitStatWrite
  BY <1>0, <1>5 DEF InitStatWrite, WriteSTAT
<1>6. CASE InitCtrl
  BY <1>0, <1>6 DEF InitCtrl, WriteCTRL
<1>7. CASE InitMask
  <2>1. im = {} /\ im' = {"UART"}
    BY <1>7 DEF InitMask, WcsrIM
  <2> QED
    BY <1>0, <1>7, <2>1 DEF InitMask, WcsrIM
<1> QED
  BY <1>1, <1>2, <1>3, <1>4, <1>5, <1>6, <1>7 DEF InitStep

(* uart_write takes the token from tx_cts to the holding register.         *)
LEMMA TokenWrite ==
    ASSUME DriverTypeOK, TokenInv, WriteStep
    PROVE  TokenInv'
<1> USE DEF TokenInv, MaskInv, StartInv, ClearToSendInv, EventInv, StaleInv, NoStall,
            InitPcs, WritePcs, OffPcs, App, Goto, Cpu, Bus, Clock, ClockTx, jtag_we,
            NoWrite, IrqIdle, asserted, Lines, tx_irq, interrupt_exception,
            isrVars, ringVars, appVars, uartRegs, irqVars
<1>0. /\ thre \in BOOLEAN /\ tx_event \in BOOLEAN /\ tx_cts \in BOOLEAN /\ force_sync \in BOOLEAN
      /\ ie \in BOOLEAN /\ eie \in BOOLEAN
  BY DEF DriverTypeOK, DriverVarsOK, UartTypeOK, IrqTypeOK
<1>1. CASE WriteSync
  BY <1>0, <1>1 DEF WriteSync
<1>2. CASE WriteDirect
  BY <1>0, <1>2 DEF WriteDirect
<1>3. CASE WriteRing
  BY <1>0, <1>3 DEF WriteRing
<1>4. CASE WriteRegister
  BY <1>0, <1>4 DEF WriteRegister, WriteRXTX
<1>5. CASE WritePoll
  BY <1>0, <1>5 DEF WritePoll, STAT
<1>6. CASE WriteRestore
  BY <1>0, <1>6 DEF WriteRestore, WcsrIM
<1>7. CASE WriteTest
  BY <1>0, <1>7 DEF WriteTest
<1> QED
  BY <1>1, <1>2, <1>3, <1>4, <1>5, <1>6, <1>7 DEF WriteStep

(* The application's other steps leave the token where it is.              *)
LEMMA TokenApp ==
    ASSUME DriverTypeOK, TokenInv, ReadStep \/ SyncStep \/ AppCall
    PROVE  TokenInv'
<1> USE DEF TokenInv, MaskInv, StartInv, ClearToSendInv, EventInv, StaleInv, NoStall,
            InitPcs, WritePcs, OffPcs, App, Goto, Cpu, Bus, Clock, ClockTx, jtag_we,
            NoWrite, IrqIdle, asserted, Lines, tx_irq, interrupt_exception,
            isrVars, ringVars, appVars, uartRegs, irqVars
<1>0. /\ thre \in BOOLEAN /\ tx_event \in BOOLEAN /\ tx_cts \in BOOLEAN /\ force_sync \in BOOLEAN
      /\ ie \in BOOLEAN /\ eie \in BOOLEAN
  BY DEF DriverTypeOK, DriverVarsOK, UartTypeOK, IrqTypeOK
<1>1. CASE ReadChar
  BY <1>0, <1>1 DEF ReadChar
<1>2. CASE ReadAdvance
  BY <1>0, <1>2 DEF ReadAdvance
<1>3. CASE ForceSyncSet
  BY <1>0, <1>3 DEF ForceSyncSet
<1>4. CASE RebootMask
  BY <1>0, <1>4 DEF RebootMask, WcsrIM
<1>5. CASE RebootIE
  BY <1>0, <1>5 DEF RebootIE, WcsrIE
<1>6. CASE RebootWriteId
  BY <1>0, <1>6 DEF RebootWriteId
<1>7. CASE WriteCall
  BY <1>0, <1>7 DEF WriteCall, WcsrIM
<1>8. CASE ReadCall
  BY <1>0, <1>8 DEF ReadCall
<1>9. CASE ForceSyncOn
  BY <1>0, <1>9 DEF ForceSyncOn
<1>10. CASE ForceSyncOff
  BY <1>0, <1>10 DEF ForceSyncOff
<1>11. CASE RebootCall
  BY <1>0, <1>11 DEF RebootCall
<1> QED
  BY <1>1, <1>2, <1>3, <1>4, <1>5, <1>6, <1>7, <1>8, <1>9, <1>10, <1>11 DEF ReadStep, SyncStep, AppCall

(* uart_isr takes the token from the event to RXTX or back to tx_cts.      *)
LEMMA TokenIsr ==
    ASSUME DriverTypeOK, TokenInv, Isr
    PROVE  TokenInv'
<1> USE DEF TokenInv, MaskInv, StartInv, ClearToSendInv, EventInv, StaleInv, NoStall,
            InitPcs, WritePcs, OffPcs, App, Goto, Cpu, Bus, Clock, ClockTx, jtag_we,
            NoWrite, IrqIdle, asserted, Lines, tx_irq, interrupt_exception,
            isrVars, ringVars, appVars, uartRegs, irqVars
<1>0. /\ thre \in BOOLEAN /\ tx_event \in BOOLEAN /\ tx_cts \in BOOLEAN /\ force_sync \in BOOLEAN
      /\ ie \in BOOLEAN /\ eie \in BOOLEAN
  BY DEF DriverTypeOK, DriverVarsOK, UartTypeOK, IrqTypeOK
<1>1. CASE IsrEnter
  <2>1. pc \notin InitPcs \cup WritePcs \cup OffPcs
    <3>1. im # {}
      BY <1>1 DEF IsrEnter
    <3> QED
      BY <3>1
  <2> QED
    BY <1>0, <1>1, <2>1 DEF IsrEnter, IsrAt, IrqException
<1>2. CASE IsrReadStat
  <2>1. "TX_EVT" \in stat' <=> tx_event
    BY <1>2 DEF IsrReadStat, STAT, StatBits
  <2> QED
    BY <1>0, <1>2, <2>1 DEF IsrReadStat, IsrAt
<1>3. CASE IsrClear
  BY <1>0, <1>3 DEF IsrClear, IsrAt, WriteSTAT
<1>4. CASE IsrRx
  BY <1>0, <1>4 DEF IsrRx, IsrAt
<1>5. CASE IsrTxIdle
  BY <1>0, <1>5 DEF IsrTxIdle, IsrAt
<1>6. CASE IsrTxNext
  BY <1>0, <1>6 DEF IsrTxNext, IsrAt, WriteRXTX
<1>7. CASE IsrAck
  BY <1>0, <1>7 DEF IsrAck, IsrAt, WcsrIP
<1>8. CASE IsrEret
  BY <1>0, <1>8 DEF IsrEret, IsrAt, IrqEret
<1> QED
  BY <1>1, <1>2, <1>3, <1>4, <1>5, <1>6, <1>7, <1>8 DEF Isr

(* An edge alone hands the character on; the host only makes room.         *)
LEMMA TokenEnv ==
    ASSUME DriverTypeOK, TokenInv, Stall \/ DriverHostReceive \/ DriverHostSend
    PROVE  TokenInv'
<1> USE DEF TokenInv, MaskInv, StartInv, ClearToSendInv, EventInv, StaleInv, NoStall,
            InitPcs, WritePcs, OffPcs, App, Goto, Cpu, Bus, Clock, ClockTx, jtag_we,
            NoWrite, IrqIdle, asserted, Lines, tx_irq, interrupt_exception,
            isrVars, ringVars, appVars, uartRegs, irqVars
<1>0. /\ thre \in BOOLEAN /\ tx_event \in BOOLEAN /\ tx_cts \in BOOLEAN /\ force_sync \in BOOLEAN
      /\ ie \in BOOLEAN /\ eie \in BOOLEAN
  BY DEF DriverTypeOK, DriverVarsOK, UartTypeOK, IrqTypeOK
<1>1. CASE Stall
  BY <1>0, <1>1 DEF Stall
<1>2. CASE DriverHostReceive
  BY <1>0, <1>2 DEF DriverHostReceive, HostReceive, DriverUnchanged
<1>3. CASE DriverHostSend
  BY <1>0, <1>3 DEF DriverHostSend, HostSend, DriverUnchanged
<1> QED
  BY <1>1, <1>2, <1>3

(* The driver's own steps keep the token. *)
LEMMA TokenStep ==
    ASSUME DriverTypeOK, TokenInv, [Next]_vars
    PROVE  TokenInv'
<1>1. CASE Next
  BY <1>1, TokenInit, TokenWrite, TokenApp, TokenIsr, TokenEnv DEF Next, AppStep
<1>2. CASE UNCHANGED vars
  BY <1>2 DEF vars, uartVars, uartRegs, irqVars, ringVars, appVars, isrVars, histVars, TokenInv,
              MaskInv, StartInv, ClearToSendInv, EventInv, StaleInv, NoStall
<1> QED
  BY <1>1, <1>2

(* The strengthening is inductive. *)
THEOREM TokenCorrect == Spec => []IInv
<1>1. Init => IInv
  <2>1. Init => DriverTypeOK
    BY RingAssumption DEF Init, DriverTypeOK, DriverVarsOK, UartInit, UartTypeOK, IrqInit,
                          IrqTypeOK, Char, AppPc, IsrPc
  <2> QED
    BY <2>1 DEF Init, UartInit, IrqInit, IInv, TokenInv, MaskInv, StartInv, ClearToSendInv,
                EventInv, StaleInv, NoStall, InitPcs, WritePcs, OffPcs
<1>2. IInv /\ [Next]_vars => IInv'
  <2> SUFFICES ASSUME IInv, [Next]_vars PROVE IInv'
    OBVIOUS
  <2>1. DriverTypeOK /\ TokenInv
    BY DEF IInv
  <2>2. TokenInv'
    BY <2>1, TokenStep
  <2>3. CASE Next
    BY <2>1, <2>2, <2>3, StepTypesHw, StepTypesDriver DEF IInv, DriverTypeOK
  <2>4. CASE UNCHANGED vars
    BY <2>1, <2>2, <2>4 DEF vars, uartVars, uartRegs, irqVars, ringVars, appVars, isrVars, histVars,
                IInv, DriverTypeOK, DriverVarsOK, UartTypeOK, IrqTypeOK
  <2> QED
    BY <2>3, <2>4
<1> QED
  BY <1>1, <1>2, PTL DEF Spec

(* RXTX is never written while the holding register is full (uart.v:77-87  *)
(* would lose a character).                                                *)
THEOREM NeverOverrun == Spec => []NoOverrun
<1>1. IInv => NoOverrun
  BY DEF IInv, TokenInv, ClearToSendInv, EventInv, NoOverrun
<1> QED
  BY <1>1, TokenCorrect, PTL

(* The transmitter never waits for an event that will not come.            *)
THEOREM NeverStalls == Spec => []NoStall
<1>1. IInv => NoStall
  BY DEF IInv, TokenInv
<1> QED
  BY <1>1, TokenCorrect, PTL

(* uart_force_sync(1) really flushes: past it, reboot finds the ring and   *)
(* the holding register empty.                                             *)
THEOREM RebootFlushes == Spec => []FlushedOnReboot
<1>1. IInv => FlushedOnReboot
  <2> SUFFICES ASSUME IInv, pc \in {"rb_mask", "rb_ie", "rb_id", "rb_spin"}
               PROVE  thre /\ TxRing = <<>>
    BY DEF FlushedOnReboot
  <2>1. thre /\ tx_produce = tx_consume
    BY DEF IInv, TokenInv, ClearToSendInv
  <2>2. (tx_produce + RingSizeTX - tx_consume) % RingSizeTX = 0
    BY <2>1, RingAssumption DEF IInv, DriverTypeOK, DriverVarsOK
  <2> QED
    BY <2>1, <2>2 DEF TxRing, RingContents
<1> QED
  BY <1>1, TokenCorrect, PTL
=============================================================================
