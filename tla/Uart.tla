-------------------------------- MODULE Uart --------------------------------
(***************************************************************************)
(* The UART core: cores/uart/uart.v around the two FIFOs of                *)
(* cores/uart/jtag_uart.v.  One Clock step is one rising edge of sys_clk.  *)
(* The divisor, thru_en and break_en registers are left out: nothing in    *)
(* the core reads them.  Characters are numbers.                           *)
(***************************************************************************)
EXTENDS Naturals, Sequences

CONSTANT FifoDepth          \* words of each scfifo (64 in jtag_uart.v)

ASSUME FifoDepthAssumption == FifoDepth \in Nat \ {0}

VARIABLES
    thre,                   \* transmit holding register empty
    tx_reg, rx_reg,         \* transmit and receive holding registers
    tx_event, rx_event,     \* sticky event bits of the STAT register
    irq_en,                 \* enabled interrupts: subset of {"TX_INT", "RX_INT"}
    jtag_rd, jtag_q,        \* a FIFO read was issued, the word it returns
    wfifo, rfifo,           \* the CPU-to-JTAG and JTAG-to-CPU FIFOs
    hostRx,                 \* every character the host has received
    hostTx                  \* number of characters the host has sent

uartRegs == <<thre, tx_reg, rx_reg, tx_event, rx_event, irq_en, jtag_rd, jtag_q>>
uartVars == <<uartRegs, wfifo, rfifo, hostRx, hostTx>>

Char == Nat
CtrlBits == {"TX_INT", "RX_INT"}
StatBits == {"TX_EVT", "RX_EVT", "THRE"}

UartTypeOK ==
    /\ thre \in BOOLEAN /\ tx_event \in BOOLEAN /\ rx_event \in BOOLEAN
    /\ jtag_rd \in BOOLEAN
    /\ tx_reg \in Char /\ rx_reg \in Char /\ jtag_q \in Char
    /\ irq_en \in SUBSET CtrlBits
    /\ wfifo \in Seq(Char) /\ rfifo \in Seq(Char) /\ hostRx \in Seq(Char)
    /\ hostTx \in Nat

(* The state after sys_rst. *)
UartInit ==
    /\ thre = TRUE /\ tx_event = FALSE /\ rx_event = FALSE
    /\ tx_reg = 0 /\ rx_reg = 0 /\ irq_en = {}
    /\ jtag_rd = FALSE /\ jtag_q = 0
    /\ wfifo = <<>> /\ rfifo = <<>>
    /\ hostRx = <<>> /\ hostTx = 0

-----------------------------------------------------------------------------
(* What the CSR bus writes at an edge: nothing, or one of the registers.   *)
NoWrite == [reg |-> "none", char |-> 0, bits |-> {}]
WriteRXTX(c) == [reg |-> "RXTX", char |-> c, bits |-> {}]
WriteSTAT(bits) == [reg |-> "STAT", char |-> 0, bits |-> bits]
WriteCTRL(bits) == [reg |-> "CTRL", char |-> 0, bits |-> bits]

(* What the CSR bus reads.  A read changes nothing. *)
STAT == {b \in StatBits : \/ b = "TX_EVT" /\ tx_event
                          \/ b = "RX_EVT" /\ rx_event
                          \/ b = "THRE" /\ thre}
RXTX == rx_reg

tx_irq == \/ tx_event /\ "TX_INT" \in irq_en
          \/ rx_event /\ "RX_INT" \in irq_en

jtag_we == Len(wfifo) < FifoDepth /\ ~thre
read_jtag == ~jtag_rd /\ rfifo # <<>> /\ ~rx_event

(* The transmit half of an edge.  A character handed to the FIFO sets thre *)
(* even when RXTX is written at the same edge, and an acknowledgement      *)
(* through STAT wins over a new event.                                     *)
ClockTx(w) ==
    /\ thre' = (jtag_we \/ (thre /\ w.reg # "RXTX"))
    /\ tx_reg' = IF w.reg = "RXTX" THEN w.char ELSE tx_reg
    /\ wfifo' = IF jtag_we THEN Append(wfifo, tx_reg) ELSE wfifo
    /\ tx_event' = ((tx_event \/ jtag_we) /\ ~(w.reg = "STAT" /\ "TX_EVT" \in w.bits))

(* The receive half.  A word is requested from the FIFO as soon as no      *)
(* event is pending, and lands in rx_reg one edge later.                   *)
ClockRx(w) ==
    /\ jtag_rd' = read_jtag
    /\ jtag_q' = IF read_jtag THEN Head(rfifo) ELSE jtag_q
    /\ rfifo' = IF read_jtag THEN Tail(rfifo) ELSE rfifo
    /\ rx_reg' = IF jtag_rd THEN jtag_q ELSE rx_reg
    /\ rx_event' = ((rx_event \/ jtag_rd) /\ ~(w.reg = "STAT" /\ "RX_EVT" \in w.bits))

Clock(w) ==
    /\ ClockTx(w)
    /\ ClockRx(w)
    /\ irq_en' = IF w.reg = "CTRL" THEN w.bits ELSE irq_en
    /\ UNCHANGED <<hostRx, hostTx>>

-----------------------------------------------------------------------------
(* The JTAG side: alt_jtag_atlantic, clocked by the host's cable.          *)
HostReceive ==
    /\ wfifo # <<>>
    /\ hostRx' = Append(hostRx, Head(wfifo))
    /\ wfifo' = Tail(wfifo)
    /\ UNCHANGED <<uartRegs, rfifo, hostTx>>

(* The n-th character the host sends is the number n. *)
HostSend ==
    /\ Len(rfifo) < FifoDepth
    /\ hostTx' = hostTx + 1
    /\ rfifo' = Append(rfifo, hostTx')
    /\ UNCHANGED <<uartRegs, wfifo, hostRx>>
=============================================================================
