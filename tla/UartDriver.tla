----------------------------- MODULE UartDriver -----------------------------
(***************************************************************************)
(* The interrupt-driven UART driver of software/libbase/uart.c running on  *)
(* the CPU (Lm32Interrupt) over the UART core (Uart), under the interrupt  *)
(* dispatch of software/bios/isr.c and the start-up of bios/main.c.        *)
(*                                                                         *)
(* Every step of the CPU takes at least one clock edge, so each CPU action *)
(* is a step of the program together with an edge of the core; Stall is an *)
(* edge at which the CPU is between two of the steps shown here.           *)
(***************************************************************************)
EXTENDS Uart, Lm32Interrupt, SequencesExt

CONSTANTS
    RingSizeRX, RingSizeTX, \* UART_RINGBUFFER_SIZE_RX and _TX (128 in uart.c)
    MaxTx, MaxRx            \* bounds: characters written, characters the host sends

ASSUME RingAssumption == /\ RingSizeRX \in Nat \ {0} /\ RingSizeTX \in Nat \ {0}
                         /\ MaxTx \in Nat /\ MaxRx \in Nat
ASSUME IrqAssumption == "UART" \in Irqs

VARIABLES
    rx_buf, rx_produce, rx_consume,
    tx_buf, tx_produce, tx_consume, tx_cts,
    force_sync,
    pc, ch, oldmask,        \* the application: where it is, its locals
    ipc, stat,              \* the interrupt handler: where it is, its local
    sent,                   \* history: characters accepted by uart_write
    got,                    \* history: characters returned by uart_read
    txDropped, rxDropped,   \* history: characters a ring overflow discarded
    rxFault                 \* history: how the receive path went wrong, if it did

ringVars == <<rx_buf, rx_produce, rx_consume, tx_buf, tx_produce, tx_consume, tx_cts>>
appVars == <<pc, ch, oldmask, force_sync>>
isrVars == <<ipc, stat>>
histVars == <<sent, got, txDropped, rxDropped, rxFault>>
vars == <<uartVars, irqVars, ringVars, appVars, isrVars, histVars>>

AppPc == {"init_ie", "init_vars", "init_ack", "init_stat", "init_stat2", "init_ctrl",
          "init_mask", "run", "w_test", "w_rxtx", "w_ring", "w_sync", "w_poll",
          "w_restore", "r_wait", "r_adv", "fs_wait", "rb_wait", "rb_mask", "rb_ie", "rb_id", "rb_spin"}
IsrPc == {"none", "stat", "clear", "rx", "tx", "ack", "eret"}

DriverVarsOK ==
    /\ rx_buf \in [0..RingSizeRX-1 -> Char] /\ tx_buf \in [0..RingSizeTX-1 -> Char]
    /\ rx_produce \in 0..RingSizeRX-1 /\ rx_consume \in 0..RingSizeRX-1
    /\ tx_produce \in 0..RingSizeTX-1 /\ tx_consume \in 0..RingSizeTX-1
    /\ tx_cts \in BOOLEAN /\ force_sync \in BOOLEAN
    /\ pc \in AppPc /\ ch \in Char /\ oldmask \in SUBSET Irqs
    /\ ipc \in IsrPc /\ stat \in SUBSET StatBits
    /\ sent \in Nat /\ got \in Seq(Char)
    /\ txDropped \in SUBSET Char /\ rxDropped \in SUBSET Char
    /\ rxFault \in SUBSET {"clobbered", "overtaken"}

DriverTypeOK == UartTypeOK /\ IrqTypeOK /\ DriverVarsOK

(* Reset released, BSS cleared by crt0, main() past irq_setmask(0). *)
Init ==
    /\ UartInit /\ IrqInit
    /\ rx_buf = [i \in 0..RingSizeRX-1 |-> 0] /\ tx_buf = [i \in 0..RingSizeTX-1 |-> 0]
    /\ rx_produce = 0 /\ rx_consume = 0 /\ tx_produce = 0 /\ tx_consume = 0
    /\ tx_cts = FALSE /\ force_sync = FALSE
    /\ pc = "init_ie" /\ ch = 0 /\ oldmask = {}
    /\ ipc = "none" /\ stat = {}
    /\ sent = 0 /\ got = <<>> /\ txDropped = {} /\ rxDropped = {}
    /\ rxFault = {}

-----------------------------------------------------------------------------
(* The two rings.  "& MASK" of the source is % for a power of two. *)
(* Mutant: the index is not masked. *)
NextRX_Unmasked(i) == i + 1

NextRX(i) == (i + 1) % RingSizeRX
(* Mutant: the index is not masked. *)
NextTX_Unmasked(i) == i + 1
NextTX(i) == (i + 1) % RingSizeTX

RingContents(buf, size, produce, consume) ==
    [i \in 1..((produce + size - consume) % size) |-> buf[(consume + i - 1) % size]]
TxRing == RingContents(tx_buf, RingSizeTX, tx_produce, tx_consume)
RxRing == RingContents(rx_buf, RingSizeRX, rx_produce, rx_consume)

Lines == IF tx_irq THEN {"UART"} ELSE {}

(* A step of the CPU: what it writes to the core, and one edge of both. *)
Bus(w) == Clock(w) /\ IrqIdle(Lines)
Cpu == Bus(NoWrite)

(* The application only runs while no handler does and none is due. *)
App(from) == pc = from /\ ipc = "none" /\ ~interrupt_exception
Goto(to) == pc' = to
-----------------------------------------------------------------------------
(* main: irq_enable(1), then uart_init. *)
InitIE == /\ App("init_ie") /\ Goto("init_vars")
          /\ Clock(NoWrite) /\ WcsrIE(Lines, TRUE)
          /\ UNCHANGED <<ringVars, ch, oldmask, force_sync, isrVars, histVars>>

InitVars == /\ App("init_vars") /\ Goto("init_ack")
            /\ rx_produce' = 0 /\ rx_consume' = 0
            /\ tx_produce' = 0 /\ tx_consume' = 0 /\ tx_cts' = TRUE
            /\ Cpu
            /\ UNCHANGED <<rx_buf, tx_buf, ch, oldmask, force_sync, isrVars, histVars>>

InitAck == /\ App("init_ack") /\ Goto("init_stat")
           /\ Clock(NoWrite) /\ WcsrIP(Lines, {"UART"})
           /\ UNCHANGED <<ringVars, ch, oldmask, force_sync, isrVars, histVars>>

(* CSR_UART_STAT = CSR_UART_STAT: a read, then a write of what was read,   *)
(* which discards the character whose event it acknowledges.               *)
InitStatRead == /\ App("init_stat") /\ Goto("init_stat2")
                /\ stat' = STAT
                /\ Cpu
                /\ UNCHANGED <<ringVars, ch, oldmask, force_sync, ipc, histVars>>

InitStatWrite == /\ App("init_stat2") /\ Goto("init_ctrl")
                 /\ Bus(WriteSTAT(stat))
                 /\ rxDropped' = IF "RX_EVT" \in stat THEN rxDropped \cup {rx_reg} ELSE rxDropped
                 /\ UNCHANGED <<ringVars, ch, oldmask, force_sync, isrVars, sent, got, txDropped, rxFault>>

InitCtrl == /\ App("init_ctrl") /\ Goto("init_mask")
            /\ Bus(WriteCTRL({"TX_INT", "RX_INT"}))
            /\ UNCHANGED <<ringVars, ch, oldmask, force_sync, isrVars, histVars>>

InitMask == /\ App("init_mask") /\ Goto("run")
            /\ Clock(NoWrite) /\ WcsrIM(Lines, im \cup {"UART"})
            /\ UNCHANGED <<ringVars, ch, oldmask, force_sync, isrVars, histVars>>
-----------------------------------------------------------------------------
(* uart_write: masks every interrupt, then hands the character to the core *)
(* if the core is clear to send, else to the ring, which it never tests    *)
(* for being full.                                                         *)
(* Mutant: the interrupts are not masked. *)
WriteCall_Unmasked ==
    /\ App("run") /\ sent < MaxTx /\ Goto("w_test")
    /\ ch' = sent + 1
    /\ oldmask' = im
    /\ Cpu
    /\ UNCHANGED <<ringVars, force_sync, isrVars, histVars>>

WriteCall == /\ App("run") /\ sent < MaxTx /\ Goto("w_test")
             /\ ch' = sent + 1
             /\ oldmask' = im
             /\ Clock(NoWrite) /\ WcsrIM(Lines, {})
             /\ UNCHANGED <<ringVars, force_sync, isrVars, histVars>>

WriteSync == /\ App("w_test") /\ force_sync /\ Goto("w_sync")
             /\ sent' = ch
             /\ Cpu
             /\ UNCHANGED <<ringVars, ch, oldmask, force_sync, isrVars, got, txDropped, rxDropped, rxFault>>

(* Mutant: tx_cts is not taken. *)
WriteDirect_KeepCts ==
    /\ App("w_test") /\ ~force_sync /\ tx_cts /\ Goto("w_rxtx")
    /\ sent' = ch
    /\ Cpu
    /\ UNCHANGED <<ringVars, ch, oldmask, force_sync, isrVars, got, txDropped, rxDropped, rxFault>>

WriteDirect == /\ App("w_test") /\ ~force_sync /\ tx_cts /\ Goto("w_rxtx")
               /\ tx_cts' = FALSE
               /\ sent' = ch
               /\ Cpu
               /\ UNCHANGED <<rx_buf, rx_produce, rx_consume, tx_buf, tx_produce, tx_consume,
                              ch, oldmask, force_sync, isrVars, got, txDropped, rxDropped, rxFault>>

WriteTest == /\ App("w_test") /\ ~force_sync /\ ~tx_cts /\ Goto("w_ring")
             /\ Cpu
             /\ UNCHANGED <<ringVars, ch, oldmask, force_sync, isrVars, histVars>>

(* Mutant: tx_produce is advanced before the store. *)
WriteRing_AdvanceFirst ==
    /\ App("w_ring") /\ Goto("w_restore")
    /\ tx_buf' = [tx_buf EXCEPT ![NextTX(tx_produce)] = ch]
    /\ tx_produce' = NextTX(tx_produce)
    /\ sent' = ch
    /\ Cpu
    /\ UNCHANGED <<rx_buf, rx_produce, rx_consume, tx_consume, tx_cts, ch, oldmask, force_sync,
                   isrVars, got, txDropped, rxDropped, rxFault>>

WriteRing == /\ App("w_ring") /\ Goto("w_restore")
             /\ tx_buf' = [tx_buf EXCEPT ![tx_produce] = ch]
             /\ tx_produce' = NextTX(tx_produce)
             /\ sent' = ch
             /\ txDropped' = IF NextTX(tx_produce) = tx_consume
                             THEN txDropped \cup Range(TxRing) \cup {ch} ELSE txDropped
             /\ Cpu
             /\ UNCHANGED <<rx_buf, rx_produce, rx_consume, tx_consume, tx_cts,
                            ch, oldmask, force_sync, isrVars, got, rxDropped, rxFault>>

WriteRegister == /\ \/ App("w_rxtx") /\ Goto("w_restore")
                    \/ App("w_sync") /\ Goto("w_poll")
                 /\ Bus(WriteRXTX(ch))
                 /\ UNCHANGED <<ringVars, ch, oldmask, force_sync, isrVars, histVars>>

WritePoll == /\ App("w_poll") /\ "THRE" \in STAT /\ Goto("w_restore")
             /\ Cpu
             /\ UNCHANGED <<ringVars, ch, oldmask, force_sync, isrVars, histVars>>

(* Mutant: the mask stays cleared. *)
WriteRestore_Masked ==
    /\ App("w_restore") /\ Goto("run")
    /\ Clock(NoWrite) /\ WcsrIM(Lines, {})
    /\ UNCHANGED <<ringVars, ch, oldmask, force_sync, isrVars, histVars>>

WriteRestore == /\ App("w_restore") /\ Goto("run")
                /\ Clock(NoWrite) /\ WcsrIM(Lines, oldmask)
                /\ UNCHANGED <<ringVars, ch, oldmask, force_sync, isrVars, histVars>>
-----------------------------------------------------------------------------
(* uart_read: spins until the ring holds something, then takes it in two   *)
(* steps, the read of the buffer and the advance of rx_consume.            *)
ReadCall == /\ App("run") /\ Goto("r_wait")
            /\ Cpu
            /\ UNCHANGED <<ringVars, ch, oldmask, force_sync, isrVars, histVars>>

(* Mutant: an empty ring is not waited for. *)
ReadChar_NoWait ==
    /\ App("r_wait") /\ Goto("r_adv")
    /\ ch' = rx_buf[rx_consume]
    /\ Cpu
    /\ UNCHANGED <<ringVars, oldmask, force_sync, isrVars, histVars>>

ReadChar == /\ App("r_wait") /\ rx_consume # rx_produce /\ Goto("r_adv")
            /\ ch' = rx_buf[rx_consume]
            /\ Cpu
            /\ UNCHANGED <<ringVars, oldmask, force_sync, isrVars, histVars>>

ReadAdvance == /\ App("r_adv") /\ Goto("run")
               /\ rx_consume' = NextRX(rx_consume)
               /\ got' = Append(got, ch)
               /\ Cpu
               /\ UNCHANGED <<rx_buf, rx_produce, tx_buf, tx_produce, tx_consume, tx_cts,
                              ch, oldmask, force_sync, isrVars, sent, txDropped, rxDropped, rxFault>>

(* uart_force_sync(f): f = 1 first waits for the transmitter. *)
ForceSyncOn == /\ App("run") /\ Goto("fs_wait")
               /\ Cpu
               /\ UNCHANGED <<ringVars, ch, oldmask, force_sync, isrVars, histVars>>

(* Mutant: the transmitter is not waited for. *)
ForceSyncSet_NoWait ==
    /\ \/ App("fs_wait") /\ Goto("run")
       \/ App("rb_wait") /\ Goto("rb_mask")
    /\ force_sync' = TRUE
    /\ Cpu
    /\ UNCHANGED <<ringVars, ch, oldmask, isrVars, histVars>>

ForceSyncSet == /\ \/ App("fs_wait") /\ Goto("run")
                   \/ App("rb_wait") /\ Goto("rb_mask")
                /\ tx_cts
                /\ force_sync' = TRUE
                /\ Cpu
                /\ UNCHANGED <<ringVars, ch, oldmask, isrVars, histVars>>

ForceSyncOff == /\ App("run") /\ Goto("run")
                /\ force_sync' = FALSE
                /\ Cpu
                /\ UNCHANGED <<ringVars, ch, oldmask, isrVars, histVars>>

(* reboot: uart_force_sync(1), interrupts off, then a write to             *)
(* CSR_SYSTEM_ID, an address cores/sysctl/sysctl.v does not decode.        *)
RebootCall == /\ App("run") /\ Goto("rb_wait")
              /\ Cpu
              /\ UNCHANGED <<ringVars, ch, oldmask, force_sync, isrVars, histVars>>

RebootMask == /\ App("rb_mask") /\ Goto("rb_ie")
              /\ Clock(NoWrite) /\ WcsrIM(Lines, {})
              /\ UNCHANGED <<ringVars, ch, oldmask, force_sync, isrVars, histVars>>

RebootIE == /\ App("rb_ie") /\ Goto("rb_id")
            /\ Clock(NoWrite) /\ WcsrIE(Lines, FALSE)
            /\ UNCHANGED <<ringVars, ch, oldmask, force_sync, isrVars, histVars>>

RebootWriteId == /\ App("rb_id") /\ Goto("rb_spin")
                 /\ Cpu
                 /\ UNCHANGED <<ringVars, ch, oldmask, force_sync, isrVars, histVars>>
-----------------------------------------------------------------------------
(* The interrupt is taken between two steps of the application; isr() then *)
(* finds the line pending and unmasked and calls uart_isr.                 *)
IsrAt(from, to) == ipc = from /\ ipc' = to /\ UNCHANGED appVars

IsrEnter == /\ IsrAt("none", "stat") /\ interrupt_exception
            /\ Clock(NoWrite) /\ IrqException(Lines)
            /\ UNCHANGED <<ringVars, stat, histVars>>

IsrReadStat == /\ IsrAt("stat", "clear")
               /\ stat' = STAT
               /\ Cpu
               /\ UNCHANGED <<ringVars, histVars>>

IsrClear == /\ IsrAt("clear", "rx")
            /\ Bus(WriteSTAT(stat))
            /\ UNCHANGED <<ringVars, stat, histVars>>

(* Mutant: rx_produce is advanced before the store. *)
IsrRx_AdvanceFirst ==
    /\ IsrAt("rx", "tx")
    /\ IF "RX_EVT" \in stat
       THEN /\ rx_buf' = [rx_buf EXCEPT ![NextRX(rx_produce)] = RXTX]
            /\ rx_produce' = NextRX(rx_produce)
       ELSE UNCHANGED <<rx_buf, rx_produce>>
    /\ Cpu
    /\ UNCHANGED <<rx_consume, tx_buf, tx_produce, tx_consume, tx_cts, stat, histVars>>

IsrRx == /\ IsrAt("rx", "tx")
         /\ IF "RX_EVT" \in stat
            THEN LET full == NextRX(rx_produce) = rx_consume IN
                 /\ rx_buf' = [rx_buf EXCEPT ![rx_produce] = RXTX]
                 /\ rx_produce' = NextRX(rx_produce)
                 /\ rxDropped' = IF full THEN rxDropped \cup Range(RxRing) \cup {RXTX} ELSE rxDropped
                 /\ rxFault' = IF full /\ pc = "r_adv" THEN rxFault \cup {"overtaken"} ELSE rxFault
            ELSE UNCHANGED <<rx_buf, rx_produce, rxDropped, rxFault>>
         /\ Cpu
         /\ UNCHANGED <<rx_consume, tx_buf, tx_produce, tx_consume, tx_cts, stat,
                        sent, got, txDropped>>

(* Nothing to send on: either no event, or the ring is empty and the       *)
(* transmitter becomes free for uart_write.                                *)
IsrTxIdle == /\ IsrAt("tx", "ack")
             /\ "TX_EVT" \in stat => tx_produce = tx_consume
             /\ tx_cts' = (tx_cts \/ "TX_EVT" \in stat)
             /\ Cpu
             /\ UNCHANGED <<rx_buf, rx_produce, rx_consume, tx_buf, tx_produce, tx_consume,
                            stat, histVars>>

IsrTxNext == /\ IsrAt("tx", "ack")
             /\ "TX_EVT" \in stat /\ tx_produce # tx_consume
             /\ Bus(WriteRXTX(tx_buf[tx_consume]))
             /\ tx_consume' = NextTX(tx_consume)
             /\ UNCHANGED <<rx_buf, rx_produce, rx_consume, tx_buf, tx_produce, tx_cts,
                            stat, histVars>>

IsrAck == /\ IsrAt("ack", "eret")
          /\ Clock(NoWrite) /\ WcsrIP(Lines, {"UART"})
          /\ UNCHANGED <<ringVars, stat, histVars>>

IsrEret == /\ IsrAt("eret", "none")
           /\ Clock(NoWrite) /\ IrqEret(Lines)
           /\ UNCHANGED <<ringVars, stat, histVars>>
-----------------------------------------------------------------------------
(* An edge at which the CPU completes nothing, and the two host actions. *)
(* The core refetches as soon as the RX event is acknowledged, so such an  *)
(* edge may replace rx_reg before uart_isr has read it.                    *)
Stall == /\ Cpu
         /\ rxFault' = IF jtag_rd /\ ipc = "rx" /\ "RX_EVT" \in stat
                       THEN rxFault \cup {"clobbered"} ELSE rxFault
         /\ UNCHANGED <<ringVars, appVars, isrVars, sent, got, txDropped, rxDropped>>

DriverUnchanged == UNCHANGED <<irqVars, ringVars, appVars, isrVars, histVars>>

DriverHostReceive == HostReceive /\ DriverUnchanged

DriverHostSend == HostSend /\ DriverUnchanged /\ hostTx < MaxRx

InitStep == InitIE \/ InitVars \/ InitAck \/ InitStatRead \/ InitStatWrite \/ InitCtrl \/ InitMask
WriteStep == WriteSync \/ WriteDirect \/ WriteTest \/ WriteRing \/ WriteRegister \/ WritePoll
             \/ WriteRestore
ReadStep == ReadChar \/ ReadAdvance
SyncStep == ForceSyncSet \/ RebootMask \/ RebootIE \/ RebootWriteId
Isr == IsrEnter \/ IsrReadStat \/ IsrClear \/ IsrRx \/ IsrTxIdle \/ IsrTxNext \/ IsrAck \/ IsrEret

(* What the application has started it goes on with; new calls are its     *)
(* own choice.                                                             *)
AppStep == InitStep \/ WriteStep \/ ReadStep \/ SyncStep
AppCall == WriteCall \/ ReadCall \/ ForceSyncOn \/ ForceSyncOff \/ RebootCall

Next == AppStep \/ AppCall \/ Isr \/ Stall \/ DriverHostReceive \/ DriverHostSend

Spec == Init /\ [][Next]_vars

(* The clock runs, the CPU executes, and the host drains its FIFO. *)
Fairness == /\ WF_vars(AppStep) /\ WF_vars(Isr) /\ WF_vars(Stall)
            /\ WF_vars(DriverHostReceive)
FairSpec == Spec /\ Fairness
-----------------------------------------------------------------------------
(* The characters between uart_write and the host, the oldest first: the   *)
(* FIFO, the holding register, the ring, and the one being written.        *)
Thr == IF thre THEN <<>> ELSE <<tx_reg>>
TxPath == wfifo \o Thr \o TxRing \o (IF pc \in {"w_rxtx", "w_sync"} THEN <<ch>> ELSE <<>>)

(* A stream of the characters 1 .. n, in order, without the lost ones; any *)
(* number of characters of somebody else may be among them.                *)
Delivers(s, n, lost, others) ==
    /\ \A i, j \in 1..Len(s) : i < j /\ s[i] \notin others /\ s[j] \notin others => s[i] < s[j]
    /\ Range(s) \ others = (1..n) \ lost

(* The transmit path neither loses, duplicates nor reorders a character,   *)
(* whatever the interleaving of uart_write, uart_isr and the core, but for *)
(* those a full ring discards: what the host got and what is on its way is *)
(* all that was written, in order, without the discarded ones.             *)
TxStream == Delivers(hostRx \o TxPath, sent, txDropped, {})

(* RXTX is never written while the holding register is full, neither by    *)
(* uart_write (tx_cts is its permission), nor by the forced path, nor by   *)
(* uart_isr (the TX event is its permission): the core would lose one of   *)
(* the two characters.                                                     *)
NoOverrun ==
    \/ pc \in {"w_rxtx", "w_sync"}
    \/ ipc = "tx" /\ "TX_EVT" \in stat /\ tx_produce # tx_consume
    => thre

(* The transmitter never stalls: when a character waits in the ring or     *)
(* uart_write is not clear to send, the holding register is full, its      *)
(* event is pending, or a handler that acknowledged the event is about to  *)
(* act on it.                                                              *)
NoStall ==
    (tx_produce # tx_consume \/ ~tx_cts) /\ pc \notin {"init_ie", "init_vars", "w_rxtx"} =>
        \/ ~thre
        \/ tx_event
        \/ ipc \in {"rx", "tx"} /\ "TX_EVT" \in stat

(* Once reboot has passed uart_force_sync(1) ("flush UART buffers") no     *)
(* character is left in the ring or the holding register.                  *)
FlushedOnReboot ==
    pc \in {"rb_mask", "rb_ie", "rb_id", "rb_spin"} => thre /\ TxRing = <<>>

(* The characters between the host and uart_read, the oldest first: the    *)
(* ring, the one uart_isr has acknowledged or still has to, the word the   *)
(* FIFO returns and the FIFO.                                              *)
RxHeld == \/ rx_event
          \/ ipc = "rx" /\ "RX_EVT" \in stat
RxPath == RxRing \o (IF RxHeld THEN <<rx_reg>> ELSE <<>>)
          \o (IF jtag_rd THEN <<jtag_q>> ELSE <<>>) \o rfifo

RxStreamIntact == Delivers(got \o RxPath, hostTx, rxDropped, {})

(* The receive path delivers every character once and in order, but for    *)
(* those a full ring discards, unless one of two things has happened: the  *)
(* core refetched between uart_isr's acknowledgement and its read, or the  *)
(* ring filled up between the two steps of uart_read, where what it        *)
(* discards depends on which of the two advances first.                    *)
RxStream == rxFault = {} => RxStreamIntact

(* Milkymist's driver, "uart.c:2", acknowledges the event and reads RXTX   *)
(* after; a core "compatiable with Milkymist's UART" (uart.v:5) holds the  *)
(* character in RXTX until then.                                           *)
RxHeldUntilRead == "clobbered" \notin rxFault

(* "RX functions are written in such a way that they do not require        *)
(* locking" (uart.c:26): whatever uart_isr does between the steps of       *)
(* uart_read, even when it overruns the ring, no character is returned     *)
(* after a later one.                                                      *)
RxOrdered == \A i, j \in DOMAIN got : i < j => got[i] <= got[j]

(* uart_write, the ring, uart_isr, the core and its FIFO together are a    *)
(* ByteStream: the transmit interrupt is never lost, so what is waiting is *)
(* eventually received by the host, and a full ring costs exactly the      *)
(* characters the ring held and the one being written.                     *)
Stream == INSTANCE ByteStream WITH
            Burst <- RingSizeTX - 1,
            accepted <- sent, queue <- TxPath, out <- hostRx, lost <- txDropped
TxRefinesStream == Stream!StreamSpec

(* reboot, as system.c:54 has it: "Writing to CSR_SYSTEM_ID causes a       *)
(* system reset", which starts over at the reset handler.                  *)
RebootResets == pc = "rb_id" ~> pc = "init_ie"
=============================================================================
