------------------------------ MODULE UartStub ------------------------------
(***************************************************************************)
(* The debug stub, software/gdbstub/gdbstub.c, talking to gdb through the  *)
(* same UART core as the program it has interrupted (UartDriver): a debug  *)
(* exception between any two steps of the program or of its interrupt      *)
(* handler, the save of STAT, characters put and got by polling, and the   *)
(* return.  The characters the stub puts are 0; what they say is left out. *)
(***************************************************************************)
EXTENDS UartDriver

CONSTANT MaxStub            \* bound: characters the stub puts

ASSUME StubAssumption == MaxStub \in Nat

VARIABLES
    spc,                    \* the stub: where it is
    sstat,                  \* the STAT saved on entry
    answered,               \* a packet has been received and acknowledged
    stubPut,                \* history: characters put
    disturbed               \* history: a break came while a transmission was under way

stubVars == <<spc, sstat, answered, stubPut, disturbed>>
systemVars == <<vars, stubVars>>

StubPc == {"none", "thre", "stat", "loop", "poll", "get_clear", "get_read", "ack", "ret"}

StubTypeOK ==
    /\ DriverTypeOK
    /\ spc \in StubPc /\ sstat \in SUBSET StatBits
    /\ answered \in BOOLEAN /\ stubPut \in 0..MaxStub /\ disturbed \in BOOLEAN

StubInit == Init /\ spc = "none" /\ sstat = {} /\ answered = FALSE /\ stubPut = 0
            /\ disturbed = FALSE

(* A step of the stub: the program and its handler stand still. *)
StubAt(from, to) ==
    /\ spc = from /\ spc' = to
    /\ UNCHANGED <<ringVars, appVars, isrVars, histVars>>

Break ==
    /\ StubAt("none", "thre")
    /\ Clock(NoWrite) /\ IrqDebugException(Lines)
    /\ disturbed' = (disturbed \/ ~(pc = "run" /\ ipc = "none" /\ tx_cts))
    /\ answered' = FALSE
    /\ UNCHANGED <<sstat, stubPut>>

StubWaitThre ==
    /\ StubAt("thre", "stat") /\ "THRE" \in STAT
    /\ Cpu
    /\ UNCHANGED <<sstat, answered, stubPut, disturbed>>

StubSaveStat ==
    /\ StubAt("stat", "loop")
    /\ sstat' = STAT
    /\ Cpu
    /\ UNCHANGED <<answered, stubPut, disturbed>>

(* put_debug_char, for a reply or for the '+' after a packet. *)
StubPut ==
    /\ StubAt("loop", "poll") \/ StubAt("ack", "poll")
    /\ stubPut < MaxStub
    /\ Bus(WriteRXTX(0))
    /\ stubPut' = stubPut + 1
    /\ answered' = (answered \/ spc = "ack")
    /\ UNCHANGED <<sstat, disturbed>>

(* Mutant: THRE is not polled. *)
StubPoll_NoWait ==
    /\ StubAt("poll", "loop")
    /\ Cpu
    /\ UNCHANGED <<sstat, answered, stubPut, disturbed>>

StubPoll ==
    /\ StubAt("poll", "loop") /\ "THRE" \in STAT
    /\ Cpu
    /\ UNCHANGED <<sstat, answered, stubPut, disturbed>>

(* get_debug_char: more of the packet, or the end of it. *)
StubGet ==
    /\ StubAt("loop", "get_clear") /\ "RX_EVT" \in STAT
    /\ Cpu
    /\ UNCHANGED <<sstat, answered, stubPut, disturbed>>

StubGetClear ==
    /\ StubAt("get_clear", "get_read")
    /\ Bus(WriteSTAT({"RX_EVT"}))
    /\ UNCHANGED <<sstat, answered, stubPut, disturbed>>

StubGetRead ==
    /\ StubAt("get_read", "loop") \/ StubAt("get_read", "ack")
    /\ Cpu
    /\ UNCHANGED <<sstat, answered, stubPut, disturbed>>

(* CSR_UART_STAT = stat & UART_STAT_TX_EVT *)
StubExit ==
    /\ StubAt("loop", "ret") /\ answered
    /\ Bus(WriteSTAT(sstat \cap {"TX_EVT"}))
    /\ UNCHANGED <<sstat, answered, stubPut, disturbed>>

StubReturn ==
    /\ StubAt("ret", "none")
    /\ Clock(NoWrite) /\ IrqBret(Lines)
    /\ UNCHANGED <<sstat, answered, stubPut, disturbed>>

Stub == \/ StubWaitThre \/ StubSaveStat \/ StubPut \/ StubPoll \/ StubGet \/ StubGetClear
        \/ StubGetRead \/ StubExit \/ StubReturn

(* The program only moves while the stub does not. *)
Program == spc = "none" /\ (AppStep \/ AppCall \/ Isr) /\ UNCHANGED stubVars
Environment == (Stall \/ DriverHostReceive \/ DriverHostSend) /\ UNCHANGED stubVars

StubNext == Program \/ Environment \/ Break \/ Stub

StubSpec == StubInit /\ [][StubNext]_systemVars
-----------------------------------------------------------------------------
(* The program's characters come through a debug session unharmed when it  *)
(* starts while no transmission is under way: the stub leaves no event, no *)
(* character in the holding register and no permission behind that makes   *)
(* the driver lose, repeat or reorder one, and mixes its own in between.   *)
TxStreamThroughStub ==
    ~disturbed => Delivers(hostRx \o TxPath, sent, txDropped, {0})

(* Neither the program nor the stub writes RXTX over a character, and      *)
(* after such a session the driver still never waits for an event that     *)
(* will not come.                                                          *)
NoOverrunNorStall ==
    /\ spc \in {"loop", "ack"} => thre
    /\ spc = "none" /\ ~disturbed => NoOverrun /\ NoStall

(* The stub runs with interrupts off and gives them back as it found them, *)
(* also when it has interrupted the interrupt handler, whose own return    *)
(* must enable them again.                                                 *)
InterruptsRestored ==
    LET on == ipc = "none" /\ pc \notin {"init_ie", "rb_id", "rb_spin"} IN
    /\ IF spc = "none" THEN ie = on ELSE ~ie /\ bie = on
    /\ ipc # "none" => eie

(* "If there was a transmission in progress, the event bit will be set. In *)
(* this case, the gdbstub won't clear it" (gdbstub.c:699).                 *)
StubKeepsTxEvent == spc = "ret" /\ "TX_EVT" \in sstat => tx_event
=============================================================================
