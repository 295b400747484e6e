------------------------- MODULE EthernetTestProofs -------------------------
(***************************************************************************)
(* Theorems about EthernetTest, for any servers, times and bounds.         *)
(***************************************************************************)
EXTENDS EthernetTest, SequenceTheorems, FiniteSetTheorems, TLAPS

(* What the steps of the innermost call do to the stack: it goes on, it    *)
(* returns, or it calls; the others stay.                                  *)
Frames == [at : Pcs, tries : Int, timeout : Int]

(* The innermost call is replaced.                                          *)
LEMMA ReplaceStack ==
    ASSUME stack \in Seq(Frames), Len(stack) >= 1, NEW top \in Frames,
           stack' = [stack EXCEPT ![Len(stack)] = top]
    PROVE  /\ stack' \in Seq(Frames) /\ Len(stack') = Len(stack)
           /\ \A i \in 1..Len(stack)-1 : stack'[i] = stack[i]
           /\ stack'[Len(stack)] = top
<1>1. Len(stack) \in Nat /\ Len(stack) \in 1..Len(stack)
  BY LenProperties
<1> QED
  BY <1>1, ExceptSeq

(* The innermost call goes on: it is replaced.                              *)
LEMMA GotoReplaces ==
    ASSUME stack \in Seq(Frames), Len(stack) >= 1, NEW pc \in Pcs, Goto(pc)
    PROVE  /\ [Top EXCEPT !.at = pc] \in Frames /\ [Top EXCEPT !.at = pc].at = pc
           /\ stack' = [stack EXCEPT ![Len(stack)] = [Top EXCEPT !.at = pc]]
<1>1. Len(stack) \in Nat /\ Len(stack) \in 1..Len(stack) /\ Top \in Frames
  BY LenProperties, ElementOfSeq DEF Top
<1>2. [Top EXCEPT !.at = pc] \in Frames /\ [Top EXCEPT !.at = pc].at = pc
  BY <1>1 DEF Frames
<1> QED
  BY <1>2 DEF Goto, Top

(* So the others stay.                                                      *)
LEMMA GotoStack ==
    ASSUME stack \in Seq(Frames), Len(stack) >= 1, NEW pc \in Pcs, Goto(pc)
    PROVE  /\ stack' \in Seq(Frames) /\ Len(stack') = Len(stack)
           /\ \A i \in 1..Len(stack)-1 : stack'[i] = stack[i]
           /\ stack'[Len(stack)].at = pc
<1> DEFINE top == [Top EXCEPT !.at = pc]
<1>1. top \in Frames /\ top.at = pc /\ stack' = [stack EXCEPT ![Len(stack)] = top]
  BY GotoReplaces
<1> HIDE DEF top
<1> QED
  BY <1>1, ReplaceStack

(* The innermost call returns.                                              *)
LEMMA ReturnStack ==
    ASSUME stack \in Seq(Frames), Len(stack) >= 2, Return
    PROVE  /\ stack' \in Seq(Frames) /\ Len(stack') = Len(stack) - 1
           /\ \A i \in 1..Len(stack)-1 : stack'[i] = stack[i]
<1>1. Len(stack) \in Nat
  BY LenProperties
<1>2. stack' = SubSeq(stack, 1, Len(stack)-1)
  BY DEF Return, Front
<1> QED
  BY <1>1, <1>2, SubSeqProperties

(* What a concatenation of stacks holds.                                    *)
LEMMA ConcatStack ==
    ASSUME NEW a \in Seq(Frames), NEW b \in Seq(Frames)
    PROVE  /\ a \o b \in Seq(Frames) /\ Len(a \o b) = Len(a) + Len(b)
           /\ \A i \in 1..Len(a) : (a \o b)[i] = a[i]
           /\ \A i \in 1..Len(b) : (a \o b)[Len(a) + i] = b[i]
<1> DEFINE F == Frames
<1> HIDE DEF F
<1>1. a \in Seq(F) /\ b \in Seq(F)
  BY DEF F
<1>2. /\ a \o b \in Seq(F) /\ Len(a \o b) = Len(a) + Len(b)
      /\ \A i \in 1..Len(a) + Len(b) : (a \o b)[i] = IF i <= Len(a) THEN a[i] ELSE b[i - Len(a)]
  BY <1>1, ConcatProperties
<1>3. Len(a) \in Nat /\ Len(b) \in Nat
  BY <1>1, LenProperties
<1>4. a \o b \in Seq(Frames)
  BY <1>2 DEF F
<1>5. \A i \in 1..Len(b) : (a \o b)[Len(a) + i] = b[i]
  <2> TAKE i \in 1..Len(b)
  <2>1. Len(a) + i \in 1..Len(a) + Len(b) /\ ~(Len(a) + i <= Len(a)) /\ (Len(a) + i) - Len(a) = i
    BY <1>3
  <2> QED BY <2>1, <1>2
<1> QED BY <1>2, <1>3, <1>4, <1>5

(* The innermost call goes on at pc when those it calls have returned.      *)
LEMMA CallStack ==
    ASSUME stack \in Seq(Frames), Len(stack) >= 1, NEW pc \in Pcs,
           NEW pcs \in Seq(Pcs), CallTo(pcs, pc)
    PROVE  /\ stack' \in Seq(Frames) /\ Len(stack') = Len(stack) + Len(pcs)
           /\ \A i \in 1..Len(stack)-1 : stack'[i] = stack[i]
           /\ stack'[Len(stack)].at = pc
           /\ \A i \in 1..Len(pcs) : stack'[Len(stack) + i].at = pcs[i]
           /\ stack'[Len(stack)] = [Top EXCEPT !.at = pc]
           /\ \A i \in 1..Len(pcs) : stack'[Len(stack) + i] = New(pcs[i])
<1> DEFINE top == [Top EXCEPT !.at = pc]
           below == [stack EXCEPT ![Len(stack)] = top]
           called == [i \in 1..Len(pcs) |-> New(pcs[i])]
<1>1. Len(stack) \in Nat /\ Len(stack) \in 1..Len(stack) /\ Top \in Frames
      /\ Len(pcs) \in Nat /\ DOMAIN pcs = 1..Len(pcs)
  BY LenProperties, ElementOfSeq DEF Top
<1>2. top \in Frames /\ top.at = pc
  BY <1>1 DEF Frames
<1>3. stack' = below \o called
  BY <1>1 DEF CallTo, Top
<1>4. below \in Seq(Frames) /\ Len(below) = Len(stack) /\ below[Len(stack)] = top
      /\ \A i \in 1..Len(stack)-1 : below[i] = stack[i]
  <2> HIDE DEF top
  <2> QED BY <1>1, <1>2, ExceptSeq
<1>5. called \in [1..Len(pcs) -> Frames] /\ \A i \in 1..Len(pcs) : called[i].at = pcs[i] /\ called[i] = New(pcs[i])
  BY <1>1, ElementOfSeq DEF New, Frames
<1>6. called \in Seq(Frames) /\ Len(called) = Len(pcs)
  <2> HIDE DEF called
  <2>1. called \in Seq(Frames)
    BY <1>1, <1>5, SeqDef
  <2> QED
    BY <2>1, <1>1, <1>5, LenProperties
<1> HIDE DEF below, called
<1> HIDE DEF top
<1>7. /\ below \o called \in Seq(Frames) /\ Len(below \o called) = Len(below) + Len(called)
      /\ \A i \in 1..Len(below) : (below \o called)[i] = below[i]
      /\ \A i \in 1..Len(called) : (below \o called)[Len(below) + i] = called[i]
  BY <1>4, <1>6, ConcatStack
<1>8. /\ stack' \in Seq(Frames) /\ Len(stack') = Len(stack) + Len(pcs)
      /\ \A i \in 1..Len(stack)-1 : stack'[i] = stack[i]
      /\ stack'[Len(stack)].at = pc /\ stack'[Len(stack)] = top
      /\ \A i \in 1..Len(pcs) : stack'[Len(stack) + i].at = pcs[i] /\ stack'[Len(stack) + i] = New(pcs[i])
  BY <1>1, <1>2, <1>3, <1>4, <1>5, <1>6, <1>7
<1> QED
  BY <1>8 DEF top
-----------------------------------------------------------------------------
DelayPcs == {"delay", "compare", "control", "wait"}
RestPcs == {"dhcp_boot", "discover_send", "boot_loop", "loop"}
NetPcs == Pcs \ (MainPcs \cup DelayPcs)
Main0 == stack[1].at

(* What main may have called where it is.                                  *)
StackInv ==
    /\ stack \in Seq(Frames) /\ Len(stack) >= 1 /\ Main0 \in MainPcs
    /\ \/ Len(stack) = 1
       \/ Main0 \in {"unreset", "disable_1000"} /\ Len(stack) = 2 /\ stack[2].at \in DelayPcs
       \/ Main0 \in RestPcs /\ \A i \in 2..Len(stack) : stack[i].at \in NetPcs

NetCode == Resolve \/ Try \/ Poll \/ Check \/ Service \/ RequestSend

(* Code below the main loop is called from there; it calls, and returns to *)
(* where it was called.                                                    *)
LEMMA NetBelowMain ==
    ASSUME StackInv, Top.at \in NetPcs
    PROVE  /\ Len(stack) \in Nat /\ Len(stack) >= 2 /\ Main0 \in RestPcs
           /\ Top \in Frames
           /\ \A i \in 2..Len(stack) : stack[i].at \in NetPcs
<1>1. Len(stack) \in Nat /\ Top \in Frames
  BY LenProperties, ElementOfSeq DEF StackInv, Top
<1> QED
  BY <1>1 DEF StackInv, Top, NetPcs, Main0

(* The network code replaces its call.                                      *)
LEMMA NetReplaces ==
    ASSUME StackInv, Top.at \in NetPcs, NEW top \in Frames, top.at \in NetPcs,
           stack' = [stack EXCEPT ![Len(stack)] = top]
    PROVE  StackInv' /\ Main0' = Main0
<1>1. stack \in Seq(Frames) /\ Len(stack) >= 1
  BY DEF StackInv
<1> QED
  BY <1>1, NetBelowMain, ReplaceStack DEF StackInv, Main0

(* The network code goes on.                                                *)
LEMMA NetGoes ==
    ASSUME StackInv, Top.at \in NetPcs, NEW pc \in NetPcs, Goto(pc)
    PROVE  StackInv' /\ Main0' = Main0
<1>1. stack \in Seq(Frames) /\ Len(stack) >= 1 /\ pc \in Pcs
  BY DEF StackInv, NetPcs
<1> QED
  BY <1>1, NetBelowMain, GotoStack DEF StackInv, Main0

(* The network code returns.                                                *)
LEMMA NetReturns ==
    ASSUME StackInv, Top.at \in NetPcs, Return
    PROVE  StackInv' /\ Main0' = Main0
<1>1. stack \in Seq(Frames) /\ Len(stack) >= 2
  BY NetBelowMain DEF StackInv
<1> QED
  BY <1>1, NetBelowMain, ReturnStack DEF StackInv, Main0

(* The network code calls network code.                                     *)
LEMMA NetCalls ==
    ASSUME StackInv, Top.at \in NetPcs, NEW pc \in NetPcs, NEW pcs \in Seq(NetPcs), CallTo(pcs, pc)
    PROVE  StackInv' /\ Main0' = Main0
<1>1. stack \in Seq(Frames) /\ Len(stack) >= 1 /\ pc \in Pcs /\ pcs \in Seq(Pcs)
      /\ Len(pcs) \in Nat /\ \A i \in 1..Len(pcs) : pcs[i] \in NetPcs
  BY LenProperties, ElementOfSeq DEF StackInv, NetPcs
<1>2. /\ stack' \in Seq(Frames) /\ Len(stack') = Len(stack) + Len(pcs)
      /\ \A i \in 1..Len(stack)-1 : stack'[i] = stack[i]
      /\ stack'[Len(stack)].at = pc
      /\ \A i \in 1..Len(pcs) : stack'[Len(stack) + i].at = pcs[i]
  BY <1>1, CallStack
<1>3. /\ Len(stack) \in Nat /\ Len(stack) >= 2 /\ Main0 \in RestPcs
      /\ \A i \in 2..Len(stack) : stack[i].at \in NetPcs
  BY NetBelowMain
<1>4. \A i \in 2..Len(stack') : stack'[i].at \in NetPcs
  <2> TAKE i \in 2..Len(stack')
  <2>1. CASE i < Len(stack)
    BY <2>1, <1>2, <1>3
  <2>2. CASE i = Len(stack)
    BY <2>2, <1>2
  <2>3. CASE i > Len(stack)
    <3>1. i - Len(stack) \in 1..Len(pcs) /\ Len(stack) + (i - Len(stack)) = i
      BY <2>3, <1>1, <1>2, <1>3
    <3> QED BY <3>1, <1>1, <1>2
  <2> QED BY <2>1, <2>2, <2>3, <1>3
<1>5. stack'[1] = stack[1] /\ Len(stack') >= 1
  BY <1>1, <1>2, <1>3
<1> QED
  BY <1>2, <1>3, <1>4, <1>5 DEF StackInv, Main0, RestPcs, MainPcs

(* So main stays where it is while the network code runs.                   *)
LEMMA NetCodeStack ==
    ASSUME StackInv, NetCode
    PROVE  StackInv' /\ Main0' = Main0 /\ Main0 \in RestPcs
<1> USE DEF At
<1>1. {"resolve", "try", "poll", "check", "service", "slot0", "free0", "slot1", "free1", "request_send"} \subseteq NetPcs
  BY DEF NetPcs, Pcs, MainPcs, DelayPcs
<1>2. \A s \in 0..1 : PcOf("slot", s) \in {"slot0", "slot1"} /\ PcOf("free", s) \in {"free0", "free1"}
  BY DEF PcOf
<1>3. Top.at \in NetPcs
  BY <1>1, <1>2 DEF NetCode, Resolve, Try, Poll, Check, Service, ServiceBegins, SkipSlot, Process, FreeSlot, RequestSend
<1>4. Main0 \in RestPcs /\ Top \in Frames
  BY <1>3, NetBelowMain
<1>5. <<"service">> \in Seq(NetPcs) /\ <<"request_send", "resolve">> \in Seq(NetPcs)
  BY <1>1
<1>6. CASE Resolve
  BY <1>6, <1>1, <1>3, <1>4, NetGoes, NetReturns DEF Resolve
<1>7. CASE Try
  BY <1>7, <1>1, <1>3, <1>4, NetGoes, NetReturns DEF Try
<1>8. CASE Poll
  <2> DEFINE top == [at |-> "try", tries |-> Top.tries + 1, timeout |-> 0]
  <2>1. top \in Frames /\ top.at \in NetPcs
    BY <1>1, <1>4 DEF Frames, NetPcs
  <2>2. CASE stack' = [stack EXCEPT ![Len(stack)] = top]
    <3> HIDE DEF top
    <3> QED BY <2>1, <2>2, <1>3, <1>4, NetReplaces
  <2>3. CASE CallTo(<<"service">>, "check")
    BY <2>3, <1>1, <1>3, <1>4, <1>5, NetCalls
  <2> QED BY <1>8, <2>2, <2>3 DEF Poll
<1>9. CASE Check
  <2> DEFINE top == [at |-> "poll", tries |-> Top.tries, timeout |-> Top.timeout + 1]
  <2>1. top \in Frames /\ top.at \in NetPcs
    BY <1>1, <1>4 DEF Frames, NetPcs
  <2>2. CASE stack' = [stack EXCEPT ![Len(stack)] = top]
    <3> HIDE DEF top
    <3> QED BY <2>1, <2>2, <1>3, <1>4, NetReplaces
  <2>3. CASE Return
    BY <2>3, <1>3, <1>4, NetReturns
  <2> QED BY <1>9, <2>2, <2>3 DEF Check
<1>10. CASE ServiceBegins
  BY <1>10, <1>1, <1>3, <1>4, NetGoes, NetReturns DEF ServiceBegins
<1>11. ASSUME NEW s \in 0..1, SkipSlot(s) PROVE StackInv' /\ Main0' = Main0
  BY <1>11, <1>1, <1>3, NetGoes, NetReturns DEF SkipSlot
<1>12. ASSUME NEW s \in 0..1, FreeSlot(s) PROVE StackInv' /\ Main0' = Main0
  BY <1>12, <1>1, <1>3, NetGoes, NetReturns DEF FreeSlot
<1>13. ASSUME NEW s \in 0..1, Process(s) PROVE StackInv' /\ Main0' = Main0
  <2>1. PcOf("free", s) \in NetPcs
    BY <1>1, <1>2
  <2>2. Goto(PcOf("free", s)) \/ CallTo(<<"request_send", "resolve">>, PcOf("free", s))
    BY <1>13 DEF Process, dhcp_handle_offer, dhcp_handle_ack, Ignore
  <2> QED BY <2>1, <2>2, <1>3, <1>5, NetGoes, NetCalls
<1>14. CASE RequestSend
  BY <1>14, <1>3, <1>4, NetReturns DEF RequestSend
<1> QED
  BY <1>4, <1>6, <1>7, <1>8, <1>9, <1>10, <1>11, <1>12, <1>13, <1>14 DEF NetCode, Service
-----------------------------------------------------------------------------
(* Steps of main and of eth_reset_delay, which only main calls.            *)
LEMMA MainTop ==
    ASSUME StackInv, Top.at \in MainPcs
    PROVE  Len(stack) = 1 /\ Main0 = Top.at
<1>1. Len(stack) \in Nat /\ Len(stack) >= 1
  BY LenProperties DEF StackInv
<1>2. DelayPcs \cap MainPcs = {} /\ NetPcs \cap MainPcs = {}
  BY DEF NetPcs, DelayPcs, MainPcs
<1>3. CASE Len(stack) = 1
  BY <1>3 DEF Top, Main0
<1>4. CASE Len(stack) = 2 /\ stack[2].at \in DelayPcs
  BY <1>2, <1>4 DEF Top
<1>5. CASE Len(stack) # 1 /\ \A i \in 2..Len(stack) : stack[i].at \in NetPcs
  <2>1. \A n \in Nat : n >= 1 /\ n # 1 => n \in 2..n
    OBVIOUS
  <2>2. Len(stack) \in 2..Len(stack)
    BY <1>1, <1>5, <2>1
  <2> QED BY <1>2, <1>5, <2>2 DEF Top
<1> QED
  BY <1>3, <1>4, <1>5 DEF StackInv

(* While eth_reset_delay runs, main has called it, and nothing else.        *)
LEMMA DelayTop ==
    ASSUME StackInv, Top.at \in DelayPcs
    PROVE  Len(stack) = 2 /\ Main0 \in {"unreset", "disable_1000"} /\ stack[2].at = Top.at
<1>1. Len(stack) \in Nat /\ Len(stack) >= 1
  BY LenProperties DEF StackInv
<1>2. DelayPcs \cap MainPcs = {} /\ NetPcs \cap DelayPcs = {}
  BY DEF NetPcs, DelayPcs, MainPcs
<1>3. Len(stack) # 1
  BY <1>2 DEF StackInv, Top, Main0
<1>4. ~(\A i \in 2..Len(stack) : stack[i].at \in NetPcs)
  <2>1. \A n \in Nat : n >= 1 /\ n # 1 => n \in 2..n
    OBVIOUS
  <2>2. Len(stack) \in 2..Len(stack)
    BY <1>1, <1>3, <2>1
  <2> QED BY <2>2, <1>2 DEF Top
<1>5. Len(stack) = 2 /\ Main0 \in {"unreset", "disable_1000"}
  BY <1>3, <1>4 DEF StackInv
<1> QED
  BY <1>5 DEF Top

(* main goes on.                                                            *)
LEMMA MainGoes ==
    ASSUME StackInv, Top.at \in MainPcs, NEW pc \in MainPcs, Goto(pc)
    PROVE  StackInv' /\ Len(stack') = 1 /\ Main0' = pc
<1>1. stack \in Seq(Frames) /\ Len(stack) = 1 /\ pc \in Pcs
  BY MainTop DEF StackInv, Pcs
<1> QED
  BY <1>1, GotoStack DEF StackInv, Main0

(* main calls the delay, or the network code.                               *)
LEMMA MainCalls ==
    ASSUME StackInv, Top.at \in MainPcs, NEW pc \in MainPcs, NEW called \in Pcs,
           CallTo(<<called>>, pc),
           \/ pc \in {"unreset", "disable_1000"} /\ called \in DelayPcs
           \/ pc \in RestPcs /\ called \in NetPcs
    PROVE  StackInv' /\ Len(stack') = 2 /\ Main0' = pc /\ stack'[2].at = called
<1>1. stack \in Seq(Frames) /\ Len(stack) = 1 /\ Len(stack) >= 1 /\ pc \in Pcs
  BY MainTop DEF StackInv, Pcs
<1>2. <<called>> \in Seq(Pcs) /\ Len(<<called>>) = 1 /\ <<called>>[1] = called
  OBVIOUS
<1>3. /\ stack' \in Seq(Frames) /\ Len(stack') = 2
      /\ stack'[1].at = pc /\ stack'[2].at = called
  <2> DEFINE pcs == <<called>>
  <2> HIDE DEF pcs
  <2>1. pcs \in Seq(Pcs) /\ Len(pcs) = 1 /\ pcs[1] = called /\ CallTo(pcs, pc)
    BY <1>2 DEF pcs
  <2>2. /\ stack' \in Seq(Frames) /\ Len(stack') = Len(stack) + Len(pcs)
        /\ stack'[Len(stack)].at = pc
        /\ \A i \in 1..Len(pcs) : stack'[Len(stack) + i].at = pcs[i]
    BY <1>1, <2>1, CallStack
  <2> QED BY <1>1, <2>1, <2>2
<1> QED
  BY <1>3 DEF StackInv, Main0

(* The delay goes on.                                                       *)
LEMMA DelayGoes ==
    ASSUME StackInv, Top.at \in DelayPcs, NEW pc \in DelayPcs, Goto(pc)
    PROVE  StackInv' /\ Len(stack') = 2 /\ Main0' = Main0 /\ stack'[2].at = pc
<1>1. stack \in Seq(Frames) /\ Len(stack) = 2 /\ pc \in Pcs
  BY DelayTop DEF StackInv, Pcs, DelayPcs
<1> QED
  BY <1>1, GotoStack, DelayTop DEF StackInv, Main0

(* The delay returns.                                                       *)
LEMMA DelayReturns ==
    ASSUME StackInv, Top.at \in DelayPcs, Return
    PROVE  StackInv' /\ Len(stack') = 1 /\ Main0' = Main0
<1>1. stack \in Seq(Frames) /\ Len(stack) = 2 /\ Len(stack) >= 2
  BY DelayTop DEF StackInv
<1>2. stack' \in Seq(Frames) /\ Len(stack') = 1 /\ stack'[1] = stack[1]
  BY <1>1, ReturnStack
<1> QED
  BY <1>2, DelayTop DEF StackInv, Main0
-----------------------------------------------------------------------------
(* The delay: the timer runs only while eth_reset_delay waits for it, and  *)
(* has never counted longer than the PHY has been in the state whose time  *)
(* it measures.                                                            *)
Phys == [held : 0..Delay, rested : 0..Delay, resetting : BOOLEAN, gigabit : BOOLEAN,
         link : {"down", "100", "1000"}, drops : Int]
PhyType == setup \in BOOLEAN /\ en0 \in BOOLEAN /\ counter0 \in Nat /\ phy \in Phys
Delaying == IF Len(stack) = 2 /\ Main0 \in {"unreset", "disable_1000"} THEN stack[2].at ELSE "none"
TimeSpent == IF setup THEN phy.held ELSE phy.rested
TimerInv ==
    /\ en0 => Delaying = "wait"
    /\ Delaying \in {"compare", "control"} => counter0 = 0
    /\ Delaying \in {"control", "wait"} => compare0 = Delay
    /\ Delaying = "wait" => counter0 <= Delay /\ counter0 <= TimeSpent /\ (~en0 => counter0 = Delay)

(* What main has done to the PHY where it is.                              *)
PhyInv ==
    /\ setup <=> Main0 = "unreset"
    /\ Main0 \notin {"reset", "unreset"} \/ (Main0 = "unreset" /\ Len(stack) = 1) => phy.held = Delay
    /\ \/ Main0 \notin {"reset", "unreset", "disable_1000"}
       \/ Main0 = "disable_1000" /\ Len(stack) = 1
       => phy.rested = Delay
    /\ Main0 \in {"soft_reset", "soft_wait", "link", "start"} \cup RestPcs => ~phy.gigabit
    /\ Main0 \in {"soft_wait", "link", "start"} \cup RestPcs => phy.link # "1000"

ReadyInv == StackInv /\ PhyType /\ TimerInv /\ PhyInv

(* A step that leaves the PHY and the timer alone, from a place after the  *)
(* reset to another.                                                       *)
LEMMA AfterReset ==
    ASSUME ReadyInv, StackInv', Main0 \in {"start"} \cup RestPcs, Main0' \in RestPcs,
           UNCHANGED ethVars
    PROVE  ReadyInv'
<1>1. Delaying' = "none" /\ Delaying = "none"
  BY DEF Delaying, RestPcs
<1>4. TimerInv'
  BY <1>1 DEF TimerInv, ReadyInv, ethVars, timerVars
<1>5. PhyType'
  BY DEF PhyType, Phys, ReadyInv, ethVars, timerVars
<1>6. PhyInv'
  BY DEF PhyInv, ReadyInv, ethVars, timerVars, RestPcs
<1> QED
  BY <1>4, <1>5, <1>6 DEF ReadyInv

(* The invariant of the PHY holds initially.                                *)
LEMMA ReadyInit == Init => ReadyInv
<1> SUFFICES ASSUME Init PROVE ReadyInv
  OBVIOUS
<1>1. Delay \in Nat
  BY TestAssumption
<1>2. stack \in Seq(Frames) /\ Len(stack) = 1 /\ Main0 = "reset"
  BY DEF Init, Frames, Pcs, MainPcs, Main0
<1>3. /\ setup = FALSE /\ en0 = FALSE /\ counter0 = 0
      /\ phy = [held |-> 0, rested |-> 0, resetting |-> FALSE, gigabit |-> TRUE, link |-> "down", drops |-> 0]
  BY DEF Init
<1>4. StackInv
  BY <1>2 DEF StackInv, MainPcs
<1>5. PhyType
  <2>1. phy \in Phys
    BY <1>1, <1>3 DEF Phys
  <2> QED BY <1>3, <2>1 DEF PhyType, Phys
<1>6. TimerInv
  BY <1>2, <1>3 DEF TimerInv, Delaying
<1>7. PhyInv
  BY <1>2, <1>3 DEF PhyInv, RestPcs
<1> QED
  BY <1>4, <1>5, <1>6, <1>7 DEF ReadyInv

(* Steps of main and of the delay preserve it, one step per line of the code. *)
LEMMA ReadyMain ==
    ASSUME ReadyInv, Main, ~RequestSend
    PROVE  ReadyInv'
<1>1. Delay \in Nat \ {0}
  BY TestAssumption
<1>2. StackInv /\ PhyType /\ TimerInv /\ PhyInv
  BY DEF ReadyInv
<1> USE DEF At, MainPcs, DelayPcs
<1>3. "resolve" \in NetPcs /\ "service" \in NetPcs /\ NetPcs \subseteq Pcs /\ DelayPcs \subseteq Pcs
  BY DEF NetPcs, Pcs
<1>4. CASE At("reset") /\ PhyReset
  <2>1. StackInv' /\ Len(stack') = 2 /\ Main0' = "unreset" /\ stack'[2].at = "delay"
    BY <1>2, <1>3, <1>4, MainCalls DEF PhyReset
  <2>2. Len(stack) = 1 /\ Main0 = "reset"
    BY <1>2, <1>4, MainTop
  <2>3. setup' = TRUE /\ phy' = [phy EXCEPT !.gigabit = TRUE, !.link = "down"] /\ UNCHANGED timerVars
    BY <1>4 DEF PhyReset
  <2>4. PhyType'
    BY <1>2, <2>3 DEF PhyType, Phys, timerVars
  <2>5. Delaying = "none" /\ Delaying' = "delay"
    BY <2>1, <2>2 DEF Delaying
  <2>6. TimerInv'
    BY <1>2, <2>3, <2>5 DEF TimerInv, timerVars
  <2>7. PhyInv'
    BY <1>2, <2>1, <2>2, <2>3 DEF PhyType, Phys, PhyInv, RestPcs
  <2> QED BY <2>1, <2>4, <2>6, <2>7 DEF ReadyInv
<1>5. CASE At("unreset") /\ PhyReset
  <2>1. StackInv' /\ Len(stack') = 2 /\ Main0' = "disable_1000" /\ stack'[2].at = "delay"
    BY <1>2, <1>3, <1>5, MainCalls DEF PhyReset
  <2>2. Len(stack) = 1 /\ Main0 = "unreset"
    BY <1>2, <1>5, MainTop
  <2>3. setup' = FALSE /\ phy' = phy /\ UNCHANGED timerVars
    BY <1>5 DEF PhyReset
  <2>4. PhyType'
    BY <1>2, <2>3 DEF PhyType, Phys, timerVars
  <2>5. Delaying = "none" /\ Delaying' = "delay"
    BY <2>1, <2>2 DEF Delaying
  <2>6. TimerInv'
    BY <1>2, <2>3, <2>5 DEF TimerInv, timerVars
  <2>7. PhyInv'
    BY <1>2, <2>1, <2>2, <2>3 DEF PhyType, Phys, PhyInv, RestPcs
  <2> QED BY <2>1, <2>4, <2>6, <2>7 DEF ReadyInv
<1>6. CASE DelayCounter
  <2>1. StackInv' /\ Len(stack') = 2 /\ Main0' = Main0 /\ stack'[2].at = "compare"
    BY <1>2, <1>6, DelayGoes DEF DelayCounter
  <2>2. Len(stack) = 2 /\ stack[2].at = "delay" /\ Main0 \in {"unreset", "disable_1000"}
    BY <1>2, <1>6, DelayTop DEF DelayCounter
  <2>3. PhyType' /\ TimerInv' /\ PhyInv'
    BY <1>2, <1>6, <2>1, <2>2 DEF DelayCounter, PhyType, Phys, TimerInv, PhyInv, Delaying, RestPcs
  <2> QED BY <2>1, <2>3 DEF ReadyInv
<1>7. CASE DelayCompare
  <2>1. StackInv' /\ Len(stack') = 2 /\ Main0' = Main0 /\ stack'[2].at = "control"
    BY <1>2, <1>7, DelayGoes DEF DelayCompare
  <2>2. Len(stack) = 2 /\ stack[2].at = "compare" /\ Main0 \in {"unreset", "disable_1000"}
    BY <1>2, <1>7, DelayTop DEF DelayCompare
  <2>3. PhyType' /\ TimerInv' /\ PhyInv'
    BY <1>2, <1>7, <2>1, <2>2 DEF DelayCompare, PhyType, Phys, TimerInv, PhyInv, Delaying, RestPcs
  <2> QED BY <2>1, <2>3 DEF ReadyInv
<1>8. CASE DelayControl
  <2>1. StackInv' /\ Len(stack') = 2 /\ Main0' = Main0 /\ stack'[2].at = "wait"
    BY <1>2, <1>8, DelayGoes DEF DelayControl
  <2>2. Len(stack) = 2 /\ stack[2].at = "control" /\ Main0 \in {"unreset", "disable_1000"}
    BY <1>2, <1>8, DelayTop DEF DelayControl
  <2>3. PhyType' /\ PhyInv'
    BY <1>2, <1>8, <2>1, <2>2 DEF DelayControl, PhyType, Phys, PhyInv, RestPcs
  <2>4. TimeSpent' \in 0..Delay
    BY <1>1, <2>3 DEF PhyType, Phys, TimeSpent
  <2>5. TimerInv'
    BY <1>1, <1>2, <1>8, <2>1, <2>2, <2>4 DEF DelayControl, TimerInv, Delaying
  <2> QED BY <2>1, <2>3, <2>5 DEF ReadyInv
<1>9. CASE DelayWait
  <2>1. StackInv' /\ Len(stack') = 1 /\ Main0' = Main0
    BY <1>2, <1>9, DelayReturns DEF DelayWait
  <2>2. Len(stack) = 2 /\ stack[2].at = "wait" /\ Main0 \in {"unreset", "disable_1000"}
    BY <1>2, <1>9, DelayTop DEF DelayWait
  <2>3. counter0 = Delay /\ counter0 <= TimeSpent
    BY <1>2, <1>9, <2>2 DEF DelayWait, TimerInv, Delaying
  <2>4. TimeSpent = Delay
    BY <1>1, <1>2, <2>3 DEF PhyType, Phys, TimeSpent
  <2>5. PhyType' /\ TimerInv'
    BY <1>2, <1>9, <2>1 DEF DelayWait, PhyType, Phys, TimerInv, Delaying, ethVars, timerVars
  <2>6. PhyInv'
    BY <1>2, <1>9, <2>1, <2>2, <2>4 DEF DelayWait, PhyInv, TimeSpent, ethVars, timerVars, RestPcs
  <2> QED BY <2>1, <2>5, <2>6 DEF ReadyInv
<1>10. CASE eth_disable_1000
  <2>1. StackInv' /\ Len(stack') = 1 /\ Main0' = "soft_reset"
    BY <1>2, <1>10, MainGoes DEF eth_disable_1000
  <2>2. Len(stack) = 1 /\ Main0 = "disable_1000"
    BY <1>2, <1>10, MainTop DEF eth_disable_1000
  <2>3. setup' = setup /\ UNCHANGED timerVars /\ phy' = [phy EXCEPT !.gigabit = FALSE]
    BY <1>10 DEF eth_disable_1000
  <2>4. PhyType'
    BY <1>2, <2>3 DEF PhyType, Phys, timerVars
  <2>5. Delaying = "none" /\ Delaying' = "none"
    BY <2>1, <2>2 DEF Delaying
  <2>6. TimerInv'
    BY <1>2, <2>3, <2>5 DEF TimerInv, timerVars
  <2>7. PhyInv'
    BY <1>2, <2>1, <2>2, <2>3 DEF PhyType, Phys, PhyInv, RestPcs
  <2> QED BY <2>1, <2>4, <2>6, <2>7 DEF ReadyInv
<1>11. CASE eth_soft_reset
  <2>1. StackInv' /\ Len(stack') = 1 /\ Main0' \in {"soft_wait", "link"} /\ (Main0' = "link" => Main0 = "soft_wait")
    BY <1>2, <1>11, MainGoes, MainTop DEF eth_soft_reset
  <2>2. Len(stack) = 1 /\ Main0 \in {"soft_reset", "soft_wait"}
    BY <1>2, <1>11, MainTop DEF eth_soft_reset
  <2>3. PhyType' /\ UNCHANGED <<setup, timerVars>>
        /\ phy'.held = phy.held /\ phy'.rested = phy.rested /\ phy'.gigabit = phy.gigabit
        /\ (phy'.link = "down" \/ (phy' = phy /\ Main0 = "soft_wait"))
    BY <1>2, <1>11, MainTop DEF eth_soft_reset, PhyType, Phys, ethVars, timerVars
  <2>4. TimerInv' /\ PhyInv'
    BY <1>2, <2>1, <2>2, <2>3 DEF TimerInv, PhyInv, Delaying, timerVars, RestPcs
  <2> QED BY <2>1, <2>3, <2>4 DEF ReadyInv
<1>12. CASE WaitLink
  <2>1. StackInv' /\ Len(stack') = 1 /\ Main0' = "start"
    BY <1>2, <1>12, MainGoes DEF WaitLink
  <2>2. Len(stack) = 1 /\ Main0 = "link"
    BY <1>2, <1>12, MainTop DEF WaitLink
  <2>3. PhyType' /\ TimerInv' /\ PhyInv'
    BY <1>2, <1>12, <2>1, <2>2 DEF WaitLink, PhyType, Phys, TimerInv, PhyInv, Delaying, ethVars, timerVars, RestPcs
  <2> QED BY <2>1, <2>3 DEF ReadyInv
<1>13. CASE microudp_start
  <2>1. StackInv' /\ Main0' = "dhcp_boot" /\ Main0 = "start"
    BY <1>2, <1>3, <1>13, MainCalls, MainTop DEF microudp_start, RestPcs
  <2> QED BY <1>13, <2>1, AfterReset DEF microudp_start, RestPcs
<1>14. CASE dhcp_discover
  <2>1. StackInv' /\ Main0' = "discover_send" /\ Main0 = "dhcp_boot"
    BY <1>2, <1>3, <1>14, MainCalls, MainTop DEF dhcp_discover, RestPcs
  <2> QED BY <1>14, <2>1, AfterReset DEF dhcp_discover, RestPcs
<1>15. CASE DiscoverSend
  <2>1. StackInv' /\ Main0' = "boot_loop" /\ Main0 = "discover_send"
    BY <1>2, <1>15, MainGoes, MainTop DEF DiscoverSend
  <2> QED BY <1>15, <2>1, AfterReset DEF DiscoverSend, RestPcs
<1>16. CASE ServeLoop
  <2>1. StackInv' /\ Main0' \in {"boot_loop", "loop"} /\ Main0 \in {"boot_loop", "loop"}
    BY <1>2, <1>3, <1>16, MainGoes, MainCalls, MainTop DEF ServeLoop, RestPcs
  <2> QED BY <1>16, <2>1, AfterReset DEF ServeLoop, RestPcs
<1> QED
  BY <1>4, <1>5, <1>6, <1>7, <1>8, <1>9, <1>10, <1>11, <1>12, <1>13, <1>14, <1>15, <1>16
     DEF Main, Delays, PhyReset

(* A tick counts in the timer only while the PHY is timed.                  *)
LEMMA ReadyTick ==
    ASSUME ReadyInv, Tick
    PROVE  ReadyInv'
<1>1. Delay \in Nat \ {0}
  BY TestAssumption
<1>2. StackInv /\ PhyType /\ TimerInv /\ PhyInv
  BY DEF ReadyInv
<1>3. StackInv' /\ Main0' = Main0 /\ setup' = setup /\ compare0' = compare0 /\ Delaying' = Delaying
  BY <1>2 DEF Tick, StackInv, Main0, Delaying
<1>4. /\ PhyType' /\ phy'.held >= phy.held /\ phy'.rested >= phy.rested
      /\ phy'.gigabit = phy.gigabit /\ phy'.link = phy.link
  BY <1>1, <1>2 DEF PhyType, Phys, Tick, Longer
<1>5. PhyInv'
  BY <1>1, <1>2, <1>3, <1>4 DEF PhyInv, PhyType, Phys, Tick
<1>6. CASE Delaying # "wait"
  <2>1. counter0' = counter0 /\ en0' = FALSE
    BY <1>2, <1>6 DEF TimerInv, Tick, PhyType, Phys
  <2> QED BY <1>2, <1>3, <1>4, <1>5, <1>6, <2>1 DEF ReadyInv, TimerInv
<1>7. CASE Delaying = "wait"
  <2>1. /\ compare0 = Delay /\ counter0 <= Delay /\ counter0 <= TimeSpent /\ (~en0 => counter0 = Delay)
    BY <1>2, <1>7 DEF TimerInv
  <2>2. setup \/ phy.held > 0
    <3>1. Main0 \in {"unreset", "disable_1000"}
      BY <1>7 DEF Delaying
    <3> QED BY <3>1, <1>1, <1>2 DEF PhyInv
  <2>3. counter0' <= Delay /\ (~en0' => counter0' = Delay)
    BY <1>1, <1>2, <2>1 DEF Tick, PhyType, Phys
  <2>4. counter0' <= TimeSpent'
    BY <1>1, <1>2, <2>1, <2>2 DEF Tick, PhyType, Phys, TimeSpent, Longer
  <2> QED BY <1>3, <1>4, <1>5, <1>7, <2>1, <2>3, <2>4 DEF ReadyInv, TimerInv
<1> QED BY <1>6, <1>7

(* The PHY negotiates what it may.                                          *)
LEMMA ReadyPhy ==
    ASSUME ReadyInv, PhyUp \/ LinkDrops
    PROVE  ReadyInv'
<1>1. StackInv /\ PhyType /\ TimerInv /\ PhyInv
  BY DEF ReadyInv
<1>2. UNCHANGED <<stack, setup, timerVars>>
  BY DEF PhyUp, PhyRestarts, PhyNegotiates, LinkDrops
<1>3. /\ PhyType' /\ phy'.held = phy.held /\ phy'.rested = phy.rested /\ phy'.gigabit = phy.gigabit
      /\ (phy'.link = "1000" => phy.link = "1000" \/ phy.gigabit)
  <2>1. UNCHANGED <<en0, counter0>>
    BY <1>2 DEF timerVars
  <2>2. CASE PhyRestarts
    BY <1>1, <1>2, <2>1, <2>2 DEF PhyRestarts, PhyType, Phys
  <2>3. CASE PhyNegotiates
    BY <1>1, <1>2, <2>1, <2>3 DEF PhyNegotiates, PhyType, Phys
  <2>4. CASE LinkDrops
    <3>1. phy' = [phy EXCEPT !.link = "down", !.drops = phy.drops + 1]
      BY <2>4 DEF LinkDrops
    <3>2. phy \in Phys /\ phy.drops + 1 \in Int
      BY <1>1 DEF PhyType, Phys
    <3>3. phy' \in Phys
      BY <3>1, <3>2 DEF Phys
    <3>4. phy'.held = phy.held /\ phy'.rested = phy.rested /\ phy'.link = "down" /\ phy'.gigabit = phy.gigabit
      BY <3>1, <3>2 DEF Phys
    <3> QED BY <1>1, <1>2, <2>1, <3>3, <3>4 DEF PhyType, Phys
  <2> QED BY <2>2, <2>3, <2>4 DEF PhyUp
<1>4. StackInv' /\ Main0' = Main0 /\ Delaying' = Delaying /\ TimeSpent' = TimeSpent
  BY <1>1, <1>2, <1>3 DEF StackInv, Main0, Delaying, TimeSpent
<1>5. TimerInv'
  BY <1>1, <1>2, <1>4 DEF TimerInv, timerVars
<1>6. PhyInv'
  BY <1>1, <1>2, <1>3, <1>4 DEF PhyInv, RestPcs
<1> QED BY <1>3, <1>4, <1>5, <1>6 DEF ReadyInv

(* Every step preserves the invariant of the PHY.                           *)
LEMMA ReadyStep == ReadyInv /\ [Next]_vars => ReadyInv'
<1> SUFFICES ASSUME ReadyInv, [Next]_vars PROVE ReadyInv'
  OBVIOUS
<1>1. CASE NetCode
  <2>1. StackInv' /\ Main0' \in RestPcs /\ Main0 \in RestPcs
    BY <1>1, NetCodeStack DEF ReadyInv
  <2>2. UNCHANGED ethVars
    BY <1>1 DEF NetCode, Resolve, Try, Poll, Check, Service, ServiceBegins, SkipSlot, Process, FreeSlot, RequestSend
  <2> QED BY <2>1, <2>2, AfterReset
<1>2. CASE Main /\ ~RequestSend
  BY <1>2, ReadyMain
<1>3. CASE Tick
  BY <1>3, ReadyTick
<1>4. CASE PhyUp \/ LinkDrops
  BY <1>4, ReadyPhy
<1>5. CASE UNCHANGED <<stack, ethVars>>
  BY <1>5 DEF ReadyInv, StackInv, PhyType, Phys, TimerInv, PhyInv, Main0, Delaying, TimeSpent, ethVars, timerVars
<1>6. CASE Delivery \/ Replies \/ Loss \/ OtherBoards
  BY <1>6, <1>5 DEF Delivery, Replies, Loss, OtherBoards, Deliver, ServerReplies, LoseFrame
<1>7. CASE UNCHANGED vars
  BY <1>7, <1>5 DEF vars, ethVars, timerVars
<1> QED
  BY <1>1, <1>2, <1>3, <1>4, <1>6, <1>7 DEF Next, Program, Environment, NetCode

(* The PHY is only talked to after both delays in full, and no frame goes  *)
(* over a link of 1000 Mbps: eth_reset_delay measures what it is meant to, *)
(* for any frequency of the clock, at any speed of the CPU and of the PHY. *)
THEOREM PhyIsReady == Spec => []PhyReady
<1>1. ReadyInv => PhyReady
  BY DEF ReadyInv, PhyInv, PhyReady, Main0, RestPcs
<1> QED
  BY <1>1, ReadyInit, ReadyStep, PTL DEF Spec
-----------------------------------------------------------------------------
(* Where an address comes from.  An ARP reply is only there when somebody  *)
(* answers for the broadcast address, and an acknowledgement when a server *)
(* has leased the address to this board or to another, or an earlier start *)
(* has asked for it.                                                       *)
Early == MainPcs \ {"discover_send", "boot_loop", "loop"}
NetRecord == net = [answers |-> net.answers, zero |-> net.zero, air |-> net.air, heard |-> net.heard,
                    leased |-> net.leased, foreign |-> net.foreign, count |-> net.count,
                    trouble |-> net.trouble]
Arrived(f) == [state : {"PENDING"}, frame : {f}, seen : BOOLEAN]
SlotRecords ==
    /\ slots = [s \in 0..1 |-> slots[s]]
    /\ \A s \in 0..1 : Pending(s) => slots[s] \in Arrived(slots[s].frame)
Sound(f) == /\ f.type = "arp_reply" => net.answers
            /\ f.type = "ack" => f.ip \in net.foreign \/ f.ip \in net.leased
OriginInv ==
    /\ cached_mac \in BOOLEAN /\ (cached_mac => net.answers)
    /\ net.heard # {} => net.answers
    /\ net.leased # {} => net.answers
    /\ \A f \in net.air : Sound(f)
    /\ \A s \in 0..1 : Pending(s) => Sound(slots[s].frame)
    /\ Main0 \in Early => dhcp_state = "OFF"
BoundInv == NetRecord /\ SlotRecords /\ OriginInv /\ BoundSound

(* The invariant of the addresses holds initially.                          *)
LEMMA BoundInit == Init => BoundInv
<1> SUFFICES ASSUME Init PROVE BoundInv
  OBVIOUS
<1>1. PICK answers \in BOOLEAN, zero \in SUBSET Servers,
           stale \in {{}} \cup {{f} : f \in [type : {"offer", "ack"}, ip : [server : Servers, board : {"me"}]]} :
          net = [answers |-> answers, zero |-> zero, air |-> stale, heard |-> {}, leased |-> {},
                 foreign |-> {f.ip : f \in stale}, count |-> Cardinality(stale), trouble |-> "none"]
  BY DEF Init
<1>2. \A f \in stale : f.type # "arp_reply" /\ f.ip \in {g.ip : g \in stale}
  BY <1>1
<1>3. \A f \in net.air : Sound(f)
  BY <1>1, <1>2 DEF Sound
<1>4. slots = [s \in 0..1 |-> [state |-> "EMPTY"]] /\ cached_mac = FALSE /\ dhcp_state = "OFF"
  BY DEF Init
<1>5. \A s \in 0..1 : ~Pending(s)
  BY <1>4 DEF Pending
<1>6. NetRecord
  BY <1>1 DEF NetRecord
<1>7. SlotRecords
  BY <1>4, <1>5 DEF SlotRecords
<1>8. OriginInv
  BY <1>1, <1>3, <1>4, <1>5 DEF OriginInv
<1>9. BoundSound
  BY <1>4 DEF BoundSound
<1> QED
  BY <1>6, <1>7, <1>8, <1>9 DEF BoundInv

(* main passes dhcp_boot once.                                             *)
LEMMA MainMoves ==
    ASSUME StackInv, Main, ~RequestSend
    PROVE  Main0 \in Early \/ Main0' \notin Early
<1> USE DEF At, MainPcs, DelayPcs
<1>1. CASE Top.at \in Early \/ Top.at \in DelayPcs
  BY <1>1, MainTop, DelayTop DEF Early
<1>2. CASE DiscoverSend
  BY <1>2, MainGoes DEF DiscoverSend, Early
<1>3. CASE ServeLoop
  <2>1. "service" \in NetPcs /\ "service" \in Pcs
    BY DEF NetPcs, Pcs
  <2> QED BY <1>3, <2>1, MainGoes, MainCalls DEF ServeLoop, Early, RestPcs
<1> QED
  BY <1>1, <1>2, <1>3 DEF Main, PhyReset, Delays, DelayCounter, DelayCompare, DelayControl, DelayWait,
     eth_disable_1000, eth_soft_reset, WaitLink, microudp_start, dhcp_discover, Early

(* A step that only moves the program.                                     *)
LEMMA BoundQuiet ==
    ASSUME BoundInv, UNCHANGED <<slots, cached_mac, my_ip, dhcp_state, net>>,
           Main0 \in Early \/ Main0' \notin Early
    PROVE  BoundInv'
  BY DEF BoundInv, NetRecord, SlotRecords, OriginInv, BoundSound, Sound, Pending

(* A step that changes the network: what is new in the air is sound, and   *)
(* nothing that was leased is forgotten.                                   *)
LEMMA BoundNet ==
    ASSUME BoundInv, NetRecord', UNCHANGED <<slots, cached_mac, my_ip, dhcp_state>>,
           Main0 \in Early \/ Main0' \notin Early,
           net'.answers = net.answers, net'.zero = net.zero,
           net.foreign \subseteq net'.foreign, net.leased \subseteq net'.leased,
           net'.heard # {} \/ net'.leased # {} => net.answers,
           \A f \in net'.air : f \in net.air \/ Sound(f)'
    PROVE  BoundInv'
<1>1. BoundSound'
  BY DEF BoundInv, BoundSound
<1>2. \A f : Sound(f) => Sound(f)'
  BY DEF Sound
<1>3. SlotRecords'
  BY DEF BoundInv, SlotRecords, Pending
<1>4. OriginInv'
  BY <1>2 DEF BoundInv, OriginInv, Pending
<1> QED
  BY <1>1, <1>3, <1>4 DEF BoundInv

(* Sending needs an answer to the ARP request.                              *)
LEMMA BoundSend ==
    ASSUME BoundInv, NEW messages, microudp_send(messages), UNCHANGED <<slots, ipVars>>,
           Main0 \in Early \/ Main0' \notin Early
    PROVE  BoundInv'
<1>1. NetRecord /\ OriginInv
  BY DEF BoundInv
<1>2. \/ net' = [net EXCEPT !.trouble = First("unsent")]
      \/ net' = [net EXCEPT !.trouble = First("lost")]
      \/ cached_mac /\ net' = [net EXCEPT !.heard = net.heard \cup messages]
  BY DEF microudp_send
<1>3. /\ NetRecord' /\ net'.answers = net.answers /\ net'.zero = net.zero /\ net'.air = net.air
      /\ net'.foreign = net.foreign /\ net'.leased = net.leased
      /\ net'.heard = net.heard \/ (cached_mac /\ net'.heard = net.heard \cup messages)
  BY <1>1, <1>2 DEF NetRecord
<1>4. net'.heard # {} \/ net'.leased # {} => net.answers
  BY <1>1, <1>3 DEF OriginInv
<1> QED
  BY <1>3, <1>4, BoundNet DEF ipVars

(* Steps of main preserve the invariant of the addresses.                   *)
LEMMA BoundMain ==
    ASSUME StackInv, BoundInv, Main, ~RequestSend
    PROVE  BoundInv'
<1>1. Main0 \in Early \/ Main0' \notin Early
  BY MainMoves
<1>2. CASE microudp_start
  <2>1. slots' = [s \in 0..1 |-> Loaded] /\ cached_mac' = FALSE /\ UNCHANGED <<dhcp_state, net>>
    BY <1>2 DEF microudp_start
  <2>2. Main0 = "start"
    BY <1>2, MainTop DEF microudp_start, At, MainPcs
  <2>3. dhcp_state = "OFF"
    BY <2>2 DEF BoundInv, OriginInv, Early, MainPcs
  <2>4. \A s \in 0..1 : ~Pending(s)'
    BY <2>1 DEF Pending, Loaded
  <2>5. SlotRecords'
    BY <2>1, <2>4 DEF SlotRecords, Pending
  <2>6. OriginInv' /\ BoundSound' /\ NetRecord'
    BY <2>1, <2>3, <2>4 DEF BoundInv, NetRecord, OriginInv, BoundSound, Sound
  <2> QED BY <2>5, <2>6 DEF BoundInv
<1>3. CASE dhcp_discover
  <2>1. dhcp_state' = "SELECTING" /\ UNCHANGED <<slots, cached_mac, net>>
    BY <1>3 DEF dhcp_discover
  <2>2. Main0' = "discover_send"
    <3>1. "resolve" \in NetPcs /\ "resolve" \in Pcs
      BY DEF NetPcs, Pcs, MainPcs, DelayPcs
    <3> QED BY <1>3, <3>1, MainCalls DEF dhcp_discover, At, MainPcs, RestPcs
  <2>3. NetRecord' /\ SlotRecords' /\ BoundSound'
    BY <2>1 DEF BoundInv, NetRecord, SlotRecords, BoundSound, Pending
  <2>4. OriginInv'
    BY <2>1, <2>2 DEF BoundInv, OriginInv, Early, Sound, Pending
  <2> QED BY <2>3, <2>4 DEF BoundInv
<1>4. CASE DiscoverSend
  BY <1>1, <1>4, BoundSend DEF DiscoverSend
<1>5. CASE PhyReset \/ Delays \/ eth_disable_1000 \/ eth_soft_reset \/ WaitLink \/ ServeLoop
  <2>1. UNCHANGED <<slots, cached_mac, my_ip, dhcp_state, net>>
    BY <1>5 DEF PhyReset, Delays, DelayCounter, DelayCompare, DelayControl, DelayWait, eth_disable_1000,
       eth_soft_reset, WaitLink, ServeLoop, ipVars
  <2> QED BY <1>1, <2>1, BoundQuiet
<1> QED
  BY <1>2, <1>3, <1>4, <1>5 DEF Main

(* So does the processing of a frame, which may adopt an address.           *)
LEMMA BoundProcess ==
    ASSUME BoundInv, NEW s \in 0..1, Process(s), Main0' = Main0
    PROVE  BoundInv'
<1> DEFINE f == slots[s].frame
<1>1. /\ slots' = [slots EXCEPT ![s].seen = TRUE] /\ net' = net /\ Pending(s)
      /\ Sound(f) /\ SlotRecords /\ OriginInv /\ NetRecord /\ BoundSound
  BY DEF Process, BoundInv, OriginInv
<1> DEFINE seen == [slots[s] EXCEPT !.seen = TRUE]
<1>2. slots[s] \in Arrived(f)
  BY <1>1 DEF SlotRecords
<1>3. slots' = [t \in 0..1 |-> IF t = s THEN seen ELSE slots[t]] /\ seen \in Arrived(f)
  <2>1. slots' = [slots EXCEPT ![s] = [slots[s] EXCEPT !.seen = TRUE]]
    BY <1>1
  <2>2. seen \in Arrived(f)
    BY <1>2 DEF Arrived
  <2>3. slots = [t \in 0..1 |-> slots[t]]
    BY <1>1 DEF SlotRecords
  <2> QED BY <2>1, <2>2, <2>3
<1> HIDE DEF seen
<1>4. \A t \in 0..1 : Pending(t)' = Pending(t) /\ slots'[t].frame = slots[t].frame
  <2>1. seen.state = "PENDING" /\ seen.frame = f
    BY <1>3 DEF Arrived
  <2>2. \A t \in 0..1 : slots'[t] = IF t = s THEN seen ELSE slots[t]
    BY <1>3
  <2> QED BY <1>1, <2>1, <2>2 DEF Pending
<1>5. SlotRecords'
  <2>1. \A t \in 0..1 : Pending(t)' => slots'[t] \in Arrived(slots'[t].frame)
    BY <1>1, <1>3, <1>4 DEF SlotRecords
  <2>2. slots' = [t \in 0..1 |-> slots'[t]]
    BY <1>3
  <2> QED BY <2>1, <2>2 DEF SlotRecords
<1>6. NetRecord'
  BY <1>1 DEF NetRecord
<1>7. ASSUME cached_mac' \in BOOLEAN, cached_mac' => net.answers, Main0 \in Early => dhcp_state' = "OFF"
      PROVE  OriginInv'
  BY <1>1, <1>4, <1>7 DEF OriginInv, Sound
<1> DEFINE offer == ForCallback(f) /\ f.type = "offer" /\ dhcp_state = "SELECTING"
           ack == ForCallback(f) /\ f.type = "ack" /\ dhcp_state = "REQUESTING"
<1>8. \/ offer /\ dhcp_handle_offer(f, s)
      \/ ack /\ dhcp_handle_ack(f, s)
      \/ Ignore(f, s)
  BY DEF Process
<1>9. CASE offer /\ dhcp_handle_offer(f, s)
  <2>1. dhcp_state = "SELECTING" /\ dhcp_state' = "REQUESTING" /\ cached_mac' = cached_mac
    BY <1>9 DEF dhcp_handle_offer
  <2>2. OriginInv' /\ BoundSound'
    BY <1>1, <1>7, <2>1 DEF OriginInv, BoundSound
  <2> QED BY <1>5, <1>6, <2>2 DEF BoundInv
<1>10. CASE ack /\ dhcp_handle_ack(f, s)
  <2>1. /\ dhcp_state = "REQUESTING" /\ dhcp_state' = "BOUND" /\ cached_mac' = cached_mac /\ my_ip' = f.ip
        /\ f.type = "ack" /\ f.ip.server \in net.zero /\ f.ip.board \in {"me", "peer"}
    BY <1>10 DEF dhcp_handle_ack, ForCallback
  <2>2. f.ip \in net.foreign \/ (f.ip \in net.leased /\ net.answers)
    BY <1>1, <2>1 DEF Sound, OriginInv
  <2> HIDE DEF f
  <2>3. OriginInv' /\ BoundSound'
    BY <1>1, <1>7, <2>1, <2>2 DEF OriginInv, BoundSound
  <2> QED BY <1>5, <1>6, <2>3 DEF BoundInv
<1>11. CASE Ignore(f, s)
  <2>1. /\ UNCHANGED <<my_ip, dhcp_state>>
        /\ cached_mac' = (cached_mac \/ (f.type = "arp_reply" /\ cached_ip = "broadcast"))
    BY <1>11 DEF Ignore
  <2>2. cached_mac' \in BOOLEAN /\ (cached_mac' => net.answers)
    BY <1>1, <2>1 DEF Sound, OriginInv
  <2>3. OriginInv' /\ BoundSound'
    BY <1>1, <1>7, <2>1, <2>2 DEF OriginInv, BoundSound
  <2> QED BY <1>5, <1>6, <2>3 DEF BoundInv
<1> QED
  BY <1>8, <1>9, <1>10, <1>11

(* A slot that is set free, or that a frame from the air is put into.      *)
LEMMA BoundSlot ==
    ASSUME BoundInv, NEW s \in 0..1, NEW slot, slots' = [slots EXCEPT ![s] = slot],
           \/ slot = Loaded
           \/ \E f : Sound(f) /\ slot \in Arrived(f),
           UNCHANGED ipVars, Main0' = Main0,
           NetRecord', net'.answers = net.answers, net'.zero = net.zero, net'.heard = net.heard,
           net'.foreign = net.foreign, net'.leased = net.leased, net'.air \subseteq net.air
    PROVE  BoundInv'
<1>1. slots' = [t \in 0..1 |-> IF t = s THEN slot ELSE slots[t]] /\ SlotRecords /\ OriginInv /\ BoundSound
  BY DEF BoundInv, SlotRecords
<1>2. \/ slot.state = "LOADED"
      \/ slot \in Arrived(slot.frame) /\ Sound(slot.frame)
  <2>1. CASE slot = Loaded
    BY <2>1 DEF Loaded
  <2>2. CASE \E f : Sound(f) /\ slot \in Arrived(f)
    <3>1. PICK f : Sound(f) /\ slot \in Arrived(f)
      BY <2>2
    <3>2. slot.frame = f
      BY <3>1 DEF Arrived
    <3> QED BY <3>1, <3>2
  <2> QED BY <2>1, <2>2
<1>3. \A f : Sound(f)' = Sound(f)
  BY DEF Sound
<1>4. \A t \in 0..1 : slots'[t] = IF t = s THEN slot ELSE slots[t]
  BY <1>1
<1>5. SlotRecords'
  <2>1. slots' = [t \in 0..1 |-> slots'[t]]
    BY <1>1
  <2>2. \A t \in 0..1 : Pending(t)' => slots'[t] \in Arrived(slots'[t].frame)
    BY <1>1, <1>2, <1>4 DEF SlotRecords, Pending
  <2> QED BY <2>1, <2>2 DEF SlotRecords
<1>6. \A t \in 0..1 : Pending(t)' => Sound(slots'[t].frame)
  BY <1>1, <1>2, <1>4 DEF OriginInv, Pending
<1>7. OriginInv'
  BY <1>1, <1>3, <1>6 DEF OriginInv, ipVars
<1>8. BoundSound'
  BY <1>1 DEF BoundSound, ipVars
<1> QED
  BY <1>5, <1>7, <1>8 DEF BoundInv

(* So does all network code.                                                *)
LEMMA BoundNetCode ==
    ASSUME StackInv, BoundInv, NetCode
    PROVE  BoundInv'
<1>1. Main0' = Main0
  BY NetCodeStack
<1>2. NetRecord /\ OriginInv
  BY DEF BoundInv
<1>3. CASE Poll \/ Check \/ ServiceBegins \/ \E s \in 0..1 : SkipSlot(s)
  BY <1>1, <1>3, BoundQuiet DEF Poll, Check, ServiceBegins, SkipSlot, ipVars
<1>4. CASE Resolve
  <2>1. UNCHANGED <<slots, my_ip, dhcp_state, net>> /\ (cached_mac' = FALSE \/ cached_mac' = cached_mac)
    BY <1>4 DEF Resolve
  <2>2. NetRecord' /\ SlotRecords' /\ BoundSound'
    BY <2>1 DEF BoundInv, NetRecord, SlotRecords, BoundSound, Pending
  <2>3. cached_mac' \in BOOLEAN /\ (cached_mac' => net.answers)
    <3>1. CASE cached_mac' = FALSE
      BY <3>1
    <3>2. CASE cached_mac' = cached_mac
      BY <1>2, <3>2 DEF OriginInv
    <3> QED BY <2>1, <3>1, <3>2
  <2>4. OriginInv'
    BY <1>1, <1>2, <2>1, <2>3 DEF OriginInv, Pending, Sound
  <2> QED BY <2>2, <2>4 DEF BoundInv
<1>5. CASE Try
  <2>1. UNCHANGED <<slots, ipVars>>
        /\ (net' = net \/ (net.answers /\ net' = [net EXCEPT !.air = net.air \cup {[type |-> "arp_reply"]}]))
    BY <1>5 DEF Try
  <2>2. CASE net' = net
    BY <1>1, <2>1, <2>2, BoundQuiet DEF ipVars
  <2>3. CASE net.answers /\ net' = [net EXCEPT !.air = net.air \cup {[type |-> "arp_reply"]}]
    <3>1. /\ NetRecord' /\ net'.answers = net.answers /\ net'.zero = net.zero /\ net'.heard = net.heard
          /\ net'.foreign = net.foreign /\ net'.leased = net.leased
          /\ net'.air = net.air \cup {[type |-> "arp_reply"]}
      BY <1>2, <2>3 DEF NetRecord
    <3>2. \A f \in net'.air : f \in net.air \/ Sound(f)'
      BY <2>3, <3>1 DEF Sound
    <3> QED BY <1>1, <1>2, <2>1, <3>1, <3>2, BoundNet DEF ipVars, OriginInv
  <2> QED BY <2>1, <2>2, <2>3
<1>6. ASSUME NEW s \in 0..1, Process(s) PROVE BoundInv'
  BY <1>1, <1>6, BoundProcess
<1>7. ASSUME NEW s \in 0..1, FreeSlot(s) PROVE BoundInv'
  <2>1. /\ slots' = [slots EXCEPT ![s] = Loaded] /\ UNCHANGED ipVars
        /\ (net' = [net EXCEPT !.trouble = First("overwritten")] \/ net' = net)
    BY <1>7 DEF FreeSlot
  <2>2. /\ NetRecord' /\ net'.answers = net.answers /\ net'.zero = net.zero /\ net'.heard = net.heard
        /\ net'.foreign = net.foreign /\ net'.leased = net.leased /\ net'.air = net.air
    BY <1>2, <2>1 DEF NetRecord
  <2> QED BY <1>1, <2>1, <2>2, BoundSlot
<1>8. CASE RequestSend
  BY <1>1, <1>8, BoundSend DEF RequestSend
<1> QED
  BY <1>3, <1>4, <1>5, <1>6, <1>7, <1>8 DEF NetCode, Service

(* So does the arrival of a frame.                                          *)
LEMMA BoundDeliver ==
    ASSUME BoundInv, NEW f \in net.air, Deliver(f)
    PROVE  BoundInv'
<1>1. NetRecord /\ OriginInv /\ Main0' = Main0 /\ UNCHANGED ipVars
  BY DEF BoundInv, Deliver, Main0
<1>2. Sound(f)
  BY <1>1 DEF OriginInv
<1>3. /\ NetRecord' /\ net'.answers = net.answers /\ net'.zero = net.zero /\ net'.heard = net.heard
      /\ net'.foreign = net.foreign /\ net'.leased = net.leased /\ net'.air = net.air \ {f}
  BY <1>1 DEF Deliver, NetRecord
<1>4. CASE UNCHANGED slots
  BY <1>1, <1>3, <1>4, BoundNet DEF ipVars, OriginInv
<1>5. CASE \E s \in 0..1 : slots' = [slots EXCEPT ![s] = [state |-> "PENDING", frame |-> f, seen |-> FALSE]]
  <2>1. PICK s \in 0..1 : slots' = [slots EXCEPT ![s] = [state |-> "PENDING", frame |-> f, seen |-> FALSE]]
    BY <1>5
  <2> DEFINE slot == [state |-> "PENDING", frame |-> f, seen |-> FALSE]
  <2>2. \E g : Sound(g) /\ slot \in Arrived(g)
    BY <1>2 DEF Arrived
  <2>3. slots' = [slots EXCEPT ![s] = slot]
    BY <2>1
  <2> HIDE DEF slot
  <2> QED BY <1>1, <1>3, <2>2, <2>3, BoundSlot
<1> QED
  BY <1>4, <1>5 DEF Deliver

(* So do the servers, the other boards and a loss.                          *)
LEMMA BoundWorld ==
    ASSUME BoundInv, Replies \/ Loss \/ OtherBoards
    PROVE  BoundInv'
<1>1. NetRecord /\ OriginInv
  BY DEF BoundInv
<1>2. ASSUME NEW f \in net.air, LoseFrame(f) PROVE BoundInv'
  <2>1. /\ NetRecord' /\ net'.answers = net.answers /\ net'.zero = net.zero /\ net'.heard = net.heard
        /\ net'.foreign = net.foreign /\ net'.leased = net.leased /\ net'.air = net.air \ {f}
    BY <1>1, <1>2 DEF LoseFrame, NetRecord
  <2>2. Main0' = Main0 /\ UNCHANGED <<slots, ipVars>>
    BY <1>2 DEF LoseFrame, Main0
  <2> QED BY <1>1, <2>1, <2>2, BoundNet DEF ipVars, OriginInv
<1>3. ASSUME NEW m \in net.heard, ServerReplies(m) PROVE BoundInv'
  <2>1. Main0' = Main0 /\ UNCHANGED <<slots, ipVars>> /\ net.answers
    BY <1>1, <1>3 DEF ServerReplies, Main0, OriginInv
  <2>2. PICK type \in {"offer", "nak", "ack"} :
           /\ NetRecord' /\ net'.answers = net.answers /\ net'.zero = net.zero
           /\ net'.foreign = net.foreign /\ net'.air = net.air \cup {[type |-> type, ip |-> m.ip]}
           /\ net.leased \subseteq net'.leased /\ (type = "ack" => m.ip \in net'.leased)
    BY <1>1, <1>3 DEF ServerReplies, NetRecord
  <2>3. \A f \in net'.air : f \in net.air \/ Sound(f)'
    BY <2>2 DEF Sound
  <2> QED BY <1>1, <2>1, <2>2, <2>3, BoundNet DEF ipVars, OriginInv
<1>4. ASSUME OtherBoards PROVE BoundInv'
  <2>1. Main0' = Main0 /\ UNCHANGED <<slots, ipVars>>
    BY <1>4 DEF OtherBoards, Main0
  <2>2. PICK type \in {"offer", "ack"}, s \in Servers, b \in {"peer", "other"} :
           net' = [net EXCEPT !.count = net.count + 1,
                              !.air = net.air \cup {[type |-> type, ip |-> [server |-> s, board |-> b]]},
                              !.foreign = net.foreign \cup {[server |-> s, board |-> b]}]
    BY <1>4 DEF OtherBoards
  <2> DEFINE ip == [server |-> s, board |-> b]
  <2>3. /\ NetRecord' /\ net'.answers = net.answers /\ net'.zero = net.zero /\ net'.heard = net.heard
        /\ net'.leased = net.leased
        /\ net'.foreign = net.foreign \cup {ip} /\ net'.air = net.air \cup {[type |-> type, ip |-> ip]}
    BY <1>1, <2>2 DEF NetRecord
  <2> HIDE DEF ip
  <2>4. \A f \in net'.air : f \in net.air \/ Sound(f)'
    BY <2>2, <2>3 DEF Sound
  <2> QED BY <1>1, <2>1, <2>3, <2>4, BoundNet DEF ipVars, OriginInv
<1> QED
  BY <1>2, <1>3, <1>4 DEF Replies, Loss, OtherBoards

(* Every step preserves the invariant of the addresses.                     *)
LEMMA BoundStep == StackInv /\ BoundInv /\ [Next]_vars => BoundInv'
<1> SUFFICES ASSUME StackInv, BoundInv, [Next]_vars PROVE BoundInv'
  OBVIOUS
<1>1. CASE NetCode
  BY <1>1, BoundNetCode
<1>2. CASE Main /\ ~RequestSend
  BY <1>2, BoundMain
<1>3. CASE Tick \/ PhyUp \/ LinkDrops \/ UNCHANGED vars
  <2>1. UNCHANGED <<stack, slots, ipVars, net>>
    BY <1>3 DEF Tick, PhyUp, PhyRestarts, PhyNegotiates, LinkDrops, vars, ipVars
  <2> QED BY <2>1, BoundQuiet DEF ipVars, Main0
<1>4. CASE Delivery
  BY <1>4, BoundDeliver DEF Delivery
<1>5. CASE Replies \/ Loss \/ OtherBoards
  BY <1>5, BoundWorld
<1> QED
  BY <1>1, <1>2, <1>3, <1>4, <1>5 DEF Next, Program, Environment, NetCode

(* The address that the board adopts was leased to it, to an earlier start *)
(* of it or to a peer, by a server that replies to 0.0.0.0, and needs a    *)
(* host that answers for the broadcast address: for any number of servers  *)
(* and of frames of others.                                                *)
THEOREM BoundIsSound == Spec => []BoundSound
<1>1. Init => ReadyInv /\ BoundInv
  BY ReadyInit, BoundInit
<1>2. ReadyInv /\ BoundInv /\ [Next]_vars => (ReadyInv /\ BoundInv)'
  BY ReadyStep, BoundStep DEF ReadyInv
<1>3. BoundInv => BoundSound
  BY DEF BoundInv
<1> QED
  BY <1>1, <1>2, <1>3, PTL DEF Spec
-----------------------------------------------------------------------------
(* Types.  The calls nest to six at most, although microudp_service calls  *)
(* back into dhcp.c, which resolves an address and so serves again: every  *)
(* function has callers of one kind, so dhcp_send is every third call of a *)
(* chain, and a second dhcp_send below the first would need an offer to be *)
(* accepted twice.                                                         *)
ResolvePcs == {"resolve", "try", "poll", "check"}
ServicePcs == {"service", "slot0", "free0", "slot1", "free1"}
CallersOf(pc) ==
    CASE pc \in DelayPcs -> {"unreset", "disable_1000"}
      [] pc \in ResolvePcs -> {"dhcp_boot", "discover_send", "request_send"}
      [] pc \in ServicePcs -> {"boot_loop", "loop", "check"}
      [] pc = "request_send" -> {"free0", "free1"}
      [] OTHER -> {}
Proper(f) ==
    /\ f \in Call
    /\ f.at \in {"poll", "check"} => f.tries < MaxTries
    /\ f.at = "check" => f.timeout < MaxTimeout
NoRequest == \A i \in 1..Len(stack) : stack[i].at # "request_send"
OneRequest == \A i, j \in 1..Len(stack) :
                  stack[i].at = "request_send" /\ stack[j].at = "request_send" => i = j
ShapeInv ==
    /\ \A i \in 1..Len(stack) : Proper(stack[i])
    /\ \A i \in 1..Len(stack)-1 : stack[i].at \in CallersOf(stack[i+1].at)
    /\ OneRequest
    /\ dhcp_state = "SELECTING" \/ offered_ip \notin Lease => NoRequest

(* A step that accepts no offer, or makes one acceptable while no request  *)
(* is being sent.                                                          *)
Quiet == NoRequest \/ UNCHANGED <<dhcp_state, offered_ip>>
                   \/ (dhcp_state' # "SELECTING" /\ UNCHANGED offered_ip)

(* A chain of more than six calls would hold two requests.                 *)
LEMMA ShapeDepth ==
    ASSUME StackInv, ShapeInv
    PROVE  Len(stack) \in 1..6
<1>1. Len(stack) \in Nat /\ Len(stack) >= 1
  BY LenProperties DEF StackInv
<1>2. SUFFICES ASSUME Len(stack) >= 7 PROVE FALSE
  <2>1. \A n \in Nat : n >= 1 /\ ~(n >= 7) => n \in 1..6
    OBVIOUS
  <2> QED BY <1>1, <2>1
<1>3. \A i \in 2..7 : stack[i].at \in NetPcs
  <2>1. \A n \in Nat : n >= 7 => n # 1 /\ n # 2 /\ (\A i \in 2..7 : i \in 2..n)
    OBVIOUS
  <2>2. \A i \in 2..Len(stack) : stack[i].at \in NetPcs
    BY <1>1, <1>2, <2>1 DEF StackInv
  <2> QED BY <1>1, <1>2, <2>1, <2>2
<1>4. \A i \in 2..6 : stack[i].at \in CallersOf(stack[i+1].at)
  BY <1>1, <1>2 DEF ShapeInv
<1>5. \A i \in 2..7 : stack[i].at \in ResolvePcs \/ stack[i].at \in ServicePcs \/ stack[i].at = "request_send"
  BY <1>3 DEF NetPcs, Pcs, MainPcs, DelayPcs, ResolvePcs, ServicePcs
<1>6. \A i \in 2..6 :
         /\ stack[i+1].at \in ResolvePcs => stack[i].at = "request_send"
         /\ stack[i+1].at \in ServicePcs => stack[i].at \in ResolvePcs
         /\ stack[i+1].at = "request_send" => stack[i].at \in ServicePcs
  <2> TAKE i \in 2..6
  <2>1. i + 1 \in 2..7
    OBVIOUS
  <2> DEFINE a == stack[i].at
             b == stack[i+1].at
  <2>2. a \in CallersOf(b) /\ a \in NetPcs /\ b \in NetPcs
    BY <1>3, <1>4, <2>1
  <2> HIDE DEF a, b
  <2>3. /\ b \in ResolvePcs => a = "request_send"
        /\ b \in ServicePcs => a \in ResolvePcs
        /\ b = "request_send" => a \in ServicePcs
    BY <2>2 DEF CallersOf, NetPcs, Pcs, MainPcs, DelayPcs, ResolvePcs, ServicePcs
  <2> QED BY <2>3 DEF a, b
<1>7. PICK i \in {2, 3, 4} : stack[i].at = "request_send" /\ stack[i+3].at = "request_send"
  <2> DEFINE R(i) == stack[i].at \in ResolvePcs
             V(i) == stack[i].at \in ServicePcs
             Q(i) == stack[i].at = "request_send"
  <2>1. R(7) \/ V(7) \/ Q(7)
    BY <1>5
  <2>2. (R(7) => Q(6)) /\ (V(7) => R(6)) /\ (Q(7) => V(6))
    <3>1. 6 \in 2..6 /\ 6 + 1 = 7 OBVIOUS
    <3> QED BY <1>6, <3>1
  <2>3. (R(6) => Q(5)) /\ (V(6) => R(5)) /\ (Q(6) => V(5))
    <3>1. 5 \in 2..6 /\ 5 + 1 = 6 OBVIOUS
    <3> QED BY <1>6, <3>1
  <2>4. (R(5) => Q(4)) /\ (V(5) => R(4)) /\ (Q(5) => V(4))
    <3>1. 4 \in 2..6 /\ 4 + 1 = 5 OBVIOUS
    <3> QED BY <1>6, <3>1
  <2>5. (R(4) => Q(3)) /\ (V(4) => R(3)) /\ (Q(4) => V(3))
    <3>1. 3 \in 2..6 /\ 3 + 1 = 4 OBVIOUS
    <3> QED BY <1>6, <3>1
  <2>6. (R(3) => Q(2)) /\ (V(3) => R(2)) /\ (Q(3) => V(2))
    <3>1. 2 \in 2..6 /\ 2 + 1 = 3 OBVIOUS
    <3> QED BY <1>6, <3>1
  <2>7. (Q(2) /\ Q(5)) \/ (Q(3) /\ Q(6)) \/ (Q(4) /\ Q(7))
    <3> HIDE DEF R, V, Q
    <3> QED BY <2>1, <2>2, <2>3, <2>4, <2>5, <2>6
  <2> QED BY <2>7
<1>8. i \in 1..Len(stack) /\ i + 3 \in 1..Len(stack) /\ i # i + 3
  BY <1>1, <1>2
<1> QED
  BY <1>7, <1>8 DEF ShapeInv, OneRequest

(* The innermost call goes on at a place of the same function.             *)
LEMMA ShapeReplaced ==
    ASSUME StackInv, ShapeInv, NEW top \in Frames, Proper(top), Quiet,
           CallersOf(top.at) = CallersOf(Top.at), top.at # "request_send", Top.at # "request_send",
           stack' = [stack EXCEPT ![Len(stack)] = top]
    PROVE  ShapeInv'
<1>1. /\ stack' \in Seq(Frames) /\ Len(stack') = Len(stack) /\ Len(stack) \in Nat
      /\ \A i \in 1..Len(stack)-1 : stack'[i] = stack[i]
      /\ stack'[Len(stack)] = top
  BY ReplaceStack, LenProperties DEF StackInv
<1>2. \A i \in 1..Len(stack) : stack'[i] = stack[i] \/ (i = Len(stack) /\ stack'[i] = top)
  <2>1. \A n \in Nat : \A i \in 1..n : i \in 1..n-1 \/ i = n
    OBVIOUS
  <2> QED BY <1>1, <2>1
<1>3. \A i \in 1..Len(stack) : stack'[i].at = "request_send" <=> stack[i].at = "request_send"
  BY <1>2 DEF Top
<1>4. \A i \in 1..Len(stack') : Proper(stack'[i])
  BY <1>1, <1>2 DEF ShapeInv, Proper, Call
<1>5. \A i \in 1..Len(stack')-1 : stack'[i].at \in CallersOf(stack'[i+1].at)
  <2> TAKE i \in 1..Len(stack')-1
  <2>1. stack'[i] = stack[i] /\ i + 1 \in 1..Len(stack) /\ i \in 1..Len(stack)-1
    <3>1. \A n \in Nat : \A j \in 1..n-1 : j + 1 \in 1..n
      OBVIOUS
    <3>2. i \in 1..Len(stack)-1
      BY <1>1
    <3> QED BY <1>1, <3>1, <3>2
  <2>2. CallersOf(stack'[i+1].at) = CallersOf(stack[i+1].at)
    BY <1>2, <2>1 DEF Top
  <2> QED BY <1>1, <2>1, <2>2 DEF ShapeInv
<1>6. OneRequest' /\ (NoRequest' <=> NoRequest)
  <2>1. NoRequest' <=> NoRequest
    BY <1>1, <1>3 DEF NoRequest
  <2>2. OneRequest'
    BY <1>1, <1>3 DEF ShapeInv, OneRequest
  <2> QED BY <2>1, <2>2
<1>7. dhcp_state' = "SELECTING" \/ offered_ip' \notin Lease => NoRequest
  BY DEF ShapeInv, Quiet
<1> QED
  BY <1>4, <1>5, <1>6, <1>7 DEF ShapeInv, CallersOf, Lease

(* The innermost call returns.                                             *)
LEMMA ShapeReturned ==
    ASSUME StackInv, ShapeInv, Len(stack) >= 2, Return, UNCHANGED <<dhcp_state, offered_ip>>
    PROVE  ShapeInv'
<1>1. /\ Len(stack) \in Nat /\ Len(stack') = Len(stack) - 1
      /\ \A i \in 1..Len(stack)-1 : stack'[i] = stack[i]
  BY ReturnStack, LenProperties DEF StackInv
<1>2. \A i \in 1..Len(stack') : i \in 1..Len(stack) /\ stack'[i] = stack[i]
  BY <1>1
<1>3. \A i \in 1..Len(stack')-1 : i \in 1..Len(stack)-1 /\ stack'[i] = stack[i] /\ stack'[i+1] = stack[i+1]
  BY <1>1
<1>4. \A i \in 1..Len(stack') : Proper(stack'[i])
  BY <1>2 DEF ShapeInv
<1>5. \A i \in 1..Len(stack')-1 : stack'[i].at \in CallersOf(stack'[i+1].at)
  BY <1>3 DEF ShapeInv
<1>6. OneRequest' /\ (NoRequest => NoRequest')
  BY <1>2 DEF ShapeInv, OneRequest, NoRequest
<1> QED
  BY <1>4, <1>5, <1>6 DEF ShapeInv

(* The innermost call calls: a function with a caller of its kind, or      *)
(* dhcp_send, which resolves an address first, when an offer was accepted. *)
LEMMA ShapeCalls ==
    ASSUME StackInv, ShapeInv, NEW pc \in Pcs, NEW pcs \in Seq(Pcs), CallTo(pcs, pc),
           Proper([Top EXCEPT !.at = pc]), CallersOf(pc) = CallersOf(Top.at),
           pc # "request_send", Top.at # "request_send",
           Len(pcs) >= 1, pc \in CallersOf(pcs[1]),
           \A i \in 1..Len(pcs) : pcs[i] \notin {"poll", "check"},
           \A i \in 1..Len(pcs)-1 : pcs[i] \in CallersOf(pcs[i+1]),
           \/ Quiet /\ \A i \in 1..Len(pcs) : pcs[i] # "request_send"
           \/ /\ NoRequest /\ dhcp_state' # "SELECTING" /\ offered_ip' \in Lease
              /\ \A i \in 2..Len(pcs) : pcs[i] # "request_send"
    PROVE  ShapeInv'
<1> DEFINE n == Len(stack)
           k == Len(pcs)
<1>1. n \in Nat /\ n >= 1 /\ k \in Nat /\ k >= 1 /\ stack \in Seq(Frames)
  BY LenProperties DEF StackInv
<1>2. /\ Len(stack') = n + k
      /\ \A i \in 1..n-1 : stack'[i] = stack[i]
      /\ stack'[n] = [Top EXCEPT !.at = pc] /\ stack'[n].at = pc
      /\ \A i \in 1..k : stack'[n + i] = New(pcs[i]) /\ stack'[n + i].at = pcs[i]
  BY <1>1, CallStack
<1>3. /\ \A i \in 1..n : Proper(stack[i])
      /\ \A i \in 1..n-1 : stack[i].at \in CallersOf(stack[i+1].at)
      /\ OneRequest /\ (dhcp_state = "SELECTING" \/ offered_ip \notin Lease => NoRequest)
      /\ Top = stack[n] /\ (NoRequest <=> \A i \in 1..n : stack[i].at # "request_send")
      /\ OneRequest <=> \A i, j \in 1..n : stack[i].at = "request_send" /\ stack[j].at = "request_send" => i = j
  BY DEF ShapeInv, Top, NoRequest, OneRequest
<1> HIDE DEF n, k
<1>4. \A i \in 1..k : Proper(New(pcs[i]))
  <2> TAKE i \in 1..k
  <2>1. pcs[i] \in Pcs /\ pcs[i] \notin {"poll", "check"}
    BY ElementOfSeq DEF k
  <2>2. 0 \in 0..MaxTries /\ 0 \in 0..MaxTimeout
    BY TestAssumption
  <2> QED BY <2>1, <2>2 DEF Proper, New, Call
<1>5. \A i \in 1..n+k : i \in 1..n-1 \/ i = n \/ \E j \in 1..k : i = n + j
  <2> TAKE i \in 1..n+k
  <2>1. CASE i > n
    <3>1. i - n \in 1..k /\ i = n + (i - n)
      BY <1>1, <2>1
    <3> QED BY <3>1
  <2>2. CASE ~(i > n)
    BY <1>1, <2>2
  <2> QED BY <2>1, <2>2
<1>6. \A i \in 1..Len(stack') : Proper(stack'[i])
  <2> SUFFICES ASSUME NEW i \in 1..n+k PROVE Proper(stack'[i])
    BY <1>2
  <2>1. CASE i \in 1..n-1
    <3>1. i \in 1..n
      BY <1>1, <2>1
    <3> QED BY <1>2, <1>3, <2>1, <3>1
  <2>2. CASE i = n
    BY <1>2, <2>2
  <2>3. CASE \E j \in 1..k : i = n + j
    <3>1. PICK j \in 1..k : i = n + j
      BY <2>3
    <3>2. stack'[i] = stack'[n + j]
      BY <3>1
    <3> QED BY <1>2, <1>4, <3>1, <3>2, SMTT(30)
  <2> QED BY <1>5, <2>1, <2>2, <2>3
<1>7. \A i \in 1..Len(stack')-1 : stack'[i].at \in CallersOf(stack'[i+1].at)
  <2> SUFFICES ASSUME NEW i \in 1..n+k-1 PROVE stack'[i].at \in CallersOf(stack'[i+1].at)
    BY <1>1, <1>2, SMTT(30)
  <2>1. CASE i < n - 1
    <3>1. i \in 1..n-1 /\ i + 1 \in 1..n-1
      BY <1>1, <2>1
    <3> QED BY <1>2, <1>3, <3>1
  <2>2. CASE i = n - 1
    <3>1. i \in 1..n-1 /\ i + 1 = n
      BY <1>1, <2>2
    <3>2. stack'[i] = stack[i] /\ stack'[i+1].at = pc /\ stack[i].at \in CallersOf(Top.at)
      BY <1>2, <1>3, <3>1
    <3> QED BY <3>2
  <2>3. CASE i = n
    <3>1. 1 \in 1..k /\ i + 1 = n + 1
      BY <1>1, <2>3
    <3> QED BY <1>2, <2>3, <3>1
  <2>4. CASE i > n
    <3> DEFINE j == i - n
    <3>1. j \in 1..k-1 /\ j \in 1..k /\ j + 1 \in 1..k /\ i = n + j /\ i + 1 = n + (j + 1)
      BY <1>1, <2>4
    <3> HIDE DEF j
    <3>2. stack'[i].at = pcs[j] /\ stack'[i+1].at = pcs[j+1]
      BY <1>2, <3>1
    <3> QED BY <3>1, <3>2 DEF k
  <2> QED BY <1>1, <2>1, <2>2, <2>3, <2>4
<1>8. ASSUME NEW i \in 1..n+k, stack'[i].at = "request_send"
      PROVE  (i \in 1..n /\ stack[i].at = "request_send") \/ \E j \in 1..k : i = n + j /\ pcs[j] = "request_send"
  <2>1. CASE i \in 1..n-1
    <3>1. i \in 1..n
      BY <1>1, <2>1
    <3> QED BY <1>2, <1>8, <2>1, <3>1
  <2>2. CASE i = n
    BY <1>2, <1>8, <2>2
  <2>3. CASE \E j \in 1..k : i = n + j
    BY <1>2, <1>8, <2>3
  <2> QED BY <1>5, <2>1, <2>2, <2>3
<1>9. CASE Quiet /\ \A i \in 1..k : pcs[i] # "request_send"
  <2>1. \A i \in 1..n+k : stack'[i].at = "request_send" => i \in 1..n /\ stack[i].at = "request_send"
    BY <1>8, <1>9
  <2>2. OneRequest'
    BY <1>2, <1>3, <2>1 DEF OneRequest
  <2>3. NoRequest => NoRequest'
    BY <1>2, <1>3, <2>1 DEF NoRequest
  <2>4. dhcp_state' = "SELECTING" \/ offered_ip' \notin Lease => NoRequest
    BY <1>3, <1>9 DEF Quiet
  <2> QED BY <1>6, <1>7, <2>2, <2>3, <2>4 DEF ShapeInv
<1>10. CASE /\ NoRequest /\ dhcp_state' # "SELECTING" /\ offered_ip' \in Lease
            /\ \A i \in 2..k : pcs[i] # "request_send"
  <2>1. \A i \in 1..n+k : stack'[i].at = "request_send" => i = n + 1
    <3> SUFFICES ASSUME NEW i \in 1..n+k, stack'[i].at = "request_send" PROVE i = n + 1
      OBVIOUS
    <3>1. PICK j \in 1..k : i = n + j /\ pcs[j] = "request_send"
      BY <1>3, <1>8, <1>10
    <3>2. j = 1
      <4>1. j \in 2..k \/ j = 1
        BY <1>1
      <4> QED BY <1>10, <3>1, <4>1
    <3> QED BY <3>1, <3>2
  <2>2. OneRequest'
    BY <1>2, <2>1 DEF OneRequest
  <2> QED BY <1>6, <1>7, <1>10, <2>2 DEF ShapeInv
<1> QED
  BY <1>9, <1>10 DEF k

(* A call that may go anywhere but to a place with a bound on its counts.  *)
LEMMA TopProper ==
    ASSUME StackInv, ShapeInv
    PROVE  /\ Proper(Top) /\ Top \in Frames /\ Len(stack) >= 1 /\ stack \in Seq(Frames)
           /\ \A pc \in Pcs \ {"poll", "check"} : Proper([Top EXCEPT !.at = pc])
<1>1. Len(stack) \in Nat /\ Len(stack) \in 1..Len(stack) /\ Top \in Frames
  BY LenProperties, ElementOfSeq DEF StackInv, Top
<1>2. Proper(Top)
  BY <1>1 DEF ShapeInv, Top
<1>3. \A pc \in Pcs \ {"poll", "check"} : Proper([Top EXCEPT !.at = pc])
  BY <1>2 DEF Proper, Call
<1> QED
  BY <1>1, <1>2, <1>3 DEF StackInv

(* The innermost call goes on in the same function.                        *)
LEMMA ShapeGoes ==
    ASSUME StackInv, ShapeInv, NEW pc \in Pcs, Goto(pc), Quiet, Proper([Top EXCEPT !.at = pc]),
           CallersOf(pc) = CallersOf(Top.at), pc # "request_send", Top.at # "request_send"
    PROVE  ShapeInv'
<1> DEFINE top == [Top EXCEPT !.at = pc]
<1>1. /\ top \in Frames /\ stack' = [stack EXCEPT ![Len(stack)] = top]
      /\ top.at = pc /\ Proper(top)
  BY TopProper, GotoReplaces
<1> HIDE DEF top
<1> QED
  BY <1>1, ShapeReplaced

(* The innermost call calls one function.                                  *)
LEMMA ShapeCallsOne ==
    ASSUME StackInv, ShapeInv, NEW pc \in Pcs, NEW called \in Pcs, CallTo(<<called>>, pc), Quiet,
           Proper([Top EXCEPT !.at = pc]), CallersOf(pc) = CallersOf(Top.at),
           pc # "request_send", Top.at # "request_send", pc \in CallersOf(called),
           called \notin {"poll", "check", "request_send"}
    PROVE  ShapeInv'
<1> DEFINE pcs == <<called>>
<1>1. pcs \in Seq(Pcs) /\ Len(pcs) = 1 /\ pcs[1] = called /\ CallTo(pcs, pc)
  OBVIOUS
<1> HIDE DEF pcs
<1>2. /\ \A i \in 1..Len(pcs) : pcs[i] \notin {"poll", "check"} /\ pcs[i] # "request_send"
      /\ \A i \in 1..Len(pcs)-1 : pcs[i] \in CallersOf(pcs[i+1])
      /\ Len(pcs) >= 1 /\ pc \in CallersOf(pcs[1])
  BY <1>1
<1> QED
  BY <1>1, <1>2, ShapeCalls

(* Steps of main and of the delay preserve the shape of the stack.         *)
LEMMA ShapeMain ==
    ASSUME StackInv, ShapeInv, Main, ~RequestSend
    PROVE  ShapeInv'
<1> USE DEF At
<1>1. /\ \A pc \in MainPcs : CallersOf(pc) = {} /\ pc \in Pcs /\ pc \notin {"request_send", "poll", "check"}
      /\ \A pc \in DelayPcs : /\ CallersOf(pc) = {"unreset", "disable_1000"}
                              /\ pc \in Pcs /\ pc \notin {"request_send", "poll", "check"}
  BY DEF CallersOf, MainPcs, DelayPcs, ResolvePcs, ServicePcs, Pcs
<1>2. /\ "resolve" \in Pcs /\ CallersOf("resolve") = {"dhcp_boot", "discover_send", "request_send"}
      /\ "service" \in Pcs /\ CallersOf("service") = {"boot_loop", "loop", "check"}
  BY DEF CallersOf, DelayPcs, ResolvePcs, ServicePcs, Pcs
<1>3. \A pc \in Pcs \ {"poll", "check"} : Proper([Top EXCEPT !.at = pc])
  BY TopProper
<1>4. Top.at \in MainPcs => NoRequest
  <2> SUFFICES ASSUME Top.at \in MainPcs PROVE NoRequest
    OBVIOUS
  <2>1. Len(stack) = 1 /\ stack[1].at \in MainPcs
    BY MainTop DEF Main0
  <2> QED BY <1>1, <2>1 DEF NoRequest
<1>5. Top.at \in DelayPcs => Len(stack) = 2
  BY DelayTop
<1>6. ASSUME NEW pc \in MainPcs, Goto(pc), Top.at \in MainPcs PROVE ShapeInv'
  BY <1>1, <1>3, <1>4, <1>6, ShapeGoes DEF Quiet
<1>7. ASSUME NEW pc \in MainPcs, NEW called \in {"delay", "resolve", "service"}, CallTo(<<called>>, pc),
             Top.at \in MainPcs, pc \in CallersOf(called)
      PROVE  ShapeInv'
  <2>1. called \in Pcs /\ called \notin {"poll", "check", "request_send"}
    BY <1>1, <1>2 DEF DelayPcs
  <2> QED BY <1>1, <1>3, <1>4, <1>7, <2>1, ShapeCallsOne DEF Quiet
<1>8. ASSUME NEW pc \in DelayPcs, Goto(pc), Top.at \in DelayPcs, UNCHANGED <<dhcp_state, offered_ip>>
      PROVE  ShapeInv'
  BY <1>1, <1>3, <1>8, ShapeGoes DEF Quiet
<1>9. CASE PhyReset
  BY <1>1, <1>7, <1>9 DEF PhyReset, MainPcs, DelayPcs
<1>10. CASE DelayCounter \/ DelayCompare \/ DelayControl
  <2>1. UNCHANGED <<dhcp_state, offered_ip>>
    BY <1>10 DEF DelayCounter, DelayCompare, DelayControl, ipVars
  <2> QED BY <1>8, <1>10, <2>1 DEF DelayCounter, DelayCompare, DelayControl, DelayPcs
<1>11. CASE DelayWait
  <2>1. Top.at \in DelayPcs /\ Return /\ UNCHANGED <<dhcp_state, offered_ip>>
    BY <1>11 DEF DelayWait, DelayPcs, ipVars
  <2>2. Len(stack) >= 2
    BY <1>5, <2>1
  <2> QED BY <2>1, <2>2, ShapeReturned
<1>12. CASE eth_disable_1000 \/ eth_soft_reset \/ WaitLink \/ DiscoverSend
  BY <1>6, <1>12 DEF eth_disable_1000, eth_soft_reset, WaitLink, DiscoverSend, MainPcs
<1>13. CASE microudp_start \/ dhcp_discover
  BY <1>2, <1>7, <1>13 DEF microudp_start, dhcp_discover, MainPcs
<1>14. CASE ServeLoop
  BY <1>2, <1>6, <1>7, <1>14 DEF ServeLoop, MainPcs
<1> QED
  BY <1>9, <1>10, <1>11, <1>12, <1>13, <1>14 DEF Main, Delays

(* The registers, the PHY, the slots and the network.                      *)
BoundedPhys == [held : 0..Delay, rested : 0..Delay, resetting : BOOLEAN, gigabit : BOOLEAN,
                link : {"down", "100", "1000"}, drops : 0..MaxDrops]
EthTypeOK == /\ setup \in BOOLEAN /\ en0 \in BOOLEAN /\ counter0 \in 0..Delay /\ compare0 \in {-1, Delay}
             /\ phy \in BoundedPhys
Messages == [type : {"discover", "request"}, ip : Lease]
NetRecords == [answers : BOOLEAN, zero : SUBSET Servers, air : SUBSET Frame, heard : SUBSET Messages,
               leased : SUBSET Lease, foreign : SUBSET Lease, count : 0..MaxForeign,
               trouble : {"none", "lost", "overwritten", "nak", "unsent"}]
IpTypeOK ==
    /\ cached_ip \in {"none", "broadcast"} /\ cached_mac \in BOOLEAN
    /\ my_ip \in Lease \cup {NoIp} /\ dhcp_state \in {"OFF", "SELECTING", "REQUESTING", "BOUND"}
    /\ offered_ip \in Lease \cup {NoIp}
NetTypeOK == slots \in [0..1 -> Slot] /\ IpTypeOK /\ net \in NetRecords

(* What a pending slot holds.                                              *)
LEMMA PendingFrame ==
    ASSUME NetTypeOK, NEW s \in 0..1, Pending(s)
    PROVE  /\ slots[s] \in [state : {"PENDING"}, frame : Frame, seen : BOOLEAN]
           /\ slots[s].frame \in Frame
           /\ slots[s].frame.type # "arp_reply" => slots[s].frame.ip \in Lease
<1>1. slots[s] \in Slot
  BY DEF NetTypeOK
<1>2. slots[s] \in [state : {"PENDING"}, frame : Frame, seen : BOOLEAN]
  BY <1>1 DEF Slot, Pending
<1>3. \A f \in Frame : f.type # "arp_reply" => f.ip \in Lease
  BY DEF Frame
<1> QED
  BY <1>2, <1>3

(* Steps of the network code preserve the shape of the stack.              *)
LEMMA ShapeNet ==
    ASSUME StackInv, ShapeInv, NetTypeOK, NetCode
    PROVE  ShapeInv'
<1> USE DEF At
<1>1. /\ \A pc \in ResolvePcs : /\ CallersOf(pc) = {"dhcp_boot", "discover_send", "request_send"}
                                /\ pc \in Pcs /\ pc \in NetPcs /\ pc # "request_send"
      /\ \A pc \in ServicePcs : /\ CallersOf(pc) = {"boot_loop", "loop", "check"} /\ pc \in Pcs
                                /\ pc \in NetPcs /\ pc \notin {"request_send", "poll", "check"}
      /\ "request_send" \in NetPcs /\ "request_send" \in Pcs
  BY DEF CallersOf, MainPcs, DelayPcs, NetPcs, ResolvePcs, ServicePcs, Pcs
<1>2. \A s \in 0..1 : PcOf("slot", s) \in {"slot0", "slot1"} /\ PcOf("free", s) \in {"free0", "free1"}
  BY DEF PcOf
<1>3. Proper(Top) /\ \A pc \in Pcs \ {"poll", "check"} : Proper([Top EXCEPT !.at = pc])
  BY TopProper
<1>4. ASSUME Top.at \in NetPcs, Return, UNCHANGED <<dhcp_state, offered_ip>> PROVE ShapeInv'
  BY <1>4, NetBelowMain, ShapeReturned
<1>5. ASSUME NEW pc \in ServicePcs, Goto(pc), Top.at \in ServicePcs,
             UNCHANGED <<dhcp_state, offered_ip>> \/ (dhcp_state' # "SELECTING" /\ UNCHANGED offered_ip)
      PROVE  ShapeInv'
  BY <1>1, <1>3, <1>5, ShapeGoes DEF Quiet
<1>6. CASE Resolve
  <2>1. Top.at = "resolve" /\ UNCHANGED <<dhcp_state, offered_ip>> /\ (Return \/ Goto("try"))
    BY <1>6 DEF Resolve
  <2> QED BY <1>1, <1>3, <1>4, <2>1, ShapeGoes DEF Quiet, ResolvePcs
<1>7. CASE Try
  <2>1. Top.at = "try" /\ UNCHANGED <<dhcp_state, offered_ip>> /\ (Return \/ (Top.tries # MaxTries /\ Goto("poll")))
    BY <1>7 DEF Try, ipVars
  <2>2. CASE Top.tries # MaxTries /\ Goto("poll")
    <3>1. Proper([Top EXCEPT !.at = "poll"])
      BY <1>1, <1>3, <2>2, TestAssumption DEF Proper, Call, ResolvePcs
    <3> QED BY <1>1, <2>1, <2>2, <3>1, ShapeGoes DEF Quiet, ResolvePcs
  <2> QED BY <1>1, <1>4, <2>1, <2>2 DEF ResolvePcs
<1>8. CASE Poll
  <2>1. Top.at = "poll" /\ Top \in Call /\ Top.tries < MaxTries /\ UNCHANGED <<dhcp_state, offered_ip>>
    BY <1>3, <1>8 DEF Poll, Proper, ipVars
  <2>2. CASE Top.timeout < MaxTimeout
    <3>1. Proper([Top EXCEPT !.at = "check"])
      BY <1>1, <2>1, <2>2 DEF Proper, Call, ResolvePcs
    <3>2. CallTo(<<"service">>, "check")
      BY <1>8, <2>2 DEF Poll
    <3>3. "check" \in Pcs /\ "service" \in Pcs /\ CallersOf("check") = CallersOf("poll") /\ "check" \in CallersOf("service")
      BY <1>1 DEF ResolvePcs, ServicePcs
    <3> QED BY <2>1, <3>1, <3>2, <3>3, ShapeCallsOne DEF Quiet
  <2>3. CASE ~(Top.timeout < MaxTimeout)
    <3> DEFINE top == [at |-> "try", tries |-> Top.tries + 1, timeout |-> 0]
    <3>1. top \in Frames /\ Proper(top) /\ top.at = "try" /\ stack' = [stack EXCEPT ![Len(stack)] = top]
      <4>1. Top.tries + 1 \in 0..MaxTries /\ 0 \in 0..MaxTimeout /\ Top.tries + 1 \in Int
        BY <2>1, TestAssumption DEF Call
      <4> QED BY <1>1, <1>8, <2>3, <4>1 DEF Poll, Proper, Call, Frames, ResolvePcs
    <3> HIDE DEF top
    <3> QED BY <1>1, <2>1, <3>1, ShapeReplaced DEF Quiet, ResolvePcs
  <2> QED BY <2>2, <2>3
<1>9. CASE Check
  <2>1. /\ Top.at = "check" /\ Top \in Call /\ Top.tries < MaxTries /\ Top.timeout < MaxTimeout
        /\ UNCHANGED <<dhcp_state, offered_ip>>
    BY <1>3, <1>9 DEF Check, Proper, ipVars
  <2> DEFINE top == [at |-> "poll", tries |-> Top.tries, timeout |-> Top.timeout + 1]
  <2>2. top \in Frames /\ Proper(top) /\ top.at = "poll"
    <3>1. Top.timeout + 1 \in 0..MaxTimeout /\ Top.tries \in 0..MaxTries /\ Top.timeout + 1 \in Int /\ Top.tries \in Int
      BY <2>1, TestAssumption DEF Call
    <3> QED BY <1>1, <2>1, <3>1 DEF Proper, Call, Frames, ResolvePcs
  <2>3. Return \/ stack' = [stack EXCEPT ![Len(stack)] = top]
    BY <1>9 DEF Check
  <2> HIDE DEF top
  <2> QED BY <1>1, <1>4, <2>1, <2>2, <2>3, ShapeReplaced DEF Quiet, ResolvePcs
<1>10. CASE ServiceBegins
  BY <1>1, <1>4, <1>5, <1>10 DEF ServiceBegins, ServicePcs, ipVars
<1>11. ASSUME NEW s \in 0..1, SkipSlot(s) PROVE ShapeInv'
  BY <1>1, <1>2, <1>4, <1>5, <1>11 DEF SkipSlot, ServicePcs, ipVars
<1>12. ASSUME NEW s \in 0..1, FreeSlot(s) PROVE ShapeInv'
  BY <1>1, <1>2, <1>4, <1>5, <1>12 DEF FreeSlot, ServicePcs, ipVars
<1>13. ASSUME NEW s \in 0..1, Process(s) PROVE ShapeInv'
  <2> DEFINE f == slots[s].frame
             free == PcOf("free", s)
  <2>1. Pending(s) /\ Top.at \in ServicePcs /\ free \in {"free0", "free1"}
    BY <1>2, <1>13 DEF Process, ServicePcs
  <2>2. \/ /\ dhcp_state = "SELECTING" /\ f.type = "offer" /\ dhcp_handle_offer(f, s)
        \/ dhcp_handle_ack(f, s)
        \/ Ignore(f, s)
    BY <1>13 DEF Process
  <2>3. CASE dhcp_state = "SELECTING" /\ f.type = "offer" /\ dhcp_handle_offer(f, s)
    <3>1. NoRequest
      BY <2>3 DEF ShapeInv
    <3>2. f.ip \in Lease
      BY <2>1, <2>3, PendingFrame
    <3>3. dhcp_state' # "SELECTING" /\ offered_ip' \in Lease /\ CallTo(<<"request_send", "resolve">>, free)
      BY <2>3, <3>2 DEF dhcp_handle_offer
    <3> DEFINE pcs == <<"request_send", "resolve">>
    <3>4. pcs \in Seq(Pcs) /\ Len(pcs) = 2 /\ pcs[1] = "request_send" /\ pcs[2] = "resolve"
      BY <1>1 DEF ResolvePcs
    <3>5. CallersOf("request_send") = {"free0", "free1"}
      BY DEF CallersOf, DelayPcs, ResolvePcs, ServicePcs
    <3> HIDE DEF pcs
    <3>6. /\ \A i \in 1..Len(pcs) : pcs[i] \notin {"poll", "check"}
          /\ \A i \in 1..Len(pcs)-1 : pcs[i] \in CallersOf(pcs[i+1])
          /\ \A i \in 2..Len(pcs) : pcs[i] # "request_send"
          /\ Len(pcs) >= 1 /\ free \in CallersOf(pcs[1])
      BY <1>1, <2>1, <3>4, <3>5 DEF ResolvePcs
    <3>7. CallTo(pcs, free)
      BY <3>3 DEF pcs
    <3>8. free \in Pcs /\ Proper([Top EXCEPT !.at = free]) /\ CallersOf(free) = CallersOf(Top.at)
          /\ free # "request_send" /\ Top.at # "request_send"
      BY <1>1, <1>3, <2>1 DEF ServicePcs
    <3> HIDE DEF free
    <3> QED BY <3>1, <3>3, <3>4, <3>6, <3>7, <3>8, ShapeCalls
  <2>4. CASE dhcp_handle_ack(f, s) \/ Ignore(f, s)
    <3>1. Goto(free) /\ free \in ServicePcs /\ UNCHANGED offered_ip
          /\ (dhcp_state' = dhcp_state \/ dhcp_state' # "SELECTING")
      BY <2>1, <2>4 DEF dhcp_handle_ack, Ignore, ServicePcs
    <3> QED BY <1>5, <2>1, <3>1
  <2> QED BY <2>2, <2>3, <2>4
<1>14. CASE RequestSend
  BY <1>1, <1>4, <1>14 DEF RequestSend, ipVars
<1> QED
  BY <1>6, <1>7, <1>8, <1>9, <1>10, <1>11, <1>12, <1>13, <1>14 DEF NetCode, Service

(* All types.                                                              *)
TestTypeInv == ReadyInv /\ ShapeInv /\ EthTypeOK /\ NetTypeOK

(* They hold initially.                                                    *)
LEMMA TestTypeInit == Init => TestTypeInv
<1> SUFFICES ASSUME Init PROVE TestTypeInv
  OBVIOUS
<1>1. Delay \in Nat \ {0} /\ MaxTries \in Nat \ {0} /\ MaxTimeout \in Nat /\ MaxForeign \in Nat /\ MaxDrops \in Nat
  BY TestAssumption
<1>2. stack = <<[at |-> "reset", tries |-> 0, timeout |-> 0]>>
  BY DEF Init
<1>3. ShapeInv
  <2>1. Len(stack) = 1 /\ stack[1].at = "reset"
    BY <1>2
  <2>2. Proper(stack[1])
    BY <1>1, <1>2 DEF Proper, Call, Pcs, MainPcs
  <2> QED BY <2>1, <2>2 DEF ShapeInv, OneRequest, NoRequest
<1>4. EthTypeOK
  <2>1. phy = [held |-> 0, rested |-> 0, resetting |-> FALSE, gigabit |-> TRUE, link |-> "down", drops |-> 0]
    BY DEF Init
  <2>2. 0 \in 0..Delay /\ 0 \in 0..MaxDrops
    BY <1>1
  <2>3. phy \in BoundedPhys
    BY <2>1, <2>2 DEF BoundedPhys
  <2>4. setup = FALSE /\ en0 = FALSE /\ counter0 = 0 /\ compare0 = -1
    BY DEF Init
  <2> QED BY <2>2, <2>3, <2>4 DEF EthTypeOK
<1>5. slots \in [0..1 -> Slot] /\ IpTypeOK
  BY DEF Init, IpTypeOK, Slot
<1>6. net \in NetRecords
  <2>1. PICK answers \in BOOLEAN, zero \in SUBSET Servers,
             stale \in {{}} \cup {{f} : f \in [type : {"offer", "ack"}, ip : [server : Servers, board : {"me"}]]} :
            /\ Cardinality(stale) <= MaxForeign
            /\ net = [answers |-> answers, zero |-> zero, air |-> stale, heard |-> {}, leased |-> {},
                      foreign |-> {f.ip : f \in stale}, count |-> Cardinality(stale), trouble |-> "none"]
    BY DEF Init
  <2>2. stale \in SUBSET Frame /\ {f.ip : f \in stale} \in SUBSET Lease
    BY <2>1 DEF Frame, Lease, Boards
  <2>3. Cardinality(stale) \in 0..MaxForeign
    <3>1. IsFiniteSet(stale)
      <4>1. stale = {} \/ \E f : stale = {f}
        BY <2>1
      <4>2. IsFiniteSet({}) /\ \A f : IsFiniteSet({f})
        BY FS_EmptySet, FS_Singleton
      <4> QED BY <4>1, <4>2
    <3>2. Cardinality(stale) \in Nat
      BY <3>1, FS_CardinalityType
    <3> QED BY <1>1, <2>1, <3>2
  <2> QED BY <2>1, <2>2, <2>3 DEF NetRecords
<1> QED
  BY <1>3, <1>4, <1>5, <1>6, ReadyInit DEF TestTypeInv, NetTypeOK

(* The timer counts to Delay and no further, since it only runs while      *)
(* eth_reset_delay, which has set the limit, waits for it.                 *)
LEMMA EthTypeStep ==
    ASSUME ReadyInv, EthTypeOK, [Next]_vars
    PROVE  EthTypeOK'
<1>1. Delay \in Nat \ {0} /\ MaxDrops \in Nat
  BY TestAssumption
<1>2. CASE UNCHANGED ethVars
  <2>1. UNCHANGED <<setup, en0, counter0, compare0, phy>>
    BY <1>2 DEF ethVars, timerVars
  <2> QED BY <2>1 DEF EthTypeOK, BoundedPhys
<1>3. CASE PhyReset
  BY <1>3 DEF PhyReset, EthTypeOK, BoundedPhys, timerVars
<1>4. CASE DelayCounter \/ DelayCompare \/ DelayControl
  <2>1. /\ setup' = setup /\ phy' = phy /\ (en0' = en0 \/ en0' = TRUE)
        /\ (counter0' = counter0 \/ counter0' = 0) /\ (compare0' = compare0 \/ compare0' = Delay)
    BY <1>4 DEF DelayCounter, DelayCompare, DelayControl
  <2>2. phy' \in BoundedPhys
    BY <2>1 DEF EthTypeOK, BoundedPhys
  <2>3. setup' \in BOOLEAN /\ en0' \in BOOLEAN /\ counter0' \in 0..Delay /\ compare0' \in {-1, Delay}
    <3>1. 0 \in 0..Delay
      BY <1>1
    <3> QED BY <2>1, <3>1 DEF EthTypeOK
  <2> QED BY <2>2, <2>3 DEF EthTypeOK
<1>5. CASE eth_disable_1000 \/ eth_soft_reset
  BY <1>5, <1>2 DEF eth_disable_1000, eth_soft_reset, EthTypeOK, BoundedPhys, timerVars
<1>6. CASE Tick
  <2>1. phy' \in BoundedPhys
    BY <1>1, <1>6 DEF Tick, Longer, EthTypeOK, BoundedPhys
  <2>2. en0 => compare0 = Delay /\ counter0 <= Delay
    BY DEF ReadyInv, TimerInv
  <2>3. counter0' \in 0..Delay /\ en0' \in BOOLEAN
    BY <1>1, <1>6, <2>2 DEF Tick, EthTypeOK
  <2> QED BY <1>6, <2>1, <2>3 DEF Tick, EthTypeOK
<1>7. CASE PhyUp
  BY <1>7 DEF PhyUp, PhyRestarts, PhyNegotiates, EthTypeOK, BoundedPhys, timerVars
<1>8. CASE LinkDrops
  <2>1. phy.drops + 1 \in 0..MaxDrops /\ phy' = [phy EXCEPT !.link = "down", !.drops = phy.drops + 1]
    BY <1>1, <1>8 DEF LinkDrops, EthTypeOK, BoundedPhys
  <2>2. phy' \in BoundedPhys
    BY <2>1 DEF EthTypeOK, BoundedPhys
  <2>3. UNCHANGED <<setup, en0, counter0, compare0>>
    BY <1>8 DEF LinkDrops, timerVars
  <2> QED BY <2>2, <2>3 DEF EthTypeOK
<1>9. CASE DelayWait \/ WaitLink \/ microudp_start \/ dhcp_discover \/ DiscoverSend \/ ServeLoop \/ RequestSend
  BY <1>2, <1>9 DEF DelayWait, WaitLink, microudp_start, dhcp_discover, DiscoverSend, ServeLoop, RequestSend
<1>10. CASE NetCode
  BY <1>2, <1>10 DEF NetCode, Resolve, Try, Poll, Check, Service, ServiceBegins, SkipSlot, Process, FreeSlot, RequestSend
<1>11. CASE Delivery \/ Replies \/ Loss \/ OtherBoards
  BY <1>2, <1>11 DEF Delivery, Replies, Loss, OtherBoards, Deliver, ServerReplies, LoseFrame
<1>12. CASE UNCHANGED vars
  BY <1>2, <1>12 DEF vars, ethVars, timerVars
<1> QED
  BY <1>3, <1>4, <1>5, <1>6, <1>7, <1>8, <1>9, <1>10, <1>11, <1>12
     DEF Next, Program, Main, Delays, Environment, NetCode

(* What is sent goes to the servers with a board's lease in it.            *)
LEMMA SendType ==
    ASSUME NetTypeOK, NEW messages \in SUBSET Messages, microudp_send(messages)
    PROVE  net' \in NetRecords
<1>1. net \in NetRecords
  BY DEF NetTypeOK
<1>2. First("unsent") \in {"none", "lost", "overwritten", "nak", "unsent"}
      /\ First("lost") \in {"none", "lost", "overwritten", "nak", "unsent"}
  BY <1>1 DEF First, NetRecords
<1>3. \/ net' = [net EXCEPT !.trouble = First("unsent")]
      \/ net' = [net EXCEPT !.trouble = First("lost")]
      \/ net' = [net EXCEPT !.heard = net.heard \cup messages]
  BY DEF microudp_send
<1> HIDE DEF First
<1> QED
  BY <1>1, <1>2, <1>3 DEF NetRecords

(* The slots, the addresses and the network keep their types: whatever is  *)
(* sent, by the board in dhcp_send with the address of the offer it was    *)
(* called for, or by others, is a message, and what arrives a frame.       *)
LEMMA NetTypeStep ==
    ASSUME StackInv, ShapeInv, NetTypeOK, [Next]_vars
    PROVE  NetTypeOK'
<1>1. slots \in [0..1 -> Slot] /\ IpTypeOK /\ net \in NetRecords
  BY DEF NetTypeOK
<1>2. \A t \in {"lost", "nak", "overwritten", "unsent"} : First(t) \in {"none", "lost", "overwritten", "nak", "unsent"}
  BY <1>1 DEF First, NetRecords
<1> HIDE DEF First
<1>3. MaxForeign \in Nat
  BY TestAssumption
<1>4. Loaded \in Slot
  BY DEF Loaded, Slot
<1>5. CASE UNCHANGED <<slots, ipVars, net>>
  BY <1>1, <1>5 DEF NetTypeOK, IpTypeOK, ipVars
<1>6. CASE PhyReset \/ Delays \/ eth_disable_1000 \/ eth_soft_reset \/ WaitLink \/ ServeLoop
  BY <1>5, <1>6 DEF PhyReset, Delays, DelayCounter, DelayCompare, DelayControl, DelayWait, eth_disable_1000,
     eth_soft_reset, WaitLink, ServeLoop
<1>7. CASE microudp_start
  <2>1. slots' \in [0..1 -> Slot]
    BY <1>4, <1>7 DEF microudp_start
  <2>2. IpTypeOK' /\ net' = net
    BY <1>1, <1>7 DEF microudp_start, IpTypeOK
  <2> QED BY <1>1, <2>1, <2>2 DEF NetTypeOK
<1>8. CASE dhcp_discover
  <2>1. IpTypeOK' /\ UNCHANGED <<slots, net>>
    BY <1>1, <1>8 DEF dhcp_discover, IpTypeOK
  <2> QED BY <1>1, <2>1 DEF NetTypeOK
<1>9. CASE DiscoverSend
  <2> DEFINE messages == {[type |-> "discover", ip |-> [server |-> s, board |-> "me"]] : s \in Servers}
  <2>1. messages \in SUBSET Messages
    BY DEF Messages, Lease, Boards
  <2>2. microudp_send(messages) /\ UNCHANGED <<slots, ipVars>>
    BY <1>9 DEF DiscoverSend
  <2> HIDE DEF messages
  <2>3. net' \in NetRecords
    BY <2>1, <2>2, SendType
  <2> QED BY <1>1, <2>2, <2>3 DEF NetTypeOK, IpTypeOK, ipVars
<1>10. CASE RequestSend
  <2> DEFINE messages == {[type |-> "request", ip |-> offered_ip]}
  <2>1. offered_ip \in Lease
    <3>1. ~NoRequest
      <4>1. Len(stack) \in Nat /\ Len(stack) >= 1 /\ Top.at = "request_send"
        BY <1>10, LenProperties DEF RequestSend, At, StackInv
      <4>2. Len(stack) \in 1..Len(stack)
        BY <4>1
      <4> QED BY <4>1, <4>2 DEF NoRequest, Top
    <3> QED BY <3>1 DEF ShapeInv
  <2>2. messages \in SUBSET Messages
    BY <2>1 DEF Messages
  <2>3. microudp_send(messages) /\ UNCHANGED <<slots, ipVars>>
    BY <1>10 DEF RequestSend
  <2> HIDE DEF messages
  <2>4. net' \in NetRecords
    BY <2>2, <2>3, SendType
  <2> QED BY <1>1, <2>3, <2>4 DEF NetTypeOK, IpTypeOK, ipVars
<1>11. CASE Resolve
  <2>1. IpTypeOK' /\ UNCHANGED <<slots, net>>
    BY <1>1, <1>11 DEF Resolve, IpTypeOK
  <2> QED BY <1>1, <2>1 DEF NetTypeOK
<1>12. CASE Try
  <2>1. [type |-> "arp_reply"] \in Frame
    BY DEF Frame
  <2>2. net' = net \/ net' = [net EXCEPT !.air = net.air \cup {[type |-> "arp_reply"]}]
    BY <1>12 DEF Try
  <2>3. net' \in NetRecords
    BY <1>1, <2>1, <2>2 DEF NetRecords
  <2> QED BY <1>1, <1>12, <2>3 DEF Try, NetTypeOK, IpTypeOK, ipVars
<1>13. CASE Poll \/ Check \/ ServiceBegins \/ \E s \in 0..1 : SkipSlot(s)
  BY <1>5, <1>13 DEF Poll, Check, ServiceBegins, SkipSlot
<1>14. ASSUME NEW s \in 0..1, Process(s) PROVE NetTypeOK'
  <2> DEFINE f == slots[s].frame
  <2>1. /\ Pending(s) /\ slots' = [slots EXCEPT ![s] = [slots[s] EXCEPT !.seen = TRUE]] /\ net' = net
        /\ \/ f.type = "offer" /\ dhcp_handle_offer(f, s)
           \/ f.type = "ack" /\ dhcp_handle_ack(f, s)
           \/ Ignore(f, s)
    BY <1>14 DEF Process
  <2>2. slots[s] \in [state : {"PENDING"}, frame : Frame, seen : BOOLEAN] /\ (f.type # "arp_reply" => f.ip \in Lease)
    BY <2>1, PendingFrame
  <2>3. [slots[s] EXCEPT !.seen = TRUE] \in Slot
    BY <2>2 DEF Slot
  <2>4. slots' \in [0..1 -> Slot]
    BY <1>1, <2>1, <2>3
  <2>5. CASE f.type = "offer" /\ dhcp_handle_offer(f, s)
    BY <1>1, <2>1, <2>2, <2>4, <2>5 DEF dhcp_handle_offer, NetTypeOK, IpTypeOK
  <2>6. CASE f.type = "ack" /\ dhcp_handle_ack(f, s)
    BY <1>1, <2>1, <2>2, <2>4, <2>6 DEF dhcp_handle_ack, NetTypeOK, IpTypeOK
  <2>7. CASE Ignore(f, s)
    BY <1>1, <2>1, <2>4, <2>7 DEF Ignore, NetTypeOK, IpTypeOK
  <2> QED BY <2>1, <2>5, <2>6, <2>7
<1>15. ASSUME NEW s \in 0..1, FreeSlot(s) PROVE NetTypeOK'
  <2>1. slots' \in [0..1 -> Slot] /\ UNCHANGED ipVars
    BY <1>1, <1>4, <1>15 DEF FreeSlot
  <2>2. net' \in NetRecords
    <3>1. net' = net \/ net' = [net EXCEPT !.trouble = First("overwritten")]
      BY <1>15 DEF FreeSlot
    <3> QED BY <1>1, <1>2, <3>1 DEF NetRecords
  <2> QED BY <1>1, <2>1, <2>2 DEF NetTypeOK, IpTypeOK, ipVars
<1>16. ASSUME NEW f \in net.air, Deliver(f) PROVE NetTypeOK'
  <2>1. f \in Frame
    BY <1>1, <1>16 DEF NetRecords
  <2>2. net' \in NetRecords
    <3>1. \/ net' = [net EXCEPT !.air = net.air \ {f}, !.trouble = First("lost")]
          \/ net' = [net EXCEPT !.air = net.air \ {f}]
      BY <1>16 DEF Deliver
    <3> QED BY <1>1, <1>2, <3>1 DEF NetRecords
  <2>3. [state |-> "PENDING", frame |-> f, seen |-> FALSE] \in Slot
    BY <2>1 DEF Slot
  <2>4. slots' = slots \/ \E s \in 0..1 : slots' = [slots EXCEPT ![s] = [state |-> "PENDING", frame |-> f, seen |-> FALSE]]
    BY <1>16 DEF Deliver
  <2>5. slots' \in [0..1 -> Slot] /\ UNCHANGED ipVars
    BY <1>1, <1>16, <2>3, <2>4 DEF Deliver
  <2> QED BY <1>1, <2>2, <2>5 DEF NetTypeOK, IpTypeOK, ipVars
<1>17. ASSUME NEW f \in net.air, LoseFrame(f) PROVE NetTypeOK'
  <2>1. net' = [net EXCEPT !.air = net.air \ {f}, !.trouble = First("lost")] /\ UNCHANGED <<slots, ipVars>>
    BY <1>17 DEF LoseFrame
  <2>2. net' \in NetRecords
    BY <1>1, <1>2, <2>1 DEF NetRecords
  <2> QED BY <1>1, <2>1, <2>2 DEF NetTypeOK, IpTypeOK, ipVars
<1>18. ASSUME NEW m \in net.heard, ServerReplies(m) PROVE NetTypeOK'
  <2>1. m.ip \in Lease
    BY <1>1, <1>18 DEF NetRecords, Messages
  <2>2. \A t \in {"offer", "ack", "nak"} : [type |-> t, ip |-> m.ip] \in Frame
    BY <2>1 DEF Frame
  <2>3. \/ net' = [net EXCEPT !.heard = net.heard \ {m}, !.air = net.air \cup {[type |-> "offer", ip |-> m.ip]}]
        \/ net' = [net EXCEPT !.heard = net.heard \ {m}, !.air = net.air \cup {[type |-> "ack", ip |-> m.ip]},
                              !.leased = net.leased \cup {m.ip}]
        \/ net' = [net EXCEPT !.heard = net.heard \ {m}, !.air = net.air \cup {[type |-> "nak", ip |-> m.ip]},
                              !.trouble = First("nak")]
    BY <1>18 DEF ServerReplies
  <2>4. net' \in NetRecords
    <3>1. CASE net' = [net EXCEPT !.heard = net.heard \ {m}, !.air = net.air \cup {[type |-> "offer", ip |-> m.ip]}]
      BY <1>1, <2>2, <3>1 DEF NetRecords
    <3>2. CASE net' = [net EXCEPT !.heard = net.heard \ {m}, !.air = net.air \cup {[type |-> "ack", ip |-> m.ip]},
                                  !.leased = net.leased \cup {m.ip}]
      BY <1>1, <2>1, <2>2, <3>2 DEF NetRecords
    <3>3. CASE net' = [net EXCEPT !.heard = net.heard \ {m}, !.air = net.air \cup {[type |-> "nak", ip |-> m.ip]},
                                  !.trouble = First("nak")]
      BY <1>1, <1>2, <2>2, <3>3 DEF NetRecords
    <3> QED BY <2>3, <3>1, <3>2, <3>3
  <2>5. UNCHANGED <<slots, ipVars>>
    BY <1>18 DEF ServerReplies
  <2> QED BY <1>1, <2>4, <2>5 DEF NetTypeOK, IpTypeOK, ipVars
<1>19. CASE OtherBoards
  <2>1. PICK type \in {"offer", "ack"}, s \in Servers, b \in {"peer", "other"} :
           net' = [net EXCEPT !.count = net.count + 1,
                              !.air = net.air \cup {[type |-> type, ip |-> [server |-> s, board |-> b]]},
                              !.foreign = net.foreign \cup {[server |-> s, board |-> b]}]
    BY <1>19 DEF OtherBoards
  <2> DEFINE ip == [server |-> s, board |-> b]
             f == [type |-> type, ip |-> ip]
  <2>2. ip \in Lease
    BY <2>1 DEF Lease, Boards
  <2>3. f \in Frame
    BY <2>1, <2>2 DEF Frame
  <2>4. net.count + 1 \in 0..MaxForeign
    BY <1>1, <1>3, <1>19 DEF OtherBoards, NetRecords
  <2>5. net' = [net EXCEPT !.count = net.count + 1, !.air = net.air \cup {f}, !.foreign = net.foreign \cup {ip}]
    BY <2>1
  <2> HIDE DEF ip, f
  <2>6. net' \in NetRecords
    BY <1>1, <2>2, <2>3, <2>4, <2>5 DEF NetRecords
  <2>7. UNCHANGED <<slots, ipVars>>
    BY <1>19 DEF OtherBoards
  <2> QED BY <1>1, <2>6, <2>7 DEF NetTypeOK, IpTypeOK, ipVars
<1>20. CASE Tick \/ PhyUp \/ LinkDrops \/ UNCHANGED vars
  <2>1. UNCHANGED <<slots, ipVars, net>>
    BY <1>20 DEF Tick, PhyUp, PhyRestarts, PhyNegotiates, LinkDrops, vars, ipVars
  <2> QED BY <1>5, <2>1
<1> QED
  BY <1>6, <1>7, <1>8, <1>9, <1>10, <1>11, <1>12, <1>13, <1>14, <1>15, <1>16, <1>17, <1>18, <1>19, <1>20
     DEF Next, Program, Main, Service, Environment, Delivery, Replies, Loss

(* Every step preserves all types.                                         *)
LEMMA TestTypeStep == TestTypeInv /\ [Next]_vars => TestTypeInv'
<1> SUFFICES ASSUME TestTypeInv, [Next]_vars PROVE TestTypeInv'
  OBVIOUS
<1>1. ReadyInv /\ StackInv /\ ShapeInv /\ EthTypeOK /\ NetTypeOK
  BY DEF TestTypeInv, ReadyInv
<1>2. ReadyInv' /\ EthTypeOK' /\ NetTypeOK'
  BY <1>1, ReadyStep, EthTypeStep, NetTypeStep
<1>3. ASSUME NetCode PROVE ShapeInv'
  BY <1>1, <1>3, ShapeNet
<1>4. ASSUME Main, ~RequestSend PROVE ShapeInv'
  BY <1>1, <1>4, ShapeMain
<1>5. ASSUME Environment \/ UNCHANGED vars PROVE ShapeInv'
  <2>1. UNCHANGED <<stack, dhcp_state, offered_ip>>
    <3>1. ASSUME Tick \/ PhyUp \/ LinkDrops \/ UNCHANGED vars PROVE UNCHANGED <<stack, dhcp_state, offered_ip>>
      BY <3>1 DEF Tick, PhyUp, PhyRestarts, PhyNegotiates, LinkDrops, vars, ipVars
    <3>2. ASSUME NEW f \in net.air, Deliver(f) \/ LoseFrame(f) PROVE UNCHANGED <<stack, dhcp_state, offered_ip>>
      BY <3>2 DEF Deliver, LoseFrame, ipVars
    <3>3. ASSUME NEW m \in net.heard, ServerReplies(m) PROVE UNCHANGED <<stack, dhcp_state, offered_ip>>
      BY <3>3 DEF ServerReplies, ipVars
    <3>4. ASSUME OtherBoards PROVE UNCHANGED <<stack, dhcp_state, offered_ip>>
      BY <3>4 DEF OtherBoards, ipVars
    <3> QED BY <1>5, <3>1, <3>2, <3>3, <3>4 DEF Environment, Delivery, Replies, Loss
  <2> QED BY <1>1, <2>1 DEF ShapeInv, OneRequest, NoRequest
<1>6. ShapeInv'
  BY <1>3, <1>4, <1>5 DEF Next, Program, NetCode
<1> QED
  BY <1>2, <1>6 DEF TestTypeInv

(* Every variable has its type, for any servers, times and bounds: no more *)
(* than six calls are ever under way although dhcp.c is called back from   *)
(* inside microudp_service and serves again, each with its counts within   *)
(* their limits; dhcp_send has an address to ask for; and the timer never  *)
(* counts beyond the delay.                                                *)
THEOREM TestTypeCorrect == Spec => []TestTypeOK
<1>1. TestTypeInv => TestTypeOK
  <2> SUFFICES ASSUME TestTypeInv PROVE TestTypeOK
    OBVIOUS
  <2>1. StackInv /\ ShapeInv /\ EthTypeOK /\ NetTypeOK
    BY DEF TestTypeInv, ReadyInv
  <2>2. Len(stack) \in 1..6
    BY <2>1, ShapeDepth
  <2>3. stack \in Seq(Call)
    <3>1. stack \in Seq(Frames) /\ \A i \in 1..Len(stack) : stack[i] \in Call
      BY <2>1 DEF StackInv, ShapeInv, Proper
    <3>2. stack = [i \in 1..Len(stack) |-> stack[i]] /\ Len(stack) \in Nat
      BY <3>1, LenProperties
    <3>3. stack \in [1..Len(stack) -> Call]
      BY <3>1, <3>2
    <3> QED BY <3>2, <3>3, SeqDef
  <2>4. stack[1].at \in MainPcs
    BY <2>1 DEF StackInv, Main0
  <2>5. net \in [answers : BOOLEAN, zero : SUBSET Servers, air : SUBSET Frame,
                 heard : SUBSET [type : {"discover", "request"}, ip : Lease],
                 leased : SUBSET Lease, foreign : SUBSET Lease, count : 0..MaxForeign,
                 trouble : {"none", "lost", "overwritten", "nak", "unsent"}]
    BY <2>1 DEF NetTypeOK, NetRecords, Messages
  <2> QED BY <2>1, <2>2, <2>3, <2>4, <2>5 DEF TestTypeOK, EthTypeOK, BoundedPhys, NetTypeOK, IpTypeOK
<1> QED
  BY <1>1, TestTypeInit, TestTypeStep, PTL DEF Spec
=============================================================================
