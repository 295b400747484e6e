--------------------------- MODULE MicroUdpProofs ---------------------------
(***************************************************************************)
(* Every safety property of MicroUdp proved for every size of the slots,   *)
(* every traffic and every interleaving of the clocks: the slots, the      *)
(* types, the cached address, the way out, the way in, and the order of    *)
(* the frames.                                                             *)
(*                                                                         *)
(* A slot is a token: it lies with the software, in the pulse that         *)
(* announces it, with the receiver, or in the pulse that returns it, and   *)
(* in one of these places only.                                            *)
(***************************************************************************)
EXTENDS MicroUdp, FiniteSetTheorems, TLAPS

OnePulse(p) ==
    \/ p.d1 /\ ~p.d2 /\ ~p.d3
    \/ ~p.d1 /\ p.d2 /\ ~p.d3
    \/ ~p.d1 /\ ~p.d2 /\ p.d3
NoPulse(p) == ~p.d1 /\ ~p.d2 /\ ~p.d3

(* The types the argument needs.                                           *)
TokenTypeOK ==
    /\ slot_state \in [Slots -> {"EMPTY", "LOADED", "PENDING"}]
    /\ ready \in [Slots -> Psync] /\ done \in [Slots -> Psync]
    /\ available_slots \in SUBSET Slots /\ used_slot \in SUBSET Slots
    /\ slots_loaded_r \in SUBSET Slots
    /\ slot \in Slots
    /\ caller \in {"main", "check"} /\ after \in {"free", "try", "poll"}
    /\ rx_state \in {"IDLE", "LOAD_LO", "LOAD_HI", "TERMINATE"} /\ gap \in Nat

(* The five places of a slot.                                              *)
WithSoftware(s) == slot_state[s] # "LOADED" /\ NoPulse(ready[s]) /\ NoPulse(done[s])
                   /\ s \notin available_slots
Loaded(s) == slot_state[s] = "LOADED" /\ s \notin slots_loaded_r
             /\ NoPulse(ready[s]) /\ NoPulse(done[s]) /\ s \notin available_slots
Announced(s) == slot_state[s] = "LOADED" /\ s \in slots_loaded_r
                /\ OnePulse(ready[s]) /\ NoPulse(done[s]) /\ s \notin available_slots
WithReceiver(s) == slot_state[s] = "LOADED" /\ s \in slots_loaded_r
                   /\ NoPulse(ready[s]) /\ NoPulse(done[s]) /\ s \in available_slots
Returned(s) == slot_state[s] = "LOADED" /\ s \in slots_loaded_r
               /\ NoPulse(ready[s]) /\ OnePulse(done[s]) /\ s \notin available_slots
Place(s) == WithSoftware(s) \/ Loaded(s) \/ Announced(s) \/ WithReceiver(s) \/ Returned(s)

(* The slot in use is one the receiver has, but for the edge after the end *)
(* of a frame and before the first edge of all.                            *)
UsedInv ==
    /\ InFrame => gap = 0
    /\ rx_state = "TERMINATE" => gap > 0
    /\ gap > 0 => rx_state \in {"IDLE", "TERMINATE"}
    /\ gap > 1 => rx_state = "IDLE"
    /\ rx_state \in {"LOAD_LO", "LOAD_HI"} => used_slot \subseteq available_slots
    /\ rx_state = "IDLE" /\ gap > 0 => used_slot \subseteq available_slots
    /\ rx_state = "IDLE" /\ gap = 0 => ~InFrame

SlotInv == /\ TokenTypeOK /\ UsedInv
           /\ \A s \in Slots : Place(s) /\ (Serving(s) => slot_state[s] = "PENDING")
-----------------------------------------------------------------------------
(* What the synchronisers do to a pulse. *)
LEMMA PulseFacts ==
    ASSUME NEW p \in Psync
    PROVE  /\ Toggle(p, TRUE) \in Psync /\ Sample(p) \in Psync
           /\ NoPulse(p) => OnePulse(Toggle(p, TRUE))
           /\ NoPulse(p) => NoPulse(Sample(p)) /\ ~Out(p)
           /\ OnePulse(p) /\ Out(p) => NoPulse(Sample(p))
           /\ OnePulse(p) /\ ~Out(p) => OnePulse(Sample(p))
  BY DEF Psync, Toggle, Sample, NoPulse, OnePulse, Out

(* A toggle only happens with a pulse. *)
LEMMA ToggleCases ==
    ASSUME NEW p, NEW i
    PROVE  /\ i => Toggle(p, i) = Toggle(p, TRUE)
           /\ ~i => Toggle(p, i) = p
  BY DEF Toggle

(* What the program may write leaves a slot in one place.                  *)
LEMMA SysPlace ==
    ASSUME TokenTypeOK, \A s \in Slots : Place(s), NEW w, SysClock(w),
           w.reg = "STATE" => w.val = "LOADED"
    PROVE  /\ slot_state' \in [Slots -> {"EMPTY", "LOADED", "PENDING"}]
           /\ ready' \in [Slots -> Psync] /\ done' \in [Slots -> Psync]
           /\ slots_loaded_r' \in SUBSET Slots
           /\ \A s \in Slots : Place(s)'
<1>1. slot_state' \in [Slots -> {"EMPTY", "LOADED", "PENDING"}]
  BY DEF SysClock, TokenTypeOK
<1>2. slots_loaded_r' \in SUBSET Slots
  BY DEF SysClock, slots_loaded
<1>3. ASSUME NEW s \in Slots
      PROVE  /\ s \in rx_ready => ready'[s] = Toggle(ready[s], TRUE)
             /\ s \notin rx_ready => ready'[s] = ready[s]
             /\ done'[s] = Sample(done[s])
  BY ToggleCases DEF SysClock
<1>4. ready' \in [Slots -> Psync] /\ done' \in [Slots -> Psync]
  <2>1. \A s \in Slots : ready[s] \in Psync /\ done[s] \in Psync
    BY DEF TokenTypeOK
  <2>2. \A s \in Slots : ready'[s] \in Psync /\ done'[s] \in Psync
    BY <1>3, <2>1, PulseFacts
  <2>3. /\ ready' = [s \in Slots |-> ready'[s]]
        /\ done' = [s \in Slots |-> done'[s]]
    BY DEF SysClock
  <2> QED
    BY <2>2, <2>3
<1>5. ASSUME NEW s \in Slots PROVE Place(s)'
  <2>0. ready[s] \in Psync /\ done[s] \in Psync
    BY DEF TokenTypeOK
  <2>1. /\ Out(done[s]) => slot_state'[s] = "PENDING"
        /\ ~Out(done[s]) => slot_state'[s] = slot_state[s] \/ slot_state'[s] = "LOADED"
    BY DEF SysClock
  <2>1a. /\ s \in slots_loaded_r' <=> slot_state[s] = "LOADED"
         /\ available_slots' = available_slots
         /\ s \in rx_ready <=> slot_state[s] = "LOADED" /\ s \notin slots_loaded_r
    BY DEF SysClock, rxVars, slots_loaded, rx_ready
  <2>2. Place(s)
    OBVIOUS
  <2>3. CASE WithSoftware(s)
    <3>1. s \notin rx_ready /\ ~Out(done[s])
      BY <2>0, <2>1, <2>1a, <1>3, <2>3, PulseFacts DEF WithSoftware
    <3>2. NoPulse(ready'[s]) /\ NoPulse(done'[s]) /\ s \notin slots_loaded_r' /\ s \notin available_slots'
      BY <2>0, <2>1, <2>1a, <1>3, <2>3, <3>1, PulseFacts DEF WithSoftware
    <3> QED
      BY <3>2 DEF Place, WithSoftware, Loaded
  <2>4. CASE Loaded(s)
    <3>1. s \in rx_ready /\ ~Out(done[s])
      BY <2>0, <2>1, <2>1a, <1>3, <2>4, PulseFacts DEF Loaded
    <3>2. slot_state'[s] = "LOADED"
      BY <2>1, <2>1a, <1>3, <2>4, <3>1 DEF Loaded
    <3>3. OnePulse(ready'[s]) /\ NoPulse(done'[s])
      BY <2>0, <2>1, <2>1a, <1>3, <2>4, <3>1, PulseFacts DEF Loaded
    <3> QED
      BY <2>1, <2>1a, <1>3, <2>4, <3>2, <3>3 DEF Place, Loaded, Announced
  <2>5. CASE Announced(s) \/ WithReceiver(s)
    <3>1. s \notin rx_ready /\ ~Out(done[s])
      BY <2>0, <2>1, <2>1a, <1>3, <2>5, PulseFacts DEF Announced, WithReceiver
    <3>2. slot_state'[s] = "LOADED"
      BY <2>1, <2>1a, <1>3, <2>5, <3>1 DEF Announced, WithReceiver
    <3>3. ready'[s] = ready[s] /\ NoPulse(done'[s])
      BY <2>0, <2>1, <2>1a, <1>3, <2>5, <3>1, PulseFacts DEF Announced, WithReceiver
    <3> QED
      BY <2>1, <2>1a, <1>3, <2>5, <3>2, <3>3 DEF Place, Announced, WithReceiver
  <2>6. CASE Returned(s)
    <3>1. s \notin rx_ready
      BY <2>1, <2>1a, <1>3, <2>6 DEF Returned
    <3>2. NoPulse(ready'[s])
      BY <2>0, <2>1, <2>1a, <1>3, <2>6, <3>1, PulseFacts DEF Returned
    <3>3. CASE Out(done[s])
      BY <2>0, <2>1, <2>1a, <1>3, <2>6, <3>2, <3>3, PulseFacts DEF Place, Returned, WithSoftware
    <3>4. CASE ~Out(done[s])
      <4>1. slot_state'[s] = "LOADED" /\ OnePulse(done'[s])
        BY <2>0, <2>1, <2>1a, <1>3, <2>6, <3>4, PulseFacts DEF Returned
      <4> QED
        BY <2>1, <2>1a, <1>3, <2>6, <3>2, <4>1 DEF Place, Returned
    <3> QED
      BY <3>3, <3>4
  <2> QED
    BY <2>2, <2>3, <2>4, <2>5, <2>6 DEF Place
<1> QED
  BY <1>1, <1>2, <1>4, <1>5
(* The receiver takes a slot that was announced to it, and gives back the  *)
(* one it has used, which it had.                                          *)
LEMMA RxPlace ==
    ASSUME TokenTypeOK, \A s \in Slots : Place(s), NEW dv, NEW nibble, RxClock(dv, nibble),
           rx_state \in {"LOAD_LO", "LOAD_HI"} => used_slot \subseteq available_slots
    PROVE  /\ ready' \in [Slots -> Psync] /\ done' \in [Slots -> Psync]
           /\ available_slots' \in SUBSET Slots /\ used_slot' \in SUBSET Slots
           /\ \A s \in Slots : Place(s)'
<1>1. rx_done(dv) \subseteq available_slots /\ rx_done(dv) \subseteq used_slot
  BY DEF rx_done
<1>2. available_slots' = (available_slots \cup {s \in Slots : Out(ready[s])}) \ rx_done(dv)
  BY DEF RxClock, Available
<1>3. \/ used_slot' = used_slot
      \/ used_slot' = {0} /\ 0 \in available_slots
      \/ used_slot' = available_slots
  BY DEF RxClock, UseSlot, first_available
<1>4. available_slots' \in SUBSET Slots /\ used_slot' \in SUBSET Slots
  BY <1>2, <1>3 DEF TokenTypeOK, Slots
<1>5. ASSUME NEW s \in Slots
      PROVE  /\ s \in rx_done(dv) => done'[s] = Toggle(done[s], TRUE)
             /\ s \notin rx_done(dv) => done'[s] = done[s]
             /\ ready'[s] = Sample(ready[s])
             /\ slot_state' = slot_state /\ slots_loaded_r' = slots_loaded_r
  BY ToggleCases DEF RxClock, ctlVars
<1>6. ready' \in [Slots -> Psync] /\ done' \in [Slots -> Psync]
  <2>1. \A s \in Slots : ready[s] \in Psync /\ done[s] \in Psync
    BY DEF TokenTypeOK
  <2>2. \A s \in Slots : ready'[s] \in Psync /\ done'[s] \in Psync
    BY <1>5, <2>1, PulseFacts
  <2>3. /\ ready' = [s \in Slots |-> ready'[s]]
        /\ done' = [s \in Slots |-> done'[s]]
    BY DEF RxClock
  <2> QED
    BY <2>2, <2>3
<1>7. ASSUME NEW s \in Slots PROVE Place(s)'
  <2>1. ready[s] \in Psync /\ done[s] \in Psync
    BY DEF TokenTypeOK
  <2>2. s \in available_slots' <=> (s \in available_slots \/ Out(ready[s])) /\ s \notin rx_done(dv)
    BY <1>2
  <2>3. CASE WithSoftware(s) \/ Loaded(s)
    <3>1. NoPulse(ready[s]) /\ NoPulse(done[s]) /\ s \notin available_slots
      BY <2>3 DEF WithSoftware, Loaded
    <3>2. s \notin rx_done(dv) /\ ~Out(ready[s]) /\ NoPulse(ready'[s])
      BY <1>1, <1>5, <2>1, <3>1, PulseFacts
    <3>3. NoPulse(done'[s]) /\ s \notin available_slots'
      BY <1>5, <2>2, <3>1, <3>2
    <3> QED
      BY <1>5, <2>3, <3>2, <3>3 DEF Place, WithSoftware, Loaded
  <2>4. CASE Announced(s)
    <3>1. s \notin rx_done(dv) /\ done'[s] = done[s]
      BY <1>1, <1>5, <2>4 DEF Announced
    <3>2. CASE Out(ready[s])
      <4>1. NoPulse(ready'[s]) /\ s \in available_slots'
        BY <1>5, <2>1, <2>2, <2>4, <3>1, <3>2, PulseFacts DEF Announced
      <4> QED
        BY <1>5, <2>4, <3>1, <4>1 DEF Place, Announced, WithReceiver
    <3>3. CASE ~Out(ready[s])
      <4>1. OnePulse(ready'[s]) /\ s \notin available_slots'
        BY <1>5, <2>1, <2>2, <2>4, <3>1, <3>3, PulseFacts DEF Announced
      <4> QED
        BY <1>5, <2>4, <3>1, <4>1 DEF Place, Announced
    <3> QED
      BY <3>2, <3>3
  <2>5. CASE WithReceiver(s)
    <3>1. NoPulse(ready'[s])
      BY <1>5, <2>1, <2>5, PulseFacts DEF WithReceiver
    <3>2. CASE s \in rx_done(dv)
      <4>1. OnePulse(done'[s]) /\ s \notin available_slots'
        BY <1>5, <2>1, <2>2, <2>5, <3>2, PulseFacts DEF WithReceiver
      <4> QED
        BY <1>5, <2>5, <3>1, <4>1 DEF Place, WithReceiver, Returned
    <3>3. CASE s \notin rx_done(dv)
      BY <1>5, <2>2, <2>5, <3>1, <3>3 DEF Place, WithReceiver
    <3> QED
      BY <3>2, <3>3
  <2>6. CASE Returned(s)
    <3>1. NoPulse(ready'[s]) /\ ~Out(ready[s])
      BY <1>5, <2>1, <2>6, PulseFacts DEF Returned
    <3>2. s \notin rx_done(dv) /\ s \notin available_slots'
      BY <1>1, <2>2, <2>6, <3>1 DEF Returned
    <3> QED
      BY <1>5, <2>6, <3>1, <3>2 DEF Place, Returned
  <2> QED
    BY <2>3, <2>4, <2>5, <2>6 DEF Place
<1> QED
  BY <1>4, <1>6, <1>7
-----------------------------------------------------------------------------
(* The program only writes "LOADED", and only moves on from a slot it has  *)
(* given back.                                                             *)
LEMMA ProgramShape ==
    ASSUME SlotInv, Program \/ SysIdle
    PROVE  \E w : /\ SysClock(w)
                  /\ w.reg = "STATE" => w.val = "LOADED"
                  /\ slot' \in Slots
                  /\ caller' \in {"main", "check"} /\ after' \in {"free", "try", "poll"}
                  /\ \A s \in Slots : Serving(s)' =>
                        /\ slot_state[s] = "PENDING"
                        /\ w.reg = "STATE" => w.slot # s
<1> USE DEF Step, NoWrite, WriteState, WriteTxCount, Cpu, Bus, irq_ack, Fill, Slots
<1>1. slot \in Slots /\ caller \in {"main", "check"} /\ after \in {"free", "try", "poll"}
  BY DEF SlotInv, TokenTypeOK
<1>2. \A s \in Slots : Serving(s) => slot_state[s] = "PENDING"
  BY DEF SlotInv
<1>3. CASE SysIdle
  BY <1>1, <1>2, <1>3 DEF SysIdle, progVars, Serving
<1>4. CASE StartAck
  BY <1>1, <1>4 DEF StartAck, progVars, Serving
<1>5. CASE StartLoad
  BY <1>1, <1>5 DEF StartLoad, Serving
<1>6. CASE Send
  <2>1. CASE SendCount
    BY <1>1, <1>2, <2>1 DEF SendCount, progVars, Serving
  <2>2. CASE SendWait
    BY <1>1, <1>2, <2>2 DEF SendWait, progVars, Serving
  <2>3. CASE SendAck
    BY <1>1, <1>2, <2>3 DEF SendAck, progVars, Serving
  <2> QED
    BY <1>6, <2>1, <2>2, <2>3 DEF Send
<1>7. CASE Arp
  BY <1>1, <1>7 DEF Arp, Resolved, Resolve, Request, Try, TryAgain, Check, Serving
<1>8. CASE MainSend \/ MainService
  BY <1>1, <1>8 DEF MainSend, MainService, Serving
<1>9. CASE Service
  <2>1. CASE Poll
    BY <1>1, <2>1 DEF Poll, Serving
  <2>2. CASE ReadState
    BY <1>1, <2>2 DEF ReadState, NextSlot, Serving
  <2>3. CASE ReadCount
    BY <1>1, <1>2, <2>3 DEF ReadCount, Serving
  <2>4. CASE Process
    BY <1>1, <1>2, <2>4 DEF Process, Serving
  <2>5. CASE ProcessRequest
    BY <1>1, <1>2, <2>5 DEF ProcessRequest, Serving
  <2>6. CASE Free
    BY <1>1, <2>6 DEF Free, NextSlot, Serving
  <2>7. CASE RxAck
    BY <1>1, <2>7 DEF RxAck, progVars, Serving
  <2> QED
    BY <1>9, <2>1, <2>2, <2>3, <2>4, <2>5, <2>6, <2>7 DEF Service
<1> QED
  BY <1>3, <1>4, <1>5, <1>6, <1>7, <1>8, <1>9 DEF Program, Start
-----------------------------------------------------------------------------
(* The cases of the state machine of the receiver.                         *)
LEMMA RxNextCases ==
    ASSUME rx_state \in {"IDLE", "LOAD_LO", "LOAD_HI", "TERMINATE"}
    PROVE  /\ rx_state \in {"IDLE", "LOAD_LO"} => rx_next(TRUE) = "LOAD_HI"
           /\ rx_state = "LOAD_HI" => rx_next(TRUE) = "LOAD_LO"
           /\ rx_state \in {"LOAD_LO", "LOAD_HI"} => rx_next(FALSE) = "TERMINATE"
           /\ rx_state \in {"IDLE", "TERMINATE"} => rx_next(FALSE) = "IDLE"
<1>1. CASE rx_state = "IDLE"
  BY <1>1 DEF rx_next, rx_load_lo, rx_load_hi
<1>2. CASE rx_state = "LOAD_LO"
  BY <1>2 DEF rx_next, rx_load_lo, rx_load_hi
<1>3. CASE rx_state = "LOAD_HI"
  BY <1>3 DEF rx_next, rx_load_lo, rx_load_hi
<1>4. CASE rx_state = "TERMINATE"
  BY <1>4 DEF rx_next, rx_load_lo, rx_load_hi
<1> QED
  BY <1>1, <1>2, <1>3, <1>4

(* The slot in use is chosen among those the receiver has, and two edges   *)
(* without data bring the receiver back to "IDLE" with a choice made.      *)
LEMMA RxUsed ==
    ASSUME SlotInv, RxStep
    PROVE  /\ UsedInv'
           /\ rx_state' \in {"IDLE", "LOAD_LO", "LOAD_HI", "TERMINATE"} /\ gap' \in Nat
<1>1. /\ rx_state \in {"IDLE", "LOAD_LO", "LOAD_HI", "TERMINATE"} /\ gap \in Nat
      /\ MinGap \in Nat /\ MinGap > 1
  BY MacAssumption DEF SlotInv, TokenTypeOK
<1>2. CASE WireNibble
  <2>1. rx_state \in {"LOAD_LO", "LOAD_HI"} /\ gap = 0
    BY <1>1, <1>2 DEF WireNibble, SlotInv, UsedInv
  <2>2. gap' = 0 /\ rx_state' \in {"LOAD_LO", "LOAD_HI"}
    <3>1. gap' = gap /\ rx_state' = rx_next(TRUE)
      BY <1>2 DEF WireNibble, RxClock
    <3> QED
      BY <1>1, <2>1, <3>1, RxNextCases
  <2>3. used_slot' = used_slot /\ available_slots \subseteq available_slots'
    BY <1>2, <2>1 DEF WireNibble, RxClock, UseSlot, Available, used_slot_update, rx_done
  <2> QED
    BY <1>1, <2>1, <2>2, <2>3 DEF SlotInv, UsedInv
<1>3. CASE WireFrame
  <2>1. rx_state = "IDLE" /\ gap > 1
    BY <1>1, <1>3 DEF WireFrame, SlotInv, UsedInv
  <2>2. gap' = 0 /\ rx_state' = "LOAD_HI"
    <3>1. gap' = 0 /\ rx_state' = rx_next(TRUE)
      BY <1>3 DEF WireFrame, RxClock
    <3> QED
      BY <1>1, <2>1, <3>1, RxNextCases
  <2>3. used_slot' = used_slot /\ available_slots \subseteq available_slots'
    BY <1>3, <2>1 DEF WireFrame, RxClock, UseSlot, Available, used_slot_update, rx_done
  <2> QED
    BY <1>1, <2>1, <2>2, <2>3 DEF SlotInv, UsedInv
<1>4. CASE WireIdle
  <2>1. /\ ~InFrame /\ ~InFrame'
        /\ gap' > 0 /\ gap' \in Nat
        /\ gap' > 1 <=> gap > 0
    BY <1>1, <1>4 DEF WireIdle, InFrame
  <2>2. rx_state' = rx_next(FALSE)
    BY <1>4 DEF WireIdle, RxClock
  <2>3. CASE rx_state \in {"LOAD_LO", "LOAD_HI"}
    <3>1. rx_state' = "TERMINATE" /\ ~(gap > 0)
      BY <1>1, <2>2, <2>3, RxNextCases DEF SlotInv, UsedInv
    <3> QED
      BY <2>1, <3>1 DEF UsedInv
  <2>4. CASE rx_state \in {"IDLE", "TERMINATE"}
    <3>1. rx_state' = "IDLE"
      BY <1>1, <2>2, <2>4, RxNextCases
    <3>2. used_slot' \subseteq available_slots /\ available_slots \subseteq available_slots'
      BY <1>4, <2>4 DEF WireIdle, RxClock, UseSlot, first_available, Available,
                        used_slot_update, rx_done
    <3> QED
      BY <2>1, <3>1, <3>2 DEF UsedInv
  <2> QED
    BY <1>1, <2>3, <2>4
<1> QED
  BY <1>2, <1>3, <1>4 DEF RxStep
-----------------------------------------------------------------------------
(* At the start every slot lies with the software and is empty.            *)
LEMMA SlotInit == Init => SlotInv
<1> SUFFICES ASSUME Init PROVE SlotInv
  OBVIOUS
<1>1. TokenTypeOK
  BY DEF Init, MacInit, TokenTypeOK, Psync, Quiet, Slots
<1>2. UsedInv
  BY DEF Init, MacInit, UsedInv, InFrame
<1>3. \A s \in Slots : Place(s) /\ ~Serving(s)
  BY DEF Init, MacInit, Place, WithSoftware, NoPulse, Quiet, Serving
<1> QED
  BY <1>1, <1>2, <1>3 DEF SlotInv

(* Every step, of whichever clock, leaves each slot in one place.          *)
LEMMA SlotNext == SlotInv /\ [Next]_vars => SlotInv'
<1> SUFFICES ASSUME SlotInv, [Next]_vars PROVE SlotInv'
  OBVIOUS
<1>1. TokenTypeOK /\ UsedInv /\ \A s \in Slots : Place(s)
  BY DEF SlotInv
<1>2. CASE Program \/ SysIdle
  <2>1. PICK w : /\ SysClock(w)
                 /\ w.reg = "STATE" => w.val = "LOADED"
                 /\ slot' \in Slots
                 /\ caller' \in {"main", "check"} /\ after' \in {"free", "try", "poll"}
                 /\ \A s \in Slots : Serving(s)' =>
                       /\ slot_state[s] = "PENDING"
                       /\ w.reg = "STATE" => w.slot # s
    BY <1>2, ProgramShape
  <2>2. UNCHANGED <<rxVars, wireVars>>
    BY <2>1 DEF SysClock
  <2>3. TokenTypeOK' /\ \A s \in Slots : Place(s)'
    BY <1>1, <2>1, <2>2, SysPlace DEF TokenTypeOK, rxVars, wireVars
  <2>4. UsedInv'
    BY <1>1, <2>2 DEF UsedInv, InFrame, rxVars, wireVars
  <2>5. \A s \in Slots : Serving(s)' => slot_state'[s] = "PENDING"
    <3>1. SUFFICES ASSUME NEW s \in Slots, Serving(s)' PROVE slot_state'[s] = "PENDING"
      OBVIOUS
    <3>2. slot_state[s] = "PENDING" /\ (w.reg = "STATE" => w.slot # s)
      BY <2>1, <3>1
    <3> QED
      BY <2>1, <3>2 DEF SysClock
  <2> QED
    BY <2>3, <2>4, <2>5 DEF SlotInv
<1>3. CASE PhyRx
  <2>1. RxStep /\ UNCHANGED <<slot, pc, after, caller>>
    BY <1>3 DEF PhyRx, ProgUnchanged, progVars
  <2>2. \E dv, nibble : RxClock(dv, nibble)
    BY <2>1 DEF RxStep, WireNibble, WireFrame, WireIdle
  <2>3. PICK dv, nibble : RxClock(dv, nibble)
    BY <2>2
  <2>4. UsedInv' /\ gap' \in Nat
        /\ rx_state' \in {"IDLE", "LOAD_LO", "LOAD_HI", "TERMINATE"}
    BY <2>1, RxUsed
  <2>5. slot_state' = slot_state /\ slots_loaded_r' = slots_loaded_r
    BY <2>3 DEF RxClock, ctlVars
  <2>6. /\ ready' \in [Slots -> Psync] /\ done' \in [Slots -> Psync]
        /\ available_slots' \in SUBSET Slots /\ used_slot' \in SUBSET Slots
        /\ \A s \in Slots : Place(s)'
    BY <1>1, <2>3, RxPlace DEF UsedInv
  <2>7. TokenTypeOK'
    BY <1>1, <2>1, <2>4, <2>5, <2>6 DEF TokenTypeOK
  <2> QED
    BY <2>1, <2>4, <2>5, <2>6, <2>7 DEF SlotInv, Serving
<1>4. CASE PhyTx \/ UNCHANGED vars
  <2>1. /\ UNCHANGED <<slot_state, slots_loaded_r, ready, done, rxVars, wireVars>>
        /\ UNCHANGED <<slot, pc, after, caller>>
    BY <1>4 DEF PhyTx, TxClock, ctlVars, ProgUnchanged, progVars, vars, macVars
  <2>2. TokenTypeOK' /\ UsedInv'
    BY <1>1, <2>1 DEF TokenTypeOK, UsedInv, InFrame, rxVars, wireVars
  <2>3. \A s \in Slots : Place(s)'
    BY <1>1, <2>1 DEF Place, WithSoftware, Loaded, Announced, WithReceiver, Returned, rxVars
  <2> QED
    BY <2>1, <2>2, <2>3 DEF SlotInv, Serving
<1> QED
  BY <1>2, <1>3, <1>4 DEF Next

(* For slots of any size and any traffic with the gaps of the standard, a  *)
(* slot the receiver may write into is never one that microudp_service     *)
(* works on: SlotExclusive, of minimac2_ctlif, minimac2_psync, minimac2_rx *)
(* and microudp.c together.                                                *)
THEOREM SlotsExclusive == Spec => []SlotExclusive
<1>1. SlotInv => SlotExclusive
  BY DEF SlotInv, SlotExclusive, UsedInv, Receiving, Place, WithSoftware, Loaded, Announced,
         WithReceiver, Returned
<1> QED
  BY SlotInit, SlotNext, <1>1, PTL DEF Spec
-----------------------------------------------------------------------------
(* Types.  An edge of sys_clk. *)
LEMMA SysType ==
    ASSUME MacTypeOK, NEW w, SysClock(w), w.reg = "STATE" => w.val = "LOADED",
           w.reg = "TXCOUNT" => w.val \in Counts
    PROVE  MacTypeOK'
<1> USE DEF MacTypeOK
<1>1. /\ UNCHANGED <<available_slots, used_slot, rx_count, rx_state, lo, hi, rxb, tx_state, byte_count,
                     phy_tx_count_r, phy_tx_count, air, nib, gap>>
  BY DEF SysClock, rxVars, txVars, wireVars
<1>2. slot_state' \in [Slots -> {"EMPTY", "LOADED", "PENDING"}] /\ slots_loaded_r' \in SUBSET Slots
  BY DEF SysClock, slots_loaded
<1>3. tx_count' \in Counts /\ tx_remaining_r' \in BOOLEAN
  <2>1. 0 \in Counts
    BY MacAssumption DEF Counts
  <2> QED
    BY <2>1 DEF SysClock, next_tx_count, tx_remaining
<1>4. ready' \in [Slots -> Psync] /\ done' \in [Slots -> Psync]
  <2>1. \A s \in Slots : /\ ready'[s] = Toggle(ready[s], TRUE) \/ ready'[s] = ready[s]
                         /\ done'[s] = Sample(done[s])
    BY ToggleCases DEF SysClock
  <2>2. \A s \in Slots : ready'[s] \in Psync /\ done'[s] \in Psync
    BY <2>1, PulseFacts
  <2>3. /\ ready' = [s \in Slots |-> ready'[s]]
        /\ done' = [s \in Slots |-> done'[s]]
    BY DEF SysClock
  <2> QED
    BY <2>2, <2>3
<1>5. tx_start' \in Psync /\ tx_done' \in Psync
  BY PulseFacts, ToggleCases DEF SysClock
<1>6. sys_rx_count_r' \in [Slots -> Counts] /\ sys_rx_count' \in [Slots -> Counts]
  BY DEF SysClock
<1>7. rx_moving' \in SUBSET Slots /\ tx_moving' \in BOOLEAN
  BY DEF SysClock
<1> QED
  BY <1>1, <1>2, <1>3, <1>4, <1>5, <1>6, <1>7

(* Counters stay within their width. *)
LEMMA IncType ==
    ASSUME NEW c \in Counts
    PROVE  Inc(c) \in Counts
<1>1. CountMod \in Nat \ {0}
  BY MacAssumption
<1>2. \A N \in Nat \ {0} : \A i \in 0..N-1 : (i + 1) % N \in 0..N-1
  OBVIOUS
<1> QED
  BY <1>1, <1>2 DEF Inc, Counts

(* An edge of phy_rx_clk. *)
LEMMA RxType ==
    ASSUME MacTypeOK, NEW dv \in BOOLEAN, NEW nibble \in Nibble, RxClock(dv, nibble)
    PROVE  /\ rx_state' \in {"IDLE", "LOAD_LO", "LOAD_HI", "TERMINATE"}
           /\ lo' \in Nibble /\ hi' \in Nibble
           /\ available_slots' \in SUBSET Slots /\ used_slot' \in SUBSET Slots
           /\ rxb' \in [Slots -> [Counts -> Byte]] /\ rx_count' \in [Slots -> Counts]
           /\ rx_moving' \in SUBSET Slots
           /\ ready' \in [Slots -> Psync] /\ done' \in [Slots -> Psync]
           /\ UNCHANGED <<ctlVars, tx_start, tx_done, countVars, tx_moving, txVars, txb>>
<1> USE DEF MacTypeOK
<1>1. rx_state' \in {"IDLE", "LOAD_LO", "LOAD_HI", "TERMINATE"}
  BY DEF RxClock, rx_next
<1>2. lo' \in Nibble /\ hi' \in Nibble
  BY DEF RxClock
<1>3. available_slots' \in SUBSET Slots /\ used_slot' \in SUBSET Slots
  BY DEF RxClock, Available, UseSlot, first_available, Slots
<1>4. rx_count' \in [Slots -> Counts] /\ rx_moving' \in SUBSET Slots
  <2>1. \A s \in Slots : Inc(rx_count[s]) \in Counts /\ 0 \in Counts
    BY IncType, MacAssumption DEF Counts
  <2> QED
    BY <2>1 DEF RxClock, StoreByte
<1>5. rxb' \in [Slots -> [Counts -> Byte]]
  <2>1. [lo |-> lo, hi |-> hi] \in Byte
    BY DEF Byte
  <2>2. \A s \in Slots : [rxb[s] EXCEPT ![rx_count[s]] = [lo |-> lo, hi |-> hi]] \in [Counts -> Byte]
    BY <2>1
  <2> QED
    BY <2>2 DEF RxClock, StoreByte
<1>6. ready' \in [Slots -> Psync] /\ done' \in [Slots -> Psync]
  <2>1. \A s \in Slots : /\ ready'[s] = Sample(ready[s])
                         /\ done'[s] = Toggle(done[s], TRUE) \/ done'[s] = done[s]
    BY ToggleCases DEF RxClock
  <2>2. \A s \in Slots : ready'[s] \in Psync /\ done'[s] \in Psync
    BY <2>1, PulseFacts
  <2>3. /\ ready' = [s \in Slots |-> ready'[s]]
        /\ done' = [s \in Slots |-> done'[s]]
    BY DEF RxClock
  <2> QED
    BY <2>2, <2>3
<1> QED
  BY <1>1, <1>2, <1>3, <1>4, <1>5, <1>6 DEF RxClock

(* Whatever comes over the wire, the variables of the MAC keep their types. *)
LEMMA WireType ==
    ASSUME MacTypeOK, RxStep
    PROVE  MacTypeOK'
<1>1. NoNibble \in Nibble
  BY DEF NoNibble, Nibble
<1>2. Len(air) \in Nat /\ nib \in Nat /\ Len(air) <= MaxFrames /\ MaxFrames \in Nat
  BY MacAssumption DEF MacTypeOK
<1>3. CASE WireNibble
  <2>1. Len(air) \in Frames /\ RxClock(TRUE, [frame |-> Len(air), at |-> nib])
        /\ nib' = nib + 1 /\ UNCHANGED <<air, gap>>
    <3>1. Len(air) > 0
      BY <1>3 DEF WireNibble, InFrame
    <3>2. Len(air) \in Frames
      BY <1>2, <3>1 DEF Frames
    <3> QED
      BY <1>3, <3>2 DEF WireNibble
  <2>2. [frame |-> Len(air), at |-> nib] \in Nibble
    <3>1. \A f \in Frames, i \in Nat : [frame |-> f, at |-> i] \in Nibble
      BY DEF Nibble
    <3> QED
      BY <1>2, <2>1, <3>1
  <2>3. nib' \in Nat
    BY <1>2, <2>1
  <2> QED
    BY <2>1, <2>2, <2>3, RxType DEF MacTypeOK, ctlVars, countVars, txVars
<1>4. CASE WireFrame
  <2>1. /\ Len(air) < MaxFrames /\ nib' = 1 /\ gap' = 0
        /\ RxClock(TRUE, [frame |-> Len(air) + 1, at |-> 0])
    BY <1>4 DEF WireFrame
  <2>2. [frame |-> Len(air) + 1, at |-> 0] \in Nibble
    BY <1>2, <2>1 DEF Nibble, Frames
  <2>3. air' \in Seq([kind : Kinds, nibbles : FrameNibbles]) /\ Len(air') = Len(air) + 1
    <3>1. PICK k \in Kinds, n \in FrameNibbles : air' = Append(air, [kind |-> k, nibbles |-> n])
      BY <1>4 DEF WireFrame
    <3> QED
      BY <3>1 DEF MacTypeOK
  <2>4. Len(air') <= MaxFrames /\ gap' \in 0..MinGap
    BY <1>2, <2>1, <2>3, MacAssumption
  <2> QED
    BY <2>1, <2>2, <2>3, <2>4, RxType DEF MacTypeOK, ctlVars, countVars, txVars
<1>5. CASE WireIdle
  <2>1. RxClock(FALSE, NoNibble) /\ UNCHANGED <<air, nib>>
    BY <1>5 DEF WireIdle
  <2>2. gap' \in 0..MinGap
    BY <1>5, MacAssumption DEF WireIdle, MacTypeOK
  <2> QED
    BY <1>1, <2>1, <2>2, RxType DEF MacTypeOK, ctlVars, countVars, txVars
<1> QED
  BY <1>3, <1>4, <1>5 DEF RxStep

(* An edge of phy_tx_clk. *)
LEMMA TxType ==
    ASSUME MacTypeOK, TxClock
    PROVE  MacTypeOK'
<1> USE DEF MacTypeOK
<1>1. /\ UNCHANGED <<slot_state, slots_loaded_r, tx_count, tx_remaining_r, ready, done, sys_rx_count_r,
                     sys_rx_count, rx_moving, available_slots, used_slot, rx_count, rx_state, lo, hi,
                     rxb, air, nib, gap>>
  BY DEF TxClock, ctlVars, countVars, rxVars, wireVars
<1>2. tx_state' \in {"IDLE", "SEND_LO", "SEND_HI", "TERMINATE"}
  BY DEF TxClock, tx_next
<1>3. byte_count' \in Counts
  <2>1. 0 \in Counts /\ Inc(byte_count) \in Counts
    BY IncType, MacAssumption DEF Counts
  <2> QED
    BY <2>1 DEF TxClock
<1>4. tx_start' \in Psync /\ tx_done' \in Psync
  BY PulseFacts, ToggleCases DEF TxClock
<1>5. phy_tx_count_r' \in Counts /\ phy_tx_count' \in Counts /\ tx_moving' \in BOOLEAN
  BY DEF TxClock
<1> QED
  BY <1>1, <1>2, <1>3, <1>4, <1>5

(* Where a call of microudp_service or send_packet returns to, and what    *)
(* the loops of microudp_arp_resolve have left when it does.               *)
Transfer == pc \in {"txcount", "txwait", "txack"}
Servicing == \/ pc \in {"poll", "state", "count", "process", "free", "rx_ack", "check"}
             \/ Transfer /\ after = "free"
CallInv ==
    /\ Transfer => handed # <<>>
    /\ pc = "check" => caller = "check"
    /\ Transfer /\ after = "poll" => caller = "main"
    /\ pc \in {"request", "try"} \/ (Transfer /\ after = "try") => resolved < Len(Targets)
    /\ Servicing /\ caller = "check" => resolved < Len(Targets) /\ timeout < MaxTimeout

ProgTypeOK ==
    /\ pc \in Pcs /\ slot \in Slots /\ rxlen \in Counts
    /\ caller \in {"main", "check"} /\ after \in {"free", "try", "poll"}
    /\ resolved \in 0..Len(Targets) /\ tries \in 0..MaxTries-1 /\ timeout \in 0..MaxTimeout
    /\ cached_mac \in Frames \cup {0}
    /\ handed \in Seq(SendRecord) /\ processed \in Seq(Frames)

(* What the program does at an edge to the MAC and to the processor. *)
LEMMA ProgramEdge ==
    ASSUME UdpTypeOK, CallInv, Program \/ SysIdle
    PROVE  /\ \E w : /\ SysClock(w)
                     /\ w.reg = "STATE" => w.val = "LOADED"
                     /\ w.reg = "TXCOUNT" => w.val \in Counts
           /\ IrqIdle(Lines) \/ \E mask \in SUBSET {"ETHRX", "ETHTX"} : WcsrIP(Lines, mask)
<1> USE DEF Step, Cpu, Bus, irq_ack, Fill
<1>1. /\ NoWrite.reg = "none"
      /\ \A s : WriteState(s, "LOADED").reg = "STATE" /\ WriteState(s, "LOADED").val = "LOADED"
      /\ \A n : WriteTxCount(n).reg = "TXCOUNT" /\ WriteTxCount(n).val = n
  BY DEF NoWrite, WriteState, WriteTxCount
<1>2. CASE StartAck \/ SendAck \/ RxAck
  BY <1>1, <1>2 DEF StartAck, SendAck, RxAck
<1>3. CASE StartLoad \/ Free
  BY <1>1, <1>3 DEF StartLoad, Free
<1>4. CASE SendCount
  <2>1. handed[Len(handed)].bytes \in Counts
    <3>1. handed \in Seq(SendRecord) /\ handed # <<>>
      BY <1>4 DEF UdpTypeOK, CallInv, Transfer, SendCount
    <3>2. handed[Len(handed)] \in SendRecord
      BY <3>1
    <3> QED
      BY <3>2 DEF SendRecord
  <2> QED
    BY <1>1, <1>4, <2>1 DEF SendCount
<1>5. CASE SendWait \/ Resolved \/ Resolve \/ Request \/ Try \/ TryAgain \/ Check
  BY <1>1, <1>5 DEF SendWait, Resolved, Resolve, Request, Try, TryAgain, Check
<1>6. CASE MainSend \/ MainService \/ Poll \/ ReadState \/ ReadCount \/ Process \/ ProcessRequest \/ SysIdle
  BY <1>1, <1>6 DEF MainSend, MainService, Poll, ReadState, ReadCount, Process, ProcessRequest, SysIdle
<1> QED
  BY <1>2, <1>3, <1>4, <1>5, <1>6 DEF Program, Start, Send, Arp, Service

(* A frame given to send_packet is a record of its length and addressee. *)
LEMMA FillType ==
    ASSUME NEW bytes \in Counts, NEW to \in Frames \cup {0}, NEW next,
           handed \in Seq(SendRecord), Fill(bytes, to, next)
    PROVE  handed' \in Seq(SendRecord) /\ handed' # <<>> /\ after' = next
<1>1. [bytes |-> bytes, to |-> to] \in SendRecord
  BY DEF SendRecord
<1>2. handed' = Append(handed, [bytes |-> bytes, to |-> to])
  BY DEF Fill
<1> QED
  BY <1>1, <1>2 DEF Fill

(* The frame number in a slot is one of a frame, or 0. *)
LEMMA ReceivedType ==
    ASSUME MacTypeOK, slot \in Slots
    PROVE  Received \in Frames \cup {0}
<1>1. 0 \in Counts
  BY MacAssumption DEF Counts
<1>2. rxb[slot][0] \in Byte
  BY <1>1 DEF MacTypeOK
<1>3. rxb[slot][0].lo \in Nibble
  BY <1>2 DEF Byte
<1> QED
  BY <1>3 DEF Nibble, Received

(* The variables of the program. *)
LEMMA ProgramType ==
    ASSUME UdpTypeOK, CallInv, Program \/ SysIdle
    PROVE  ProgTypeOK' /\ CallInv'
<1> USE DEF Step, ProgTypeOK, CallInv, Transfer, Servicing, progVars
<1>1. ProgTypeOK /\ MacTypeOK /\ CallInv
  BY DEF UdpTypeOK
<1>2. Len(Targets) \in Nat /\ MaxTries \in Nat \ {0} /\ MaxTimeout \in Nat
  BY UdpAssumption
<1>3. Received \in Frames \cup {0}
  BY <1>1, ReceivedType
<1>4. ArpBytes \in Counts /\ UdpBytes \in Counts
  BY UdpAssumption
<1>5. CASE SysIdle \/ StartAck \/ SendCount \/ SendWait
  BY <1>1, <1>5 DEF SysIdle, StartAck, SendCount, SendWait, Pcs
<1>6. CASE SendAck \/ RxAck
  BY <1>1, <1>6 DEF SendAck, RxAck, Pcs
<1>7. CASE StartLoad
  BY <1>1, <1>7 DEF StartLoad, Pcs, Slots
<1>8. CASE Resolved \/ Resolve
  BY <1>1, <1>2, <1>8 DEF Resolved, Resolve, Pcs
<1>9. CASE Request
  <2>1. handed' \in Seq(SendRecord) /\ handed' # <<>> /\ after' = "try"
    BY <1>1, <1>4, <1>9, FillType DEF Request
  <2> QED
    BY <1>1, <1>2, <1>9, <2>1 DEF Request, Pcs
<1>10. CASE Try \/ TryAgain
  BY <1>1, <1>2, <1>10 DEF Try, TryAgain, Pcs
<1>11. CASE Check
  BY <1>1, <1>2, <1>11 DEF Check, Pcs
<1>12. CASE MainSend
  <2>1. handed' \in Seq(SendRecord) /\ handed' # <<>> /\ after' = "poll"
    BY <1>1, <1>4, <1>12, FillType DEF MainSend
  <2> QED
    BY <1>1, <1>12, <2>1 DEF MainSend, Pcs
<1>13. CASE MainService
  BY <1>1, <1>13 DEF MainService, Pcs
<1>14. CASE Poll \/ ReadState \/ Free
  BY <1>1, <1>14 DEF Poll, ReadState, Free, NextSlot, Pcs, Slots
<1>15. CASE ReadCount
  BY <1>1, <1>15 DEF ReadCount, MacTypeOK, Pcs
<1>16. CASE Process
  <2>1. processed' \in Seq(Frames)
    BY <1>1, <1>3, <1>16 DEF Process, CrcOk
  <2> QED
    BY <1>1, <1>3, <1>16, <2>1 DEF Process, Pcs
<1>17. CASE ProcessRequest
  <2>1. handed' \in Seq(SendRecord) /\ handed' # <<>> /\ after' = "free"
    BY <1>1, <1>3, <1>4, <1>17, FillType DEF ProcessRequest
  <2>2. processed' \in Seq(Frames)
    BY <1>1, <1>3, <1>17 DEF ProcessRequest, CrcOk
  <2> QED
    BY <1>1, <1>17, <2>1, <2>2 DEF ProcessRequest, Pcs
<1> QED
  BY <1>5, <1>6, <1>7, <1>8, <1>9, <1>10, <1>11, <1>12, <1>13, <1>14, <1>15, <1>16, <1>17
     DEF Program, Start, Send, Arp, Service

(* A step keeps the types. *)
LEMMA UdpTypeStep ==
    ASSUME UdpTypeOK, CallInv, [Next]_vars
    PROVE  UdpTypeOK' /\ CallInv'
<1>1. CASE Program \/ SysIdle
  <2>1. MacTypeOK'
    BY <1>1, ProgramEdge, SysType DEF UdpTypeOK
  <2>2. IrqTypeOK'
    <3>1. Lines \in SUBSET Irqs
      BY UdpAssumption DEF Lines
    <3> QED
      BY <1>1, <3>1, ProgramEdge DEF UdpTypeOK, IrqTypeOK, IrqIdle, WcsrIP, asserted
  <2> QED
    BY <1>1, <2>1, <2>2, ProgramType DEF UdpTypeOK, ProgTypeOK
<1>2. CASE PhyRx \/ PhyTx
  <2>1. MacTypeOK' /\ UNCHANGED <<irqVars, pc, progVars>>
    BY <1>2, WireType, TxType DEF PhyRx, PhyTx, ProgUnchanged, UdpTypeOK
  <2> QED
    BY <2>1 DEF irqVars, progVars, UdpTypeOK, IrqTypeOK, CallInv, Transfer, Servicing
<1>3. CASE UNCHANGED vars
  BY <1>3 DEF vars, macVars, irqVars, progVars, ctlVars, countVars, rxVars, txVars, wireVars,
              UdpTypeOK, MacTypeOK, IrqTypeOK, CallInv, Transfer, Servicing
<1> QED
  BY <1>1, <1>2, <1>3 DEF Next

(* Both hold in every reachable state. *)
LEMMA UdpInvCorrect == Spec => [](UdpTypeOK /\ CallInv)
<1>1. Init => UdpTypeOK /\ CallInv
  <2> SUFFICES ASSUME Init PROVE UdpTypeOK /\ CallInv
    OBVIOUS
  <2>1. MacTypeOK
    <3>1. 0 \in Counts /\ 0 \in 0..MinGap /\ MaxFrames \in Nat
      BY MacAssumption DEF Counts
    <3>2. NoNibble \in Nibble /\ [lo |-> NoNibble, hi |-> NoNibble] \in Byte
      BY DEF NoNibble, Nibble, Byte
    <3>3. Quiet \in Psync
      BY DEF Quiet, Psync
    <3>4. /\ rxb \in [Slots -> [Counts -> Byte]] /\ lo \in Nibble /\ hi \in Nibble
          /\ rx_count \in [Slots -> Counts]
          /\ sys_rx_count_r \in [Slots -> Counts] /\ sys_rx_count \in [Slots -> Counts]
      BY <3>1, <3>2 DEF Init, MacInit
    <3>5. ready \in [Slots -> Psync] /\ done \in [Slots -> Psync] /\ tx_start \in Psync /\ tx_done \in Psync
      BY <3>3 DEF Init, MacInit
    <3>6. air \in Seq([kind : Kinds, nibbles : FrameNibbles]) /\ Len(air) <= MaxFrames
      BY <3>1 DEF Init, MacInit
    <3> QED
      BY <3>1, <3>4, <3>5, <3>6 DEF Init, MacInit, MacTypeOK
  <2>2. IrqTypeOK
    BY DEF Init, IrqInit, IrqTypeOK
  <2>3. ProgTypeOK
    <3>1. 0 \in 0..Len(Targets) /\ 0 \in 0..MaxTries-1 /\ 0 \in 0..MaxTimeout /\ 0 \in Counts
      BY UdpAssumption, MacAssumption DEF Counts
    <3> QED
      BY <3>1 DEF Init, ProgTypeOK, Pcs, Slots
  <2> QED
    BY <2>1, <2>2, <2>3 DEF Init, UdpTypeOK, ProgTypeOK, CallInv, Transfer, Servicing
<1>2. UdpTypeOK /\ CallInv /\ [Next]_vars => UdpTypeOK' /\ CallInv'
  BY UdpTypeStep
<1> QED
  BY <1>1, <1>2, PTL DEF Spec

(* Every variable of the MAC, the processor and the program keeps its      *)
(* type; the loops of microudp_arp_resolve stay within their bounds also   *)
(* when microudp_service answers a request in between.                     *)
THEOREM UdpTypeCorrect == Spec => []UdpTypeOK
  BY UdpInvCorrect, PTL
-----------------------------------------------------------------------------
(* The frames that have begun: only more of them come.                     *)
Begun == 0..Len(air)
AirInv ==
    /\ lo.frame \in Begun
    /\ \A s \in Slots, k \in Counts : rxb[s][k].lo.frame \in Begun
    /\ cached_mac \in Begun

(* Frames are only added to what has been on the wire.                     *)
LEMMA AirGrows ==
    ASSUME UdpTypeOK, CallInv, [Next]_vars
    PROVE  /\ Len(air) \in Nat /\ Len(air') \in Nat /\ Len(air) <= Len(air')
           /\ \A i \in 1..Len(air) : air'[i] = air[i]
<1>1. air \in Seq([kind : Kinds, nibbles : FrameNibbles]) /\ Len(air) \in Nat
  BY DEF UdpTypeOK, MacTypeOK
<1>2. CASE air' = air
  BY <1>1, <1>2
<1>3. CASE WireFrame
  <2>1. PICK k \in Kinds, n \in FrameNibbles : air' = Append(air, [kind |-> k, nibbles |-> n])
    BY <1>3 DEF WireFrame
  <2> QED
    BY <1>1, <2>1
<1>4. CASE Program \/ SysIdle
  <2>1. \E w : SysClock(w)
    BY <1>4, ProgramEdge
  <2> QED
    BY <1>2, <2>1 DEF SysClock, wireVars
<1>5. CASE PhyTx
  BY <1>2, <1>5 DEF PhyTx, TxClock, wireVars
<1>6. CASE PhyRx
  BY <1>2, <1>3, <1>6 DEF PhyRx, RxStep, WireNibble, WireIdle
<1>7. CASE UNCHANGED vars
  BY <1>2, <1>7 DEF vars, macVars, wireVars
<1> QED
  BY <1>4, <1>5, <1>6, <1>7 DEF Next

(* A received byte is one of a frame that has begun.                       *)
LEMMA RxAir ==
    ASSUME MacTypeOK, AirInv, NEW dv, NEW nibble \in Nibble, RxClock(dv, nibble),
           nibble.frame \in Begun', Len(air) <= Len(air'), Len(air) \in Nat, Len(air') \in Nat
    PROVE  lo'.frame \in Begun' /\ \A s \in Slots, k \in Counts : rxb'[s][k].lo.frame \in Begun'
<1>1. \A f \in Begun : f \in Begun'
  BY DEF Begun
<1>2. lo'.frame \in Begun'
  BY <1>1 DEF RxClock, AirInv
<1>3. ASSUME NEW s \in Slots, NEW k \in Counts PROVE rxb'[s][k].lo.frame \in Begun'
  <2>1. rxb[s] \in [Counts -> Byte]
    BY DEF MacTypeOK
  <2>2. rxb'[s][k] = rxb[s][k] \/ rxb'[s][k] = [lo |-> lo, hi |-> hi]
    BY <2>1 DEF RxClock, StoreByte
  <2> QED
    BY <1>1, <2>2 DEF AirInv
<1> QED
  BY <1>2, <1>3

(* Nobody else writes to the buffers. *)
LEMMA AirStep ==
    ASSUME UdpTypeOK, CallInv, AirInv, [Next]_vars
    PROVE  AirInv'
<1>1. /\ Len(air) \in Nat /\ Len(air') \in Nat /\ Len(air) <= Len(air')
      /\ \A f \in Begun : f \in Begun'
  BY AirGrows DEF Begun
<1>2. CASE UNCHANGED <<lo, rxb>> /\ (cached_mac' \in Begun)
  BY <1>1, <1>2 DEF AirInv
<1>3. CASE Program \/ SysIdle
  <2>1. UNCHANGED <<lo, rxb>>
    BY <1>3, ProgramEdge DEF SysClock, rxVars
  <2>2. Received \in Begun
    <3>1. 0 \in Counts /\ slot \in Slots
      BY MacAssumption DEF Counts, UdpTypeOK
    <3> QED
      BY <3>1 DEF AirInv, Received
  <2>3. cached_mac' \in Begun
    <3>1. cached_mac \in Begun /\ 0 \in Begun
      BY <1>1 DEF AirInv, Begun
    <3> QED
      BY <1>3, <2>2, <3>1 DEF Program, Start, StartAck, StartLoad, Send, SendCount, SendWait, SendAck, Arp,
             Resolved, Resolve, Request, Try, TryAgain, Check, MainSend, MainService, Service, Poll,
             ReadState, ReadCount, Process, ProcessRequest, Free, RxAck, SysIdle, progVars
  <2> QED
    BY <1>2, <2>1, <2>3
<1>4. CASE PhyTx \/ UNCHANGED vars
  <2>1. UNCHANGED <<lo, rxb, cached_mac>>
    BY <1>4 DEF PhyTx, TxClock, rxVars, ProgUnchanged, progVars, vars, macVars
  <2> QED
    BY <1>2, <2>1 DEF AirInv
<1>5. CASE PhyRx
  <2>1. MacTypeOK /\ MacTypeOK' /\ cached_mac' = cached_mac /\ RxStep
    BY <1>5, WireType DEF PhyRx, ProgUnchanged, progVars, UdpTypeOK
  <2>2. \E dv \in BOOLEAN, nibble \in Nibble : RxClock(dv, nibble) /\ nibble.frame \in Begun'
    <3>1. CASE WireNibble
      <4>1. RxClock(TRUE, [frame |-> Len(air), at |-> nib]) /\ air' = air /\ Len(air) > 0
        BY <3>1 DEF WireNibble, InFrame
      <4>2. Len(air) \in Frames /\ nib \in Nat
        BY <1>1, <2>1, <4>1, MacAssumption DEF MacTypeOK, Frames
      <4> DEFINE n == [frame |-> Len(air), at |-> nib]
      <4>3. n \in Nibble
        BY <4>2 DEF Nibble
      <4>4. n.frame \in Begun'
        BY <1>1, <4>1 DEF Begun
      <4> HIDE DEF n
      <4>5. RxClock(TRUE, n)
        BY <4>1 DEF n
      <4> QED
        BY <4>3, <4>4, <4>5
    <3>2. CASE WireFrame
      <4>1. RxClock(TRUE, [frame |-> Len(air) + 1, at |-> 0]) /\ Len(air') = Len(air) + 1
        <5> DEFINE F == [kind : Kinds, nibbles : FrameNibbles]
        <5>1. PICK x : air' = Append(air, x)
          BY <3>2 DEF WireFrame
        <5>2. air \in Seq(F)
          BY <2>1 DEF MacTypeOK
        <5> HIDE DEF F
        <5>3. Len(air') = Len(air) + 1
          BY <5>1, <5>2
        <5> QED
          BY <3>2, <5>3 DEF WireFrame
      <4>2. Len(air) + 1 \in Frames
        BY <1>1, <2>1, <4>1, MacAssumption DEF MacTypeOK, Frames
      <4> DEFINE n == [frame |-> Len(air) + 1, at |-> 0]
      <4>3. n \in Nibble
        BY <4>2 DEF Nibble
      <4>4. n.frame \in Begun'
        BY <1>1, <4>1 DEF Begun
      <4> HIDE DEF n
      <4>5. RxClock(TRUE, n)
        BY <4>1 DEF n
      <4> QED
        BY <4>3, <4>4, <4>5
    <3>3. CASE WireIdle
      <4>1. RxClock(FALSE, NoNibble) /\ NoNibble \in Nibble /\ NoNibble.frame = 0
        BY <3>3 DEF WireIdle, NoNibble, Nibble
      <4>2. NoNibble.frame \in Begun'
        BY <1>1, <4>1 DEF Begun
      <4> QED
        BY <4>1, <4>2
    <3> QED
      BY <2>1, <3>1, <3>2, <3>3 DEF RxStep
  <2>3. lo'.frame \in Begun' /\ \A s \in Slots, k \in Counts : rxb'[s][k].lo.frame \in Begun'
    BY <1>1, <2>1, <2>2, RxAir
  <2> QED
    BY <1>1, <2>1, <2>3 DEF AirInv
<1> QED
  BY <1>3, <1>4, <1>5 DEF Next

(* The cache is emptied when another address is resolved, and filled with  *)
(* a reply from that address, wherever in microudp_service it arrives.     *)
LEMMA CacheStep ==
    ASSUME UdpTypeOK, CallInv, AirInv, CacheSound, [Next]_vars
    PROVE  CacheSound'
<1> SUFFICES ASSUME cached_mac' # 0
             PROVE  air'[cached_mac'].kind = [type |-> "arp_reply", ip |-> cached_ip']
  BY DEF CacheSound
<1>1. /\ Len(air) \in Nat /\ Len(air') \in Nat /\ Len(air) <= Len(air')
      /\ \A i \in 1..Len(air) : air'[i] = air[i]
  BY AirGrows
<1>2. CASE UNCHANGED <<cached_mac, cached_ip>>
  <2>1. cached_mac \in 1..Len(air)
    BY <1>1, <1>2 DEF AirInv, Begun
  <2> QED
    BY <1>1, <1>2, <2>1 DEF CacheSound
<1>3. CASE Process /\ cached_mac' # cached_mac
  <2>1. /\ CrcOk /\ FrameKind.type = "arp_reply" /\ FrameKind.ip = cached_ip
        /\ cached_mac' = Received /\ cached_ip' = cached_ip
    BY <1>3 DEF Process
  <2>2. Received \in 1..Len(air)
    <3>1. 0 \in Counts /\ slot \in Slots
      BY MacAssumption DEF Counts, UdpTypeOK
    <3>2. Received \in 0..Len(air)
      BY <3>1 DEF AirInv, Received, Begun
    <3> QED
      BY <1>1, <2>1, <3>2 DEF CrcOk
  <2>3. FrameKind \in [type : Types, ip : STRING]
    <3> DEFINE F == [kind : Kinds, nibbles : FrameNibbles]
    <3>0. air \in Seq(F)
      BY DEF UdpTypeOK, MacTypeOK
    <3> HIDE DEF F
    <3>1. air[Received] \in F
      BY <2>2, <3>0
    <3> USE DEF F
    <3>2. FrameKind \in Kinds
      BY <3>1 DEF FrameKind
    <3> QED
      BY <3>2, UdpAssumption
  <2>4. FrameKind = [type |-> "arp_reply", ip |-> cached_ip]
    BY <2>1, <2>3
  <2> QED
    BY <1>1, <2>1, <2>2, <2>4 DEF FrameKind
<1>4. CASE Resolve
  BY <1>4 DEF Resolve
<1>5. CASE PhyRx \/ PhyTx \/ SysIdle \/ UNCHANGED vars
  BY <1>2, <1>5 DEF PhyRx, PhyTx, ProgUnchanged, SysIdle, progVars, vars
<1>6. CASE Program /\ ~Resolve /\ ~Process
  BY <1>2, <1>6 DEF Program, Start, StartAck, StartLoad, Send, SendCount, SendWait, SendAck, Arp,
         Resolved, Request, Try, TryAgain, Check, MainSend, MainService, Service, Poll,
         ReadState, ReadCount, ProcessRequest, Free, RxAck, progVars
<1>7. CASE Process /\ cached_mac' = cached_mac
  BY <1>2, <1>7 DEF Process
<1> QED
  BY <1>3, <1>4, <1>5, <1>6, <1>7 DEF Next

(* What is cached is what the owner of cached_ip answered, whatever late   *)
(* or unasked replies arrive during a later resolution.                    *)
THEOREM CacheCorrect == Spec => []CacheSound
<1>1. Init => AirInv /\ CacheSound
  BY DEF Init, MacInit, AirInv, Begun, NoNibble, CacheSound
<1>2. UdpTypeOK /\ CallInv /\ AirInv /\ CacheSound /\ [Next]_vars => AirInv' /\ CacheSound'
  BY AirStep, CacheStep
<1> QED
  BY <1>1, <1>2, UdpInvCorrect, PTL DEF Spec
-----------------------------------------------------------------------------
(* The way out.  A frame given to send_packet is a token too: it is with   *)
(* the program, in the count register, in the pulse that starts the        *)
(* transmitter, in the transmitter, or in the pulse that reports its end.  *)
Symbol == (Nat \X Nat) \X {"lo", "hi"}
LastBytes == handed[Len(handed)].bytes

TxStill == NoPulse(tx_start) /\ NoPulse(tx_done) /\ tx_state = "IDLE"
TxQuiet == TxStill /\ tx_count = 0
TxLoaded == TxStill /\ tx_count = LastBytes /\ ~tx_remaining_r

(* The length has crossed into the transmitter's clock domain when the     *)
(* pulse has.                                                              *)
TxStarting ==
    /\ tx_count = LastBytes /\ tx_remaining_r /\ tx_state = "IDLE"
    /\ OnePulse(tx_start) /\ NoPulse(tx_done)
    /\ tx_start.d2 \/ tx_start.d3 => ~tx_moving
    /\ tx_start.d3 => phy_tx_count_r = LastBytes

(* The transmitter reads the buffer one byte ahead. *)
TxSending ==
    /\ tx_count = LastBytes /\ tx_remaining_r
    /\ NoPulse(tx_start) /\ NoPulse(tx_done)
    /\ ~tx_moving /\ phy_tx_count_r = LastBytes /\ phy_tx_count = LastBytes
    /\ \/ /\ tx_state = "SEND_LO" /\ byte_count < LastBytes
          /\ txb_dat = <<Len(handed), byte_count>> /\ Len(line) = 2 * byte_count
       \/ /\ tx_state = "SEND_HI" /\ byte_count \in 1..LastBytes
          /\ txb_dat = <<Len(handed), byte_count - 1>> /\ Len(line) = 2 * byte_count - 1
       \/ tx_state = "TERMINATE" /\ Len(line) = 2 * LastBytes
    /\ \A j \in 1..Len(line) : line[j] = LineOf(Len(handed))[j]

TxReturning ==
    /\ tx_count = LastBytes /\ tx_remaining_r /\ tx_state = "IDLE"
    /\ NoPulse(tx_start) /\ OnePulse(tx_done)

WireOutInv ==
    /\ line \in Seq(Symbol) /\ aired \in Seq(Seq(Symbol))
    /\ tx_state = "IDLE" => byte_count = 0 /\ line = <<>>
    /\ \A i \in 1..Len(aired) : aired[i] = LineOf(i)

(* Where it is, seen from the program. *)
PlaceOutInv ==
    /\ handed # <<>> => LastBytes > 0
    /\ pc \in {"txcount", "txwait"} => txb = Len(handed)
    /\ "ETHTX" \in ip => pc \in {"txwait", "txack"}
    /\ pc # "txwait" => TxQuiet /\ ~tx_remaining_r
    /\ pc \notin {"txwait", "txcount"} => Len(aired) = Len(handed)
    /\ pc = "txcount" => Len(aired) + 1 = Len(handed)
    /\ pc = "txwait" /\ "ETHTX" \in ip => TxQuiet /\ Len(aired) = Len(handed)
    /\ pc = "txwait" /\ "ETHTX" \notin ip =>
          \/ (TxLoaded \/ TxStarting \/ TxSending) /\ Len(aired) + 1 = Len(handed)
          \/ TxReturning /\ Len(aired) = Len(handed)

TransmitInv == WireOutInv /\ PlaceOutInv

(* The types used here. *)
LEMMA TransmitTypes ==
    ASSUME UdpTypeOK
    PROVE  /\ tx_count \in Counts /\ byte_count \in Counts /\ phy_tx_count \in Counts
           /\ phy_tx_count_r \in Counts /\ tx_remaining_r \in BOOLEAN /\ tx_moving \in BOOLEAN
           /\ tx_start \in Psync /\ tx_done \in Psync
           /\ tx_state \in {"IDLE", "SEND_LO", "SEND_HI", "TERMINATE"}
           /\ handed \in Seq(SendRecord) /\ Len(handed) \in Nat
           /\ \A i \in 1..Len(handed) : handed[i].bytes \in Counts
           /\ \A c \in Counts : c \in Nat
<1>1. \A i \in 1..Len(handed) : handed[i].bytes \in Counts
  <2> TAKE i \in 1..Len(handed)
  <2>1. handed[i] \in SendRecord
    BY DEF UdpTypeOK
  <2> QED
    BY <2>1 DEF SendRecord
<1> QED
  BY <1>1, MacAssumption DEF UdpTypeOK, MacTypeOK, Counts

(* What an edge of sys_clk that writes no count does to the token. *)
LEMMA TransmitSys ==
    ASSUME UdpTypeOK, NEW w, SysClock(w), w.reg # "TXCOUNT", handed' = handed, LastBytes > 0,
           handed # <<>>
    PROVE  /\ TxQuiet => TxQuiet' /\ ~tx_remaining_r'
           /\ TxLoaded => TxStarting'
           /\ TxStarting => TxStarting'
           /\ TxSending => TxSending'
           /\ TxReturning => IF Out(tx_done) THEN TxQuiet' ELSE TxReturning'
<1>1. /\ UNCHANGED <<tx_state, byte_count, txb_dat, line, aired, phy_tx_count_r, phy_tx_count>>
      /\ tx_done' = Sample(tx_done) /\ tx_remaining_r' = (tx_count # 0)
      /\ tx_start' = Toggle(tx_start, tx_count # 0 /\ ~tx_remaining_r)
      /\ tx_moving' = (tx_moving \/ tx_count' # tx_count)
      /\ tx_count' = IF Out(tx_done) THEN 0 ELSE tx_count
  BY DEF SysClock, txVars, tx_remaining, next_tx_count
<1>2. /\ tx_start \in Psync /\ tx_done \in Psync /\ tx_remaining_r \in BOOLEAN /\ tx_moving \in BOOLEAN
      /\ LastBytes \in Nat /\ LastBytes # 0
  BY TransmitTypes DEF LastBytes
<1>3. LastBytes' = LastBytes /\ \A i : LineOf(i)' = LineOf(i)
  BY DEF LastBytes, LineOf
<1>4. CASE TxQuiet
  <2>1. tx_count = 0 /\ NoPulse(tx_start) /\ NoPulse(tx_done) /\ tx_state = "IDLE"
    BY <1>4 DEF TxQuiet, TxStill
  <2>2. tx_start' = tx_start /\ NoPulse(tx_done') /\ tx_count' = 0
    BY <1>1, <1>2, <2>1, PulseFacts DEF Toggle
  <2> QED
    BY <1>1, <1>2, <2>1, <2>2 DEF TxQuiet, TxStill, TxLoaded, TxStarting, TxSending, TxReturning
<1>5. CASE TxLoaded
  <2>1. /\ tx_count = LastBytes /\ ~tx_remaining_r /\ NoPulse(tx_start) /\ NoPulse(tx_done)
        /\ tx_state = "IDLE"
    BY <1>5 DEF TxLoaded, TxStill
  <2>2. OnePulse(tx_start') /\ tx_start'.d1 /\ NoPulse(tx_done') /\ tx_count' = tx_count
    BY <1>1, <1>2, <2>1, PulseFacts DEF Toggle, NoPulse, OnePulse, Psync
  <2>3. TxStarting'
    BY <1>1, <1>2, <1>3, <2>1, <2>2 DEF TxStarting, OnePulse
  <2> QED
    BY <1>2, <2>1, <2>3 DEF TxQuiet, TxStarting, TxSending, TxReturning
<1>6. CASE TxStarting \/ TxSending
  <2>1. tx_count = LastBytes /\ tx_remaining_r /\ NoPulse(tx_done)
    BY <1>6 DEF TxStarting, TxSending
  <2>2. tx_start' = tx_start /\ NoPulse(tx_done') /\ tx_count' = tx_count /\ tx_moving' = tx_moving
        /\ tx_remaining_r'
    BY <1>1, <1>2, <2>1, PulseFacts DEF Toggle
  <2>3. TxStarting => TxStarting'
    BY <1>1, <1>3, <2>1, <2>2 DEF TxStarting
  <2>4. TxSending => TxSending'
    BY <1>1, <1>3, <2>1, <2>2 DEF TxSending
  <2> QED
    BY <1>2, <2>1, <2>3, <2>4 DEF TxQuiet, TxLoaded, TxReturning, OnePulse, NoPulse
<1>7. CASE TxReturning
  <2>1. tx_count = LastBytes /\ tx_remaining_r /\ tx_state = "IDLE" /\ NoPulse(tx_start) /\ OnePulse(tx_done)
    BY <1>7 DEF TxReturning
  <2>2. tx_start' = tx_start /\ tx_remaining_r'
    BY <1>1, <1>2, <2>1 DEF Toggle
  <2>3. Out(tx_done) => TxQuiet'
    BY <1>1, <1>2, <2>1, <2>2, PulseFacts DEF TxQuiet, TxStill
  <2>4. ~Out(tx_done) => TxReturning'
    BY <1>1, <1>2, <1>3, <2>1, <2>2, PulseFacts DEF TxReturning
  <2> QED
    BY <1>2, <2>1, <2>3, <2>4 DEF TxQuiet, TxLoaded, TxStarting, TxSending, TxStill, OnePulse, NoPulse
<1> QED
  BY <1>4, <1>5, <1>6, <1>7

(* The transmitter at rest stays so until a pulse starts it. *)
LEMMA TransmitRest ==
    ASSUME UdpTypeOK, WireOutInv, TxClock, tx_state = "IDLE", ~Out(tx_start)
    PROVE  /\ tx_state' = "IDLE" /\ byte_count' = 0 /\ line' = <<>>
           /\ UNCHANGED <<aired, tx_done, tx_count, tx_remaining_r, txb>>
           /\ NoPulse(tx_start) => NoPulse(tx_start')
<1>1. tx_start \in Psync
  BY TransmitTypes
<1> QED
  BY <1>1, PulseFacts DEF TxClock, tx_next, Toggle, ctlVars

(* One edge of the transmitter inside a frame: it sends the nibble that is *)
(* due, and stops after the last byte.                                     *)
LEMMA TransmitNibble ==
    ASSUME UdpTypeOK, WireOutInv, TxClock, TxSending, handed' = handed, handed # <<>>,
           LastBytes > 0, txb = Len(handed), tx_state \in {"SEND_LO", "SEND_HI"}
    PROVE  TxSending' /\ aired' = aired /\ line' \in Seq(Symbol) /\ tx_state' # "IDLE"
<1> DEFINE n == Len(handed)
           B == LastBytes
<1>1. /\ n \in Nat /\ B \in Nat /\ B < CountMod /\ CountMod \in Nat /\ byte_count \in Nat
      /\ tx_start \in Psync /\ tx_done \in Psync /\ line \in Seq(Symbol) /\ B > 0
      /\ Len(line) \in Nat
  <2>1. B \in Counts /\ byte_count \in Counts
    BY TransmitTypes DEF LastBytes
  <2> QED
    BY <2>1, TransmitTypes, MacAssumption DEF Counts, WireOutInv
<1>2. /\ tx_count = B /\ tx_remaining_r /\ NoPulse(tx_start) /\ NoPulse(tx_done)
      /\ ~tx_moving /\ phy_tx_count_r = B /\ phy_tx_count = B
      /\ \A j \in 1..Len(line) : line[j] = LineOf(n)[j]
  BY DEF TxSending
<1>3. LastBytes' = B /\ Len(handed') = n /\ LineOf(n)' = LineOf(n)
  BY DEF LastBytes, LineOf
<1>4. /\ tx_count' = B /\ tx_remaining_r' /\ NoPulse(tx_start') /\ NoPulse(tx_done')
      /\ ~tx_moving' /\ phy_tx_count_r' = B /\ phy_tx_count' = B /\ aired' = aired
      /\ txb_dat' = <<n, byte_count>>
  <2>1. tx_start' = Sample(tx_start) /\ tx_done' = Toggle(tx_done, FALSE)
    BY DEF TxClock
  <2>2. NoPulse(tx_start') /\ NoPulse(tx_done')
    BY <1>1, <1>2, <2>1, PulseFacts DEF Toggle
  <2> QED
    BY <1>2, <2>2 DEF TxClock, ctlVars
<1>5. \A j \in 1..2 * B : LineOf(n)[j] = <<<<n, (j - 1) \div 2>>, IF j % 2 = 1 THEN "lo" ELSE "hi">>
  BY DEF LineOf, LastBytes
<1>6. \A x \in Symbol : /\ Append(line, x) \in Seq(Symbol)
                        /\ Len(Append(line, x)) = Len(line) + 1
                        /\ Append(line, x)[Len(line) + 1] = x
                        /\ \A j \in 1..Len(line) : Append(line, x)[j] = line[j]
  BY <1>1
<1>7. ASSUME NEW x \in Symbol, line' = Append(line, x), LineOf(n)[Len(line) + 1] = x
      PROVE  /\ line' \in Seq(Symbol) /\ Len(line') = Len(line) + 1
             /\ \A j \in 1..Len(line') : line'[j] = LineOf(n)[j]
  <2>1. line' \in Seq(Symbol) /\ Len(line') = Len(line) + 1
    BY <1>6, <1>7
  <2>2. ASSUME NEW j \in 1..Len(line') PROVE line'[j] = LineOf(n)[j]
    <3>1. j \in 1..Len(line) \/ j = Len(line) + 1
      BY <1>1, <2>1
    <3> QED
      BY <1>2, <1>6, <1>7, <3>1
  <2> QED
    BY <2>1, <2>2
<1>8. CASE tx_state = "SEND_LO"
  <2>1. byte_count < B /\ txb_dat = <<n, byte_count>> /\ Len(line) = 2 * byte_count
    BY <1>8 DEF TxSending
  <2>2. tx_state' = "SEND_HI" /\ byte_count' = byte_count + 1 /\ line' = Append(line, <<txb_dat, "lo">>)
    <3>1. \A m \in Nat, c \in Nat : c + 1 < m => (c + 1) % m = c + 1
      OBVIOUS
    <3>2. byte_count \in Nat /\ CountMod \in Nat /\ byte_count + 1 < CountMod
      BY <1>1, <2>1
    <3>3. Inc(byte_count) = byte_count + 1
      BY <3>1, <3>2 DEF Inc
    <3> QED
      BY <1>8, <3>3 DEF TxClock, tx_next
  <2>3. <<txb_dat, "lo">> \in Symbol
    BY <1>1, <2>1 DEF Symbol
  <2>4. LineOf(n)[Len(line) + 1] = <<txb_dat, "lo">>
    <3>1. LineOf(n)[2 * byte_count + 1] = <<<<n, (2 * byte_count) \div 2>>, "lo">>
      <4>1. 2 * byte_count + 1 \in 1..2 * B /\ (2 * byte_count + 1) % 2 = 1
            /\ (2 * byte_count + 1) - 1 = 2 * byte_count
        BY <1>1, <2>1
      <4> HIDE DEF n, B
      <4> QED
        BY <1>5, <4>1
    <3>2. (2 * byte_count) \div 2 = byte_count
      BY <1>1
    <3> QED
      BY <2>1, <3>1, <3>2
  <2>5. /\ line' \in Seq(Symbol) /\ Len(line') = Len(line) + 1
        /\ \A j \in 1..Len(line') : line'[j] = LineOf(n)[j]
    BY <1>7, <2>2, <2>3, <2>4
  <2>6. byte_count' \in 1..B /\ txb_dat' = <<n, byte_count' - 1>> /\ Len(line') = 2 * byte_count' - 1
    <3>1. byte_count' - 1 = byte_count
      BY <1>1, <2>2
    <3> QED
      BY <1>1, <1>4, <2>1, <2>2, <2>5, <3>1
  <2>7. TxSending'
    BY <1>3, <1>4, <2>2, <2>5, <2>6 DEF TxSending
  <2> QED
    BY <1>4, <2>2, <2>5, <2>7
<1>9. CASE tx_state = "SEND_HI"
  <2>1. byte_count \in 1..B /\ txb_dat = <<n, byte_count - 1>> /\ Len(line) = 2 * byte_count - 1
    BY <1>9 DEF TxSending
  <2>2. /\ tx_state' = IF byte_count = B THEN "TERMINATE" ELSE "SEND_LO"
        /\ byte_count' = byte_count /\ line' = Append(line, <<txb_dat, "hi">>)
    BY <1>2, <1>9 DEF TxClock, tx_next, byte_count_max
  <2>3. <<txb_dat, "hi">> \in Symbol
    <3>1. byte_count - 1 \in Nat
      BY <1>1, <2>1
    <3> QED
      BY <1>1, <2>1, <3>1 DEF Symbol
  <2>4. LineOf(n)[Len(line) + 1] = <<txb_dat, "hi">>
    <3>1. LineOf(n)[2 * byte_count] = <<<<n, (2 * byte_count - 1) \div 2>>, "hi">>
      <4>1. 2 * byte_count \in 1..2 * B /\ (2 * byte_count) % 2 # 1
        BY <1>1, <2>1
      <4> HIDE DEF n, B
      <4> QED
        BY <1>5, <4>1
    <3>2. (2 * byte_count - 1) \div 2 = byte_count - 1 /\ Len(line) + 1 = 2 * byte_count
      BY <1>1, <2>1
    <3> QED
      BY <2>1, <3>1, <3>2
  <2>5. /\ line' \in Seq(Symbol) /\ Len(line') = Len(line) + 1
        /\ \A j \in 1..Len(line') : line'[j] = LineOf(n)[j]
    BY <1>7, <2>2, <2>3, <2>4
  <2>6. /\ Len(line') = 2 * byte_count'
        /\ byte_count = B \/ byte_count' < B
    BY <1>1, <2>1, <2>2, <2>5
  <2>7. TxSending'
    BY <1>3, <1>4, <2>2, <2>5, <2>6 DEF TxSending
  <2> QED
    BY <1>4, <2>2, <2>5, <2>7
<1> QED
  BY <1>8, <1>9

(* An edge of phy_tx_clk before a frame, and the one that starts it.       *)
LEMMA TransmitStart ==
    ASSUME UdpTypeOK, WireOutInv, TxClock, TxStarting, handed' = handed, handed # <<>>,
           LastBytes > 0, txb = Len(handed)
    PROVE  /\ TxStarting' \/ TxSending'
           /\ aired' = aired /\ line' = <<>> /\ byte_count' = 0
<1>1. /\ tx_count = LastBytes /\ tx_remaining_r /\ tx_state = "IDLE"
      /\ OnePulse(tx_start) /\ NoPulse(tx_done)
      /\ tx_start.d2 \/ tx_start.d3 => ~tx_moving
      /\ tx_start.d3 => phy_tx_count_r = LastBytes
      /\ byte_count = 0
  BY DEF TxStarting, WireOutInv
<1>2. /\ tx_start \in Psync /\ LastBytes \in Nat /\ tx_moving \in BOOLEAN
  BY TransmitTypes DEF LastBytes
<1>3. LastBytes' = LastBytes /\ Len(handed') = Len(handed)
  BY DEF LastBytes
<1>4. /\ tx_count' = tx_count /\ tx_remaining_r' = tx_remaining_r /\ tx_done' = tx_done
      /\ tx_start' = Sample(tx_start) /\ aired' = aired /\ line' = <<>> /\ byte_count' = 0
      /\ txb_dat' = <<Len(handed), 0>> /\ ~tx_moving' /\ phy_tx_count' = phy_tx_count_r
      /\ ~tx_moving => phy_tx_count_r' = tx_count
      /\ tx_state' = IF Out(tx_start) THEN "SEND_LO" ELSE "IDLE"
  BY <1>1 DEF TxClock, tx_next, ctlVars, Toggle
<1>5. CASE Out(tx_start)
  <2>1. NoPulse(tx_start') /\ ~tx_moving /\ phy_tx_count_r = LastBytes
    BY <1>1, <1>2, <1>4, <1>5, PulseFacts DEF Out
  <2>2. Len(line') = 2 * byte_count' /\ \A j \in 1..Len(line') : line'[j] = LineOf(Len(handed))'[j]
    BY <1>4
  <2>3. TxSending'
    BY <1>1, <1>2, <1>3, <1>4, <1>5, <2>1, <2>2 DEF TxSending
  <2> QED
    BY <1>4, <2>3
<1>6. CASE ~Out(tx_start)
  <2>1. OnePulse(tx_start')
    BY <1>1, <1>2, <1>4, <1>6, PulseFacts
  <2>2. tx_start'.d3 => phy_tx_count_r' = LastBytes
    BY <1>1, <1>4 DEF Sample
  <2>3. TxStarting'
    BY <1>1, <1>3, <1>4, <1>6, <2>1, <2>2 DEF TxStarting
  <2> QED
    BY <1>4, <2>3
<1> QED
  BY <1>5, <1>6

(* The edge that ends a frame: it has been sent whole.                     *)
LEMMA TransmitEnd ==
    ASSUME UdpTypeOK, WireOutInv, TxClock, TxSending, handed' = handed, handed # <<>>,
           tx_state = "TERMINATE"
    PROVE  /\ TxReturning' /\ line' = <<>> /\ byte_count' = 0
           /\ aired' = Append(aired, line) /\ line = LineOf(Len(handed))
<1>1. /\ tx_count = LastBytes /\ tx_remaining_r /\ NoPulse(tx_start) /\ NoPulse(tx_done)
      /\ Len(line) = 2 * LastBytes
      /\ \A j \in 1..Len(line) : line[j] = LineOf(Len(handed))[j]
  BY DEF TxSending
<1>2. tx_start \in Psync /\ tx_done \in Psync /\ LastBytes \in Nat /\ line \in Seq(Symbol)
  BY TransmitTypes DEF LastBytes, WireOutInv
<1>3. /\ tx_start' = Sample(tx_start) /\ tx_done' = Toggle(tx_done, TRUE) /\ tx_state' = "IDLE"
      /\ line' = <<>> /\ byte_count' = 0 /\ aired' = Append(aired, line)
      /\ tx_count' = tx_count /\ tx_remaining_r' = tx_remaining_r
  BY DEF TxClock, tx_next, ctlVars
<1>4. OnePulse(tx_done') /\ NoPulse(tx_start')
  BY <1>1, <1>2, <1>3, PulseFacts
<1>5. LastBytes' = LastBytes
  BY DEF LastBytes
<1>6. line = LineOf(Len(handed))
  <2>1. line = [j \in 1..Len(line) |-> line[j]]
    BY <1>2
  <2>2. LineOf(Len(handed)) = [j \in 1..2 * LastBytes |-> LineOf(Len(handed))[j]]
    BY DEF LineOf, LastBytes
  <2> QED
    BY <1>1, <2>1, <2>2
<1> QED
  BY <1>1, <1>3, <1>4, <1>5, <1>6 DEF TxReturning

(* An edge of phy_tx_clk. *)
LEMMA TransmitPhy ==
    ASSUME UdpTypeOK, TransmitInv, TxClock, UNCHANGED <<ip, pc, handed>>, CallInv
    PROVE  TransmitInv'
<1>1. /\ UNCHANGED <<txb, tx_count, tx_remaining_r>> /\ LastBytes' = LastBytes
      /\ \A i : LineOf(i)' = LineOf(i)
  BY DEF TxClock, ctlVars, LastBytes, LineOf
<1>2. WireOutInv /\ PlaceOutInv
  BY DEF TransmitInv
<1>3. tx_start \in Psync /\ tx_done \in Psync /\ handed \in Seq(SendRecord) /\ Len(handed) \in Nat
  BY TransmitTypes
<1>4. ASSUME TxStill
      PROVE  WireOutInv' /\ TxStill' /\ aired' = aired
  <2>1. tx_state = "IDLE" /\ NoPulse(tx_start) /\ NoPulse(tx_done) /\ ~Out(tx_start)
    BY <1>3, <1>4, PulseFacts DEF TxStill
  <2>2. /\ tx_state' = "IDLE" /\ byte_count' = 0 /\ line' = <<>>
        /\ UNCHANGED <<aired, tx_done>> /\ NoPulse(tx_start')
    BY <1>2, <2>1, TransmitRest
  <2> QED
    BY <1>1, <1>2, <2>1, <2>2 DEF WireOutInv, TxStill
<1>5. CASE TxQuiet
  <2>1. TxQuiet' /\ WireOutInv' /\ aired' = aired
    BY <1>1, <1>4, <1>5 DEF TxQuiet
  <2>2. ~(pc = "txwait" /\ "ETHTX" \notin ip)
    <3>1. ~TxStarting /\ ~TxReturning
      BY <1>5 DEF TxQuiet, TxStill, TxStarting, TxReturning, OnePulse, NoPulse
    <3>2. pc = "txwait" => LastBytes > 0 /\ LastBytes \in Nat
      BY <1>2, TransmitTypes DEF CallInv, Transfer, PlaceOutInv, LastBytes
    <3>3. pc = "txwait" => ~TxLoaded /\ ~TxSending
      BY <1>5, <3>2 DEF TxQuiet, TxLoaded, TxSending
    <3> QED
      BY <1>2, <3>1, <3>3 DEF PlaceOutInv
  <2>3. PlaceOutInv'
    BY <1>1, <1>2, <2>1, <2>2 DEF PlaceOutInv
  <2> QED
    BY <2>1, <2>3 DEF TransmitInv
<1>6. CASE ~TxQuiet
  <2>1. /\ pc = "txwait" /\ "ETHTX" \notin ip
        /\ \/ (TxLoaded \/ TxStarting \/ TxSending) /\ Len(aired) + 1 = Len(handed)
           \/ TxReturning /\ Len(aired) = Len(handed)
    BY <1>2, <1>6 DEF PlaceOutInv
  <2>2. handed # <<>> /\ LastBytes > 0 /\ txb = Len(handed) /\ aired \in Seq(Seq(Symbol))
    BY <1>2, <2>1 DEF CallInv, Transfer, PlaceOutInv, WireOutInv
  <2>3. SUFFICES /\ WireOutInv'
                 /\ \/ (TxLoaded' \/ TxStarting' \/ TxSending') /\ Len(aired') + 1 = Len(handed)
                    \/ TxReturning' /\ Len(aired') = Len(handed)
    BY <1>1, <1>2, <2>1, <2>2 DEF TransmitInv, PlaceOutInv
  <2>4. CASE TxLoaded
    <3>1. WireOutInv' /\ TxLoaded' /\ aired' = aired
      BY <1>1, <1>4, <2>4 DEF TxLoaded
    <3>2. Len(aired) + 1 = Len(handed)
      BY <2>1, <2>4 DEF TxLoaded, TxReturning, TxStill, NoPulse, OnePulse
    <3> QED
      BY <3>1, <3>2
  <2>5. CASE TxReturning
    <3>1. tx_state = "IDLE" /\ NoPulse(tx_start) /\ ~Out(tx_start)
      BY <1>3, <2>5, PulseFacts DEF TxReturning
    <3>2. /\ tx_state' = "IDLE" /\ byte_count' = 0 /\ line' = <<>>
          /\ UNCHANGED <<aired, tx_done>> /\ NoPulse(tx_start')
      BY <1>2, <3>1, TransmitRest
    <3>3. WireOutInv' /\ TxReturning'
      BY <1>1, <1>2, <2>5, <3>2 DEF WireOutInv, TxReturning
    <3>4. Len(aired) = Len(handed)
      BY <2>1, <2>5 DEF TxReturning, TxLoaded, TxStarting, TxSending, TxStill, NoPulse, OnePulse
    <3> QED
      BY <3>2, <3>3, <3>4
  <2>6. CASE TxStarting
    <3>1. /\ TxStarting' \/ TxSending'
          /\ aired' = aired /\ line' = <<>> /\ byte_count' = 0
      BY <1>2, <2>2, <2>6, TransmitStart
    <3>2. WireOutInv'
      BY <1>1, <1>2, <3>1 DEF WireOutInv
    <3>3. Len(aired) + 1 = Len(handed)
      BY <2>1, <2>6 DEF TxReturning, TxStarting, NoPulse, OnePulse
    <3> QED
      BY <3>1, <3>2, <3>3
  <2>7. CASE TxSending
    <3>1. Len(aired) + 1 = Len(handed)
      BY <2>1, <2>7 DEF TxReturning, TxSending, NoPulse, OnePulse
    <3>2. CASE tx_state \in {"SEND_LO", "SEND_HI"}
      <4>1. TxSending' /\ aired' = aired /\ line' \in Seq(Symbol) /\ tx_state' # "IDLE"
        BY <1>2, <2>2, <2>7, <3>2, TransmitNibble
      <4>2. WireOutInv'
        BY <1>1, <1>2, <4>1 DEF WireOutInv
      <4> QED
        BY <3>1, <4>1, <4>2
    <3>3. CASE tx_state = "TERMINATE"
      <4>1. /\ TxReturning' /\ line' = <<>> /\ byte_count' = 0
            /\ aired' = Append(aired, line) /\ line = LineOf(Len(handed))
        BY <1>2, <2>2, <2>7, <3>3, TransmitEnd
      <4>2. /\ aired' \in Seq(Seq(Symbol)) /\ Len(aired') = Len(aired) + 1
            /\ aired'[Len(aired) + 1] = line
            /\ \A i \in 1..Len(aired) : aired'[i] = aired[i]
        BY <1>2, <2>2, <4>1 DEF WireOutInv
      <4>3. \A i \in 1..Len(aired') : i \in 1..Len(aired) \/ i = Len(aired) + 1
        BY <2>2, <4>2
      <4>4. \A i \in 1..Len(aired') : aired'[i] = LineOf(i)
        BY <1>2, <3>1, <4>1, <4>2, <4>3 DEF WireOutInv
      <4>5. WireOutInv'
        BY <1>1, <4>1, <4>2, <4>4 DEF WireOutInv
      <4> QED
        BY <3>1, <4>1, <4>2, <4>5
    <3> QED
      BY <2>7, <3>2, <3>3 DEF TxSending
  <2> QED
    BY <2>1, <2>4, <2>5, <2>6, <2>7
<1> QED
  BY <1>5, <1>6

(* The registers of an empty way out at an edge of sys_clk.                *)
LEMMA QuietSys ==
    ASSUME UdpTypeOK, WireOutInv, TxQuiet, NEW w, SysClock(w)
    PROVE  /\ TxStill' /\ ~tx_remaining_r' /\ "ETHTX" \notin Lines
           /\ w.reg = "TXCOUNT" => tx_count' = w.val
           /\ w.reg # "TXCOUNT" => TxQuiet'
           /\ UNCHANGED <<tx_state, byte_count, line, aired>>
<1>1. tx_count = 0 /\ NoPulse(tx_start) /\ NoPulse(tx_done) /\ tx_state = "IDLE"
  BY DEF TxQuiet, TxStill
<1>2. /\ tx_start \in Psync /\ tx_done \in Psync
  BY TransmitTypes
<1>3. ~Out(tx_done) /\ NoPulse(tx_done')
  BY <1>1, <1>2, PulseFacts DEF SysClock
<1>4. /\ UNCHANGED <<tx_state, byte_count, line, aired>> /\ tx_start' = tx_start /\ ~tx_remaining_r'
  BY <1>1 DEF SysClock, txVars, tx_remaining, Toggle
<1>5. /\ w.reg = "TXCOUNT" => tx_count' = w.val
      /\ w.reg # "TXCOUNT" => tx_count' = 0
  BY <1>1, <1>3 DEF SysClock, next_tx_count
<1>6. TxStill'
  BY <1>1, <1>3, <1>4 DEF TxStill
<1>7. "ETHTX" \notin Lines
  BY <1>3 DEF Lines, irq_tx
<1> QED
  BY <1>4, <1>5, <1>6, <1>7 DEF TxQuiet

(* Steps of the program outside send_packet. *)
LEMMA TransmitIdle ==
    ASSUME UdpTypeOK, TransmitInv, NEW w, SysClock(w), w.reg # "TXCOUNT",
           pc # "txcount", pc # "txwait", pc' # "txcount", pc' # "txwait",
           pc = "txack" => "ETHTX" \notin ip',
           UNCHANGED handed, ip' \subseteq ip \cup Lines
    PROVE  TransmitInv'
<1>1. WireOutInv /\ TxQuiet /\ ~tx_remaining_r /\ Len(aired) = Len(handed)
  BY DEF TransmitInv, PlaceOutInv
<1>2. /\ TxQuiet' /\ ~tx_remaining_r' /\ "ETHTX" \notin Lines
      /\ UNCHANGED <<tx_state, byte_count, line, aired>>
  BY <1>1, QuietSys
<1>3. LastBytes' = LastBytes /\ \A i : LineOf(i)' = LineOf(i)
  BY DEF LastBytes, LineOf
<1>4. WireOutInv'
  BY <1>1, <1>2, <1>3 DEF WireOutInv
<1>5. "ETHTX" \notin ip'
  BY <1>2 DEF TransmitInv, PlaceOutInv
<1>6. PlaceOutInv'
  BY <1>1, <1>2, <1>3, <1>5 DEF TransmitInv, PlaceOutInv
<1> QED
  BY <1>4, <1>6 DEF TransmitInv

(* A frame is given to send_packet.                                        *)
LEMMA TransmitFill ==
    ASSUME UdpTypeOK, TransmitInv, NEW bytes \in Counts \ {0}, NEW to \in Frames \cup {0}, NEW next,
           Fill(bytes, to, next), pc # "txcount", pc # "txwait", pc # "txack", pc' = "txcount"
    PROVE  TransmitInv'
<1>1. WireOutInv /\ TxQuiet /\ ~tx_remaining_r /\ Len(aired) = Len(handed)
  BY DEF TransmitInv, PlaceOutInv
<1>2. SysClock(NoWrite) /\ NoWrite.reg # "TXCOUNT" /\ txb' = Len(handed) + 1 /\ ip' = ip \cup Lines
  BY DEF Fill, NoWrite, IrqIdle, asserted
<1>3. /\ TxQuiet' /\ ~tx_remaining_r' /\ "ETHTX" \notin Lines
      /\ UNCHANGED <<tx_state, byte_count, line, aired>>
  BY <1>1, <1>2, QuietSys
<1>4. /\ Len(handed') = Len(handed) + 1 /\ handed'[Len(handed')] = [bytes |-> bytes, to |-> to]
      /\ \A i \in 1..Len(handed) : handed'[i] = handed[i]
      /\ Len(handed) \in Nat
  <2>1. [bytes |-> bytes, to |-> to] \in SendRecord
    BY DEF SendRecord
  <2>2. handed \in Seq(SendRecord) /\ handed' = Append(handed, [bytes |-> bytes, to |-> to])
    BY DEF UdpTypeOK, Fill
  <2> QED
    BY <2>1, <2>2
<1>5. LastBytes' > 0
  <2>1. bytes > 0
    BY MacAssumption DEF Counts
  <2> QED
    BY <1>4, <2>1 DEF LastBytes
<1>6. \A i \in 1..Len(aired) : LineOf(i)' = LineOf(i)
  BY <1>1, <1>4 DEF LineOf
<1>7. WireOutInv'
  BY <1>1, <1>3, <1>6 DEF WireOutInv
<1>8. "ETHTX" \notin ip'
  BY <1>2, <1>3 DEF TransmitInv, PlaceOutInv
<1>9. PlaceOutInv'
  BY <1>1, <1>2, <1>3, <1>4, <1>5, <1>8 DEF PlaceOutInv
<1> QED
  BY <1>7, <1>9 DEF TransmitInv

(* The length is written to the register. *)
LEMMA TransmitCount ==
    ASSUME UdpTypeOK, CallInv, TransmitInv, SendCount
    PROVE  TransmitInv'
<1>1. /\ WireOutInv /\ TxQuiet /\ ~tx_remaining_r /\ Len(aired) + 1 = Len(handed) /\ pc = "txcount"
      /\ "ETHTX" \notin ip /\ txb = Len(handed) /\ handed # <<>> /\ LastBytes > 0
  BY DEF TransmitInv, PlaceOutInv, SendCount, Step, CallInv, Transfer
<1> DEFINE w == WriteTxCount(LastBytes)
<1>2. /\ SysClock(w) /\ w.reg = "TXCOUNT" /\ w.val = LastBytes /\ txb' = txb
      /\ ip' = ip \cup Lines /\ pc' = "txwait" /\ handed' = handed
  BY DEF SendCount, Step, Bus, IrqIdle, asserted, LastBytes, WriteTxCount, progVars
<1> HIDE DEF w
<1>3. /\ TxStill' /\ ~tx_remaining_r' /\ "ETHTX" \notin Lines /\ tx_count' = LastBytes
      /\ UNCHANGED <<tx_state, byte_count, line, aired>>
  BY <1>1, <1>2, QuietSys
<1>4. LastBytes' = LastBytes /\ \A i : LineOf(i)' = LineOf(i)
  BY <1>2 DEF LastBytes, LineOf
<1>5. WireOutInv'
  BY <1>1, <1>3, <1>4 DEF WireOutInv
<1>6. TxLoaded' /\ "ETHTX" \notin ip'
  BY <1>1, <1>2, <1>3, <1>4 DEF TxLoaded
<1>7. PlaceOutInv'
  BY <1>1, <1>2, <1>3, <1>4, <1>6 DEF PlaceOutInv
<1> QED
  BY <1>5, <1>7 DEF TransmitInv

(* While the program waits, or between two of its steps. *)
LEMMA TransmitWait ==
    ASSUME UdpTypeOK, CallInv, TransmitInv, SysIdle \/ SendWait
    PROVE  TransmitInv'
<1>1. /\ SysClock(NoWrite) /\ NoWrite.reg # "TXCOUNT" /\ UNCHANGED <<txb, handed>> /\ ip' = ip \cup Lines
      /\ pc' = pc \/ (pc = "txwait" /\ "ETHTX" \in ip /\ pc' = "txack")
  BY DEF SysIdle, SendWait, Step, Cpu, Bus, NoWrite, IrqIdle, asserted, progVars
<1>2. WireOutInv /\ PlaceOutInv
  BY DEF TransmitInv
<1>3. LastBytes' = LastBytes /\ \A i : LineOf(i)' = LineOf(i)
  BY <1>1 DEF LastBytes, LineOf
<1>4. /\ UNCHANGED <<tx_state, byte_count, line, aired>>
      /\ tx_remaining_r' = (tx_count # 0)
      /\ "ETHTX" \in Lines <=> Out(tx_done)
  BY <1>1 DEF SysClock, txVars, Lines, irq_tx, tx_remaining
<1>5. WireOutInv'
  BY <1>2, <1>3, <1>4 DEF WireOutInv
<1>6. CASE pc # "txwait" \/ "ETHTX" \in ip
  <2>1. TxQuiet
    BY <1>2, <1>6 DEF PlaceOutInv
  <2>2. /\ TxQuiet' /\ ~tx_remaining_r' /\ "ETHTX" \notin Lines
        /\ UNCHANGED <<tx_state, byte_count, line, aired>>
    BY <1>1, <1>2, <2>1, QuietSys
  <2>3. "ETHTX" \in ip' <=> "ETHTX" \in ip
    BY <1>1, <2>2
  <2>4. PlaceOutInv'
    BY <1>1, <1>2, <1>3, <1>6, <2>2, <2>3 DEF PlaceOutInv
  <2> QED
    BY <1>5, <2>4 DEF TransmitInv
<1>7. CASE pc = "txwait" /\ "ETHTX" \notin ip
  <2>1. handed # <<>> /\ LastBytes > 0 /\ pc' = "txwait"
    BY <1>1, <1>2, <1>7 DEF PlaceOutInv, CallInv, Transfer
  <2>2. /\ TxQuiet => TxQuiet' /\ ~tx_remaining_r'
        /\ TxLoaded => TxStarting'
        /\ TxStarting => TxStarting'
        /\ TxSending => TxSending'
        /\ TxReturning => IF Out(tx_done) THEN TxQuiet' ELSE TxReturning'
    BY <1>1, <2>1, TransmitSys
  <2>3. "ETHTX" \in ip' <=> Out(tx_done)
    BY <1>1, <1>4, <1>7
  <2>4. CASE (TxLoaded \/ TxStarting \/ TxSending) /\ Len(aired) + 1 = Len(handed)
    <3>1. NoPulse(tx_done)
      BY <2>4 DEF TxLoaded, TxStarting, TxSending, TxStill
    <3>2. "ETHTX" \notin ip'
      BY <2>3, <3>1 DEF NoPulse, Out
    <3>3. (TxStarting' \/ TxSending') /\ Len(aired') + 1 = Len(handed')
      BY <1>1, <1>4, <2>2, <2>4
    <3>4. PlaceOutInv'
      BY <1>1, <1>2, <1>3, <1>7, <2>1, <3>2, <3>3 DEF PlaceOutInv
    <3> QED
      BY <1>5, <3>4 DEF TransmitInv
  <2>5. CASE TxReturning /\ Len(aired) = Len(handed)
    <3>1. /\ Len(aired') = Len(handed')
          /\ IF "ETHTX" \in ip' THEN TxQuiet' ELSE TxReturning'
      BY <1>1, <1>4, <2>2, <2>3, <2>5
    <3>2. PlaceOutInv'
      BY <1>1, <1>2, <1>3, <1>7, <2>1, <3>1 DEF PlaceOutInv
    <3> QED
      BY <1>5, <3>2 DEF TransmitInv
  <2> QED
    BY <1>2, <1>7, <2>4, <2>5 DEF PlaceOutInv
<1> QED
  BY <1>6, <1>7

(* Every step of the system keeps it. *)
LEMMA TransmitStep ==
    ASSUME UdpTypeOK, CallInv, TransmitInv, [Next]_vars
    PROVE  TransmitInv'
<1> USE DEF Step
<1>1. /\ NoWrite.reg # "TXCOUNT" /\ \A s, v : WriteState(s, v).reg # "TXCOUNT"
      /\ ArpBytes \in Counts \ {0} /\ UdpBytes \in Counts \ {0}
      /\ caller \in {"main", "check"} /\ after \in {"free", "try", "poll"}
      /\ cached_mac \in Frames \cup {0}
  BY UdpAssumption DEF NoWrite, WriteState, UdpTypeOK
<1>2. CASE SendCount
  BY <1>2, TransmitCount
<1>3. CASE SendWait \/ SysIdle
  BY <1>3, TransmitWait
<1>4. CASE Request
  BY <1>1, <1>4, TransmitFill DEF Request
<1>5. CASE MainSend
  BY <1>1, <1>5, TransmitFill DEF MainSend
<1>6. CASE ProcessRequest
  <2>1. Received \in Frames \cup {0}
    BY ReceivedType DEF UdpTypeOK
  <2> QED
    BY <1>1, <1>6, <2>1, TransmitFill DEF ProcessRequest
<1>7. CASE StartAck \/ RxAck \/ SendAck
  <2>1. /\ SysClock(NoWrite) /\ handed' = handed /\ ip' \subseteq ip \cup Lines
        /\ pc' \in {"start_load", caller, after} /\ pc \in {"start_ack", "rx_ack", "txack"}
        /\ pc = "txack" => "ETHTX" \notin ip'
    BY <1>7 DEF StartAck, RxAck, SendAck, irq_ack, WcsrIP, asserted, progVars
  <2> QED
    BY <1>1, <2>1, TransmitIdle
<1>8. CASE StartLoad \/ Free
  <2>1. /\ \E s : SysClock(WriteState(s, "LOADED"))
        /\ handed' = handed /\ ip' \subseteq ip \cup Lines
        /\ pc' \in {"start_load", "resolve", "state", "rx_ack"} /\ pc \in {"start_load", "free"}
    BY <1>8 DEF StartLoad, Free, NextSlot, Bus, IrqIdle, asserted
  <2> QED
    BY <1>1, <2>1, TransmitIdle
<1>9. CASE \/ Resolved \/ Resolve \/ Try \/ TryAgain \/ Check \/ MainService
           \/ Poll \/ ReadState \/ ReadCount \/ Process
  <2>1. Cpu /\ handed' = handed
    BY <1>9 DEF Resolved, Resolve, Try, TryAgain, Check, MainService, Poll, ReadState, ReadCount, Process
  <2>2. /\ pc \in {"resolve", "try", "check", "main", "poll", "state", "count", "process"}
        /\ pc' \in {"main", "resolve", "request", "poll", "try", "check", "state", "rx_ack", "count",
                    "process", "free"}
    BY <1>1, <1>9 DEF Resolved, Resolve, Try, TryAgain, Check, MainService, Poll, ReadState, ReadCount,
                Process, NextSlot
  <2>3. SysClock(NoWrite) /\ ip' \subseteq ip \cup Lines
    BY <2>1 DEF Cpu, Bus, IrqIdle, asserted
  <2> QED
    BY <1>1, <2>1, <2>2, <2>3, TransmitIdle
<1>10. CASE PhyTx
  <2>1. TxClock /\ UNCHANGED <<ip, pc, handed>>
    BY <1>10 DEF PhyTx, ProgUnchanged, progVars, irqVars
  <2> QED
    BY <2>1, TransmitPhy
<1>11. CASE PhyRx \/ UNCHANGED vars
  <2>1. /\ UNCHANGED <<tx_count, tx_remaining_r, tx_start, tx_done, tx_moving, txb>>
        /\ UNCHANGED <<tx_state, byte_count, txb_dat, line, aired, phy_tx_count_r, phy_tx_count>>
        /\ UNCHANGED <<ip, pc, handed>>
    BY <1>11 DEF PhyRx, RxStep, WireNibble, WireFrame, WireIdle, RxClock, ProgUnchanged, ctlVars, txVars,
             irqVars, progVars, vars, macVars
  <2>2. LastBytes' = LastBytes /\ \A i : LineOf(i)' = LineOf(i)
    BY <2>1 DEF LastBytes, LineOf
  <2>3. WireOutInv' /\ TxStill' = TxStill /\ TxStarting' = TxStarting /\ TxReturning' = TxReturning
    BY <2>1, <2>2 DEF TransmitInv, WireOutInv, TxStill, TxStarting, TxReturning
  <2>4. TxQuiet' = TxQuiet /\ TxLoaded' = TxLoaded /\ TxSending' = TxSending
    BY <2>1, <2>2, <2>3 DEF TxQuiet, TxLoaded, TxSending
  <2>5. PlaceOutInv'
    BY <2>1, <2>2, <2>3, <2>4 DEF TransmitInv, PlaceOutInv
  <2> QED
    BY <2>3, <2>5 DEF TransmitInv
<1> QED
  BY <1>2, <1>3, <1>4, <1>5, <1>6, <1>7, <1>8, <1>9, <1>10, <1>11
     DEF Next, Program, Start, Send, Arp, Service

(* However the clocks of the processor and of the transmitter run, every   *)
(* frame given to send_packet leaves once, whole and in order, and         *)
(* send_packet only returns when its frame has left: the length is         *)
(* sampled without a synchroniser, but stands still when it is.            *)
THEOREM SendCorrect == Spec => []SendSynchronous
<1>1. Init => TransmitInv
  <2> SUFFICES ASSUME Init PROVE TransmitInv
    OBVIOUS
  <2>1. handed = <<>> /\ aired = <<>> /\ line = <<>> /\ pc = "start_ack" /\ ip = {}
    BY DEF Init, MacInit, IrqInit
  <2>2. WireOutInv
    BY <2>1 DEF Init, MacInit, WireOutInv
  <2>3. TxQuiet /\ ~tx_remaining_r
    BY DEF Init, MacInit, TxQuiet, TxStill, NoPulse, Quiet
  <2> QED
    BY <2>1, <2>2, <2>3 DEF TransmitInv, PlaceOutInv
<1>2. UdpTypeOK /\ CallInv /\ TransmitInv /\ [Next]_vars => TransmitInv'
  BY TransmitStep
<1>3. UdpTypeOK /\ CallInv /\ TransmitInv => SendSynchronous
  <2> SUFFICES ASSUME UdpTypeOK, TransmitInv PROVE SendSynchronous
    OBVIOUS
  <2>1. Len(aired) \in Nat /\ Len(handed) \in Nat /\ DOMAIN aired = 1..Len(aired)
    BY TransmitTypes DEF TransmitInv, WireOutInv
  <2>2. Len(aired) = Len(handed) \/ Len(aired) + 1 = Len(handed)
    BY DEF TransmitInv, PlaceOutInv
  <2>3. pc \notin {"txcount", "txwait"} => Len(aired) = Len(handed)
    BY DEF TransmitInv, PlaceOutInv
  <2>4. \A i \in DOMAIN aired : aired[i] = LineOf(i)
    BY <2>1 DEF TransmitInv, WireOutInv
  <2> QED
    BY <2>1, <2>2, <2>3, <2>4 DEF SendSynchronous
<1> QED
  BY <1>1, <1>2, <1>3, UdpInvCorrect, PTL DEF Spec
-----------------------------------------------------------------------------
(* The way in.  What the receiver has stored of frame f in slot s: its     *)
(* first b bytes, unless they did not fit and the counter has wrapped.     *)
Filled(f, s, b) ==
    /\ b > 0 => rxb[s][0].lo.frame = f
    /\ b < CountMod => rx_count[s] = b /\ \A k \in 0..b-1 : rxb[s][k] = ByteOf(f, k)
WholeBytes(f) == air[f].nibbles \div 2
WholeIn(s) == \E f \in 1..Len(air) : Filled(f, s, WholeBytes(f))

(* The byte whose nibbles are in lo and hi is stored at the next edge.     *)
FillInv ==
    /\ rx_state \in {"LOAD_LO", "LOAD_HI"} => Len(air) > 0 /\ nib <= air[Len(air)].nibbles
    /\ rx_state = "LOAD_HI" => /\ nib % 2 = 1 /\ lo = [frame |-> Len(air), at |-> nib - 1]
                               /\ \A s \in used_slot : Filled(Len(air), s, nib \div 2)
    /\ rx_state = "LOAD_LO" => /\ nib % 2 = 0 /\ nib > 0
                               /\ lo = [frame |-> Len(air), at |-> nib - 2]
                               /\ hi = [frame |-> Len(air), at |-> nib - 1]
                               /\ \A s \in used_slot : Filled(Len(air), s, nib \div 2 - 1)

(* A slot on its way to the software, or there, holds a whole frame, and   *)
(* its count settles before it is read.                                    *)
SettledInv ==
    \A s \in Slots :
        /\ OnePulse(done[s]) \/ slot_state[s] = "PENDING" => WholeIn(s)
        /\ done[s].d2 \/ done[s].d3 \/ slot_state[s] = "PENDING" => s \notin rx_moving
        /\ done[s].d3 \/ slot_state[s] = "PENDING" => sys_rx_count_r[s] = rx_count[s]
        /\ slot_state[s] = "PENDING" => sys_rx_count[s] = rx_count[s]
LenInv == pc = "process" => rxlen = sys_rx_count[slot]
ReceiveInv == FillInv /\ SettledInv /\ LenInv

(* The same after a step.                                                  *)
FilledNext(f, s, b) ==
    /\ b > 0 => rxb'[s][0].lo.frame = f
    /\ b < CountMod => rx_count'[s] = b /\ \A k \in 0..b-1 : rxb'[s][k] = ByteOf(f, k)

(* Storing one more byte of the frame. *)
LEMMA StoreFilled ==
    ASSUME MacTypeOK, NEW s \in Slots, NEW f, NEW k \in Nat, Filled(f, s, k),
           rxb'[s] = [rxb[s] EXCEPT ![rx_count[s]] = ByteOf(f, k)],
           rx_count'[s] = Inc(rx_count[s])
    PROVE  FilledNext(f, s, k + 1)
<1>1. /\ rxb[s] \in [Counts -> Byte] /\ rx_count[s] \in Counts /\ CountMod \in Nat /\ CountMod > 1
      /\ 0 \in Counts
  BY MacAssumption DEF MacTypeOK, Counts
<1>2. \A i \in Counts : rxb'[s][i] = IF i = rx_count[s] THEN ByteOf(f, k) ELSE rxb[s][i]
  BY <1>1
<1>3. ByteOf(f, k).lo.frame = f
  BY DEF ByteOf
<1>4. rxb'[s][0].lo.frame = f
  <2>1. CASE k > 0
    BY <1>1, <1>2, <1>3, <2>1 DEF Filled
  <2>2. CASE k = 0
    <3>1. rx_count[s] = 0
      BY <1>1, <2>2 DEF Filled
    <3> QED
      BY <1>1, <1>2, <1>3, <3>1
  <2> QED
    BY <2>1, <2>2
<1>5. ASSUME k + 1 < CountMod
      PROVE  rx_count'[s] = k + 1 /\ \A i \in 0..(k+1)-1 : rxb'[s][i] = ByteOf(f, i)
  <2>1. rx_count[s] = k /\ \A i \in 0..k-1 : rxb[s][i] = ByteOf(f, i)
    BY <1>1, <1>5 DEF Filled
  <2>2. rx_count'[s] = k + 1
    <3>1. \A m \in Nat, c \in Nat : c + 1 < m => (c + 1) % m = c + 1
      OBVIOUS
    <3>2. Inc(k) = k + 1
      BY <1>1, <1>5, <3>1 DEF Inc
    <3> QED
      BY <2>1, <3>2
  <2>3. ASSUME NEW i \in 0..(k+1)-1 PROVE rxb'[s][i] = ByteOf(f, i)
    <3>1. i \in Counts /\ (i = k \/ i \in 0..k-1)
      BY <1>1, <1>5 DEF Counts
    <3> QED
      BY <1>2, <2>1, <3>1
  <2> QED
    BY <2>2, <2>3
<1> QED
  BY <1>4, <1>5 DEF FilledNext

(* A slot nobody writes to keeps its frame. *)
LEMMA WholeStays ==
    ASSUME NEW s, WholeIn(s), rxb'[s] = rxb[s], rx_count'[s] = rx_count[s],
           Len(air) \in Nat, Len(air') \in Nat, Len(air) <= Len(air'),
           \A i \in 1..Len(air) : air'[i] = air[i]
    PROVE  WholeIn(s)'
<1>1. PICK f \in 1..Len(air) : Filled(f, s, WholeBytes(f))
  BY DEF WholeIn
<1>2. f \in 1..Len(air') /\ WholeBytes(f)' = WholeBytes(f)
  BY DEF WholeBytes
<1>3. Filled(f, s, WholeBytes(f))'
  BY <1>1, <1>2 DEF Filled
<1> QED
  BY <1>2, <1>3 DEF WholeIn

(* A frame on the wire has at least two nibbles.                           *)
LEMMA FrameLength ==
    ASSUME MacTypeOK, NEW f \in 1..Len(air)
    PROVE  air[f].nibbles \in Nat /\ air[f].nibbles > 1 /\ WholeBytes(f) \in Nat /\ WholeBytes(f) > 0
<1> DEFINE F == [kind : Kinds, nibbles : FrameNibbles]
<1>1. air \in Seq(F)
  BY DEF MacTypeOK
<1> HIDE DEF F
<1>2. air[f] \in F
  BY <1>1
<1> USE DEF F
<1>3. air[f].nibbles \in FrameNibbles
  BY <1>2
<1>4. air[f].nibbles \in Nat /\ air[f].nibbles > 1
  <2>1. \A n \in Nat : n \notin {0, 1} => n > 1
    OBVIOUS
  <2> QED
    BY <1>3, <2>1, MacAssumption, UdpAssumption
<1>5. \A n \in Nat : n > 1 => n \div 2 \in Nat /\ n \div 2 > 0
  OBVIOUS
<1> QED
  BY <1>4, <1>5 DEF WholeBytes

(* What an edge of phy_rx_clk does to a slot.                              *)
LEMMA RxSlot ==
    ASSUME MacTypeOK, NEW dv \in BOOLEAN, NEW nibble, RxClock(dv, nibble), NEW s \in Slots
    PROVE  /\ s \notin used_slot \/ rx_state \in {"LOAD_HI", "TERMINATE"} \/ (rx_state = "IDLE" /\ ~dv) =>
                 rxb'[s] = rxb[s] /\ rx_count'[s] = rx_count[s] /\ (s \in rx_moving' <=> s \in rx_moving)
           /\ rx_state = "IDLE" /\ dv /\ s \in used_slot => rx_count'[s] = 0
           /\ rx_state = "LOAD_LO" /\ s \in used_slot =>
                 /\ rxb'[s] = [rxb[s] EXCEPT ![rx_count[s]] = [lo |-> lo, hi |-> hi]]
                 /\ rx_count'[s] = Inc(rx_count[s])
           /\ ~dv /\ rx_state \in {"LOAD_LO", "LOAD_HI"} /\ s \in used_slot =>
                 done'[s] = Toggle(done[s], TRUE)
           /\ dv \/ rx_state \notin {"LOAD_LO", "LOAD_HI"} \/ s \notin used_slot => done'[s] = done[s]
<1>1. /\ rxb'[s] = IF rx_state = "LOAD_LO" /\ s \in used_slot
                   THEN [rxb[s] EXCEPT ![rx_count[s]] = [lo |-> lo, hi |-> hi]] ELSE rxb[s]
      /\ rx_count'[s] = CASE rx_state = "IDLE" /\ dv /\ s \in used_slot -> 0
                          [] rx_state = "LOAD_LO" /\ s \in used_slot -> Inc(rx_count[s])
                          [] OTHER -> rx_count[s]
      /\ s \in rx_moving' <=> s \in rx_moving \/ rx_count'[s] # rx_count[s]
  BY DEF RxClock, StoreByte
<1>2. done'[s] = Toggle(done[s], s \in rx_done(dv))
  BY DEF RxClock
<1>3. s \in rx_done(dv) <=> ~dv /\ rx_state \in {"LOAD_LO", "LOAD_HI"} /\ s \in used_slot
  BY DEF rx_done
<1>4. /\ s \in rx_done(dv) => done'[s] = Toggle(done[s], TRUE)
      /\ s \notin rx_done(dv) => done'[s] = done[s]
  BY <1>2, ToggleCases
<1> QED
  BY <1>1, <1>3, <1>4

(* Every frame has a byte to receive. *)
LongFrames == \A f \in 1..Len(air) : air[f].nibbles \in Nat /\ air[f].nibbles > 1

(* FrameLength for all frames at once, to be used primed as well.          *)
LEMMA FrameLengths == MacTypeOK => LongFrames
  BY FrameLength DEF LongFrames

(* The next nibble of a frame. *)
LEMMA ReceiveNibble ==
    ASSUME UdpTypeOK, SlotInv, FillInv, WireNibble
    PROVE  FillInv' /\ rx_state \in {"LOAD_LO", "LOAD_HI"}
<1> DEFINE f == Len(air)
           n == [frame |-> f, at |-> nib]
<1>1. /\ InFrame /\ nib' = nib + 1 /\ RxClock(TRUE, n) /\ air' = air
      /\ f > 0 /\ nib < air[f].nibbles
  BY DEF WireNibble, InFrame
<1>2. MacTypeOK /\ f \in Nat /\ nib \in Nat /\ f \in 1..Len(air) /\ air[f].nibbles \in Nat
  BY <1>1, FrameLength DEF UdpTypeOK, MacTypeOK
<1>3. rx_state \in {"LOAD_LO", "LOAD_HI"}
  BY <1>1 DEF SlotInv, UsedInv, TokenTypeOK
<1>4. used_slot' = used_slot /\ used_slot \subseteq Slots
  BY <1>1, <1>2, <1>3 DEF RxClock, UseSlot, used_slot_update, MacTypeOK
<1>5. nib' <= air[f].nibbles
  BY <1>1, <1>2
<1>6. CASE rx_state = "LOAD_HI"
  <2>1. /\ nib % 2 = 1 /\ lo = [frame |-> f, at |-> nib - 1]
        /\ \A s \in used_slot : Filled(f, s, nib \div 2)
    BY <1>6 DEF FillInv
  <2>2. rx_state' = "LOAD_LO" /\ lo' = lo /\ hi' = n
    BY <1>1, <1>6 DEF RxClock, rx_next, rx_load_lo, rx_load_hi
  <2>3. nib' % 2 = 0 /\ nib' > 0 /\ nib' - 2 = nib - 1 /\ nib' - 1 = nib /\ nib' \div 2 - 1 = nib \div 2
    BY <1>1, <1>2, <2>1
  <2>4. \A s \in used_slot : FilledNext(f, s, nib \div 2)
    <3> TAKE s \in used_slot
    <3>1. rxb'[s] = rxb[s] /\ rx_count'[s] = rx_count[s]
      BY <1>1, <1>2, <1>4, <1>6, RxSlot
    <3>2. Filled(f, s, nib \div 2)
      BY <2>1
    <3> QED
      BY <3>1, <3>2 DEF Filled, FilledNext
  <2>5. \A s \in used_slot' : FilledNext(Len(air'), s, nib' \div 2 - 1)
    BY <1>1, <1>4, <2>3, <2>4
  <2>6. /\ lo' = [frame |-> Len(air'), at |-> nib' - 2]
        /\ hi' = [frame |-> Len(air'), at |-> nib' - 1]
        /\ Len(air') > 0 /\ nib' <= air'[Len(air')].nibbles
    BY <1>1, <1>5, <2>1, <2>2, <2>3
  <2>7. FillInv'
    BY <2>2, <2>3, <2>5, <2>6 DEF FillInv, FilledNext, Filled
  <2> QED
    BY <1>3, <2>7
<1>7. CASE rx_state = "LOAD_LO"
  <2>1. /\ nib % 2 = 0 /\ nib > 0 /\ lo = [frame |-> f, at |-> nib - 2]
        /\ hi = [frame |-> f, at |-> nib - 1]
        /\ \A s \in used_slot : Filled(f, s, nib \div 2 - 1)
    BY <1>7 DEF FillInv
  <2>2. rx_state' = "LOAD_HI" /\ lo' = n
    BY <1>1, <1>7 DEF RxClock, rx_next, rx_load_lo, rx_load_hi
  <2>3. /\ nib' % 2 = 1 /\ nib' - 1 = nib /\ nib' \div 2 = nib \div 2
        /\ nib \div 2 - 1 \in Nat /\ (nib \div 2 - 1) + 1 = nib \div 2
        /\ 2 * (nib \div 2 - 1) = nib - 2 /\ 2 * (nib \div 2 - 1) + 1 = nib - 1
    BY <1>1, <1>2, <2>1
  <2>4. \A s \in used_slot : FilledNext(f, s, nib \div 2)
    <3> TAKE s \in used_slot
    <3> DEFINE k == nib \div 2 - 1
    <3>1. k \in Nat /\ k + 1 = nib \div 2 /\ [lo |-> lo, hi |-> hi] = ByteOf(f, k) /\ s \in Slots
      BY <1>4, <2>1, <2>3 DEF ByteOf
    <3>2. /\ rxb'[s] = [rxb[s] EXCEPT ![rx_count[s]] = ByteOf(f, k)]
          /\ rx_count'[s] = Inc(rx_count[s])
      BY <1>1, <1>2, <1>4, <1>7, <3>1, RxSlot
    <3>3. Filled(f, s, k)
      BY <2>1
    <3> HIDE DEF k, f
    <3>4. FilledNext(f, s, k + 1)
      BY <1>2, <3>1, <3>2, <3>3, StoreFilled
    <3> QED
      BY <3>1, <3>4
  <2>5. \A s \in used_slot' : FilledNext(Len(air'), s, nib' \div 2)
    BY <1>1, <1>4, <2>3, <2>4
  <2>6. /\ lo' = [frame |-> Len(air'), at |-> nib' - 1]
        /\ Len(air') > 0 /\ nib' <= air'[Len(air')].nibbles
    BY <1>1, <1>5, <2>1, <2>2, <2>3
  <2>7. FillInv'
    BY <2>2, <2>3, <2>5, <2>6 DEF FillInv, FilledNext, Filled
  <2> QED
    BY <1>3, <2>7
<1> QED
  BY <1>3, <1>6, <1>7

(* The first nibble of a frame empties the slot in use. *)
LEMMA ReceiveFrame ==
    ASSUME UdpTypeOK, SlotInv, FillInv, WireFrame
    PROVE  FillInv' /\ rx_state = "IDLE" /\ gap > 0
<1> DEFINE f == Len(air) + 1
           n == [frame |-> f, at |-> 0]
<1>1. rx_state = "IDLE" /\ gap > 0 /\ nib' = 1 /\ RxClock(TRUE, n)
  <2>1. gap = MinGap /\ nib' = 1 /\ RxClock(TRUE, n)
    BY DEF WireFrame
  <2>2. gap > 1 /\ gap > 0
    BY <2>1, MacAssumption
  <2>3. rx_state = "IDLE"
    BY <2>2 DEF SlotInv, UsedInv
  <2> QED
    BY <2>1, <2>2, <2>3
<1>2. /\ Len(air') = f /\ f > 0 /\ nib' <= air'[Len(air')].nibbles /\ MacTypeOK /\ MacTypeOK'
  <2>1. MacTypeOK /\ MacTypeOK'
    BY WireType DEF UdpTypeOK, RxStep
  <2>2. Len(air') = f /\ Len(air) \in Nat
    <3> DEFINE F == [kind : Kinds, nibbles : FrameNibbles]
    <3>1. PICK x : air' = Append(air, x)
      BY DEF WireFrame
    <3>2. air \in Seq(F)
      BY <2>1 DEF MacTypeOK
    <3> HIDE DEF F
    <3> QED
      BY <3>1, <3>2
  <2>3. air'[Len(air')].nibbles \in Nat /\ air'[Len(air')].nibbles > 1
    <3>1. Len(air') \in 1..Len(air')
      BY <2>2
    <3>2. MacTypeOK' => LongFrames'
      BY FrameLengths, PTL
    <3> QED
      BY <2>1, <3>1, <3>2 DEF LongFrames
  <2> QED
    BY <1>1, <2>1, <2>2, <2>3
<1>3. used_slot' = used_slot /\ used_slot \subseteq Slots
  BY <1>1, <1>2 DEF RxClock, UseSlot, used_slot_update, MacTypeOK
<1>4. rx_state' = "LOAD_HI" /\ lo' = n
  BY <1>1 DEF RxClock, rx_next, rx_load_lo, rx_load_hi
<1>5. \A s \in used_slot : FilledNext(f, s, 0)
  <2> TAKE s \in used_slot
  <2>1. rx_count'[s] = 0
    BY <1>1, <1>2, <1>3, RxSlot
  <2> QED
    BY <2>1 DEF FilledNext
<1>6. nib' % 2 = 1 /\ nib' - 1 = 0 /\ nib' \div 2 = 0
  BY <1>1
<1>7. /\ \A s \in used_slot' : FilledNext(Len(air'), s, nib' \div 2)
      /\ lo' = [frame |-> Len(air'), at |-> nib' - 1]
  BY <1>2, <1>3, <1>4, <1>5, <1>6
<1> QED
  BY <1>1, <1>2, <1>4, <1>6, <1>7 DEF FillInv, FilledNext, Filled

(* The end of a frame: the slot that is given back holds all of it.        *)
LEMMA ReceiveEnd ==
    ASSUME UdpTypeOK, SlotInv, FillInv, WireIdle
    PROVE  /\ FillInv'
           /\ rx_state \in {"LOAD_LO", "LOAD_HI"} =>
                 \A s \in used_slot : WholeIn(s)' /\ rxb'[s][0].lo.frame = Len(air)
<1> DEFINE f == Len(air)
<1>1. ~InFrame /\ RxClock(FALSE, NoNibble) /\ air' = air
  BY DEF WireIdle
<1>2. MacTypeOK /\ f \in Nat /\ nib \in Nat /\ used_slot \subseteq Slots
  BY DEF UdpTypeOK, MacTypeOK
<1>3. rx_state' \in {"IDLE", "TERMINATE"}
  BY <1>1 DEF RxClock, rx_next, rx_load_lo, rx_load_hi
<1>4. FillInv'
  BY <1>3 DEF FillInv
<1>5. ASSUME rx_state \in {"LOAD_LO", "LOAD_HI"}, NEW s \in used_slot
      PROVE  WholeIn(s)' /\ rxb'[s][0].lo.frame = Len(air)
  <2>1. f \in 1..Len(air) /\ nib <= air[f].nibbles
    BY <1>2, <1>5 DEF FillInv
  <2>2. /\ nib = air[f].nibbles /\ nib \div 2 = WholeBytes(f)
    <3>1. air[f].nibbles \in Nat /\ nib <= air[f].nibbles /\ ~(nib < air[f].nibbles)
      BY <1>1, <2>1, FrameLength, <1>2 DEF InFrame
    <3>2. nib = air[f].nibbles
      BY <1>2, <3>1
    <3> QED
      BY <3>2 DEF WholeBytes
  <2>3. FilledNext(f, s, WholeBytes(f))
    <3>1. CASE rx_state = "LOAD_HI"
      <4>1. Filled(f, s, WholeBytes(f))
        BY <2>2, <3>1 DEF FillInv
      <4>2. rxb'[s] = rxb[s] /\ rx_count'[s] = rx_count[s]
        BY <1>1, <1>2, <3>1, RxSlot
      <4> QED
        BY <4>1, <4>2 DEF Filled, FilledNext
    <3>2. CASE rx_state = "LOAD_LO"
      <4>1. /\ nib % 2 = 0 /\ nib > 0 /\ lo = [frame |-> f, at |-> nib - 2]
            /\ hi = [frame |-> f, at |-> nib - 1]
            /\ Filled(f, s, nib \div 2 - 1)
        BY <3>2 DEF FillInv
      <4> DEFINE k == nib \div 2 - 1
      <4>2. k \in Nat /\ k + 1 = nib \div 2 /\ 2 * k = nib - 2 /\ 2 * k + 1 = nib - 1
        BY <1>2, <4>1
      <4>3. [lo |-> lo, hi |-> hi] = ByteOf(f, k) /\ s \in Slots
        BY <1>2, <4>1, <4>2 DEF ByteOf
      <4>4. /\ rxb'[s] = [rxb[s] EXCEPT ![rx_count[s]] = ByteOf(f, k)]
            /\ rx_count'[s] = Inc(rx_count[s])
        BY <1>1, <1>2, <3>2, <4>3, RxSlot
      <4>5. Filled(f, s, k)
        BY <4>1
      <4> HIDE DEF k, f
      <4>6. FilledNext(f, s, k + 1)
        BY <1>2, <4>2, <4>3, <4>4, <4>5, StoreFilled
      <4> QED
        BY <2>2, <4>2, <4>6
    <3> QED
      BY <1>5, <3>1, <3>2
  <2>4. f \in 1..Len(air')
    BY <1>1, <2>1
  <2>5. /\ WholeBytes(f) > 0 => rxb'[s][0].lo.frame = f
        /\ WholeBytes(f) < CountMod =>
              rx_count'[s] = WholeBytes(f) /\ \A k \in 0..WholeBytes(f)-1 : rxb'[s][k] = ByteOf(f, k)
    BY <2>3 DEF FilledNext
  <2>7. rxb'[s][0].lo.frame = Len(air)
    BY <1>2, <2>1, <2>5, FrameLength
  <2> HIDE DEF f
  <2>6. \E g \in 1..Len(air') :
            /\ air'[g].nibbles \div 2 > 0 => rxb'[s][0].lo.frame = g
            /\ air'[g].nibbles \div 2 < CountMod =>
                  /\ rx_count'[s] = air'[g].nibbles \div 2
                  /\ \A k \in 0..(air'[g].nibbles \div 2)-1 : rxb'[s][k] = ByteOf(g, k)
    <3>1. air'[f].nibbles \div 2 = WholeBytes(f)
      BY <1>1 DEF WholeBytes
    <3> QED
      BY <2>4, <2>5, <3>1
  <2> QED
    BY <2>6, <2>7 DEF WholeIn, Filled, WholeBytes
<1> QED
  BY <1>4, <1>5

(* An edge of phy_rx_clk only changes slots the receiver has, and gives a   *)
(* slot back at the end of the frame that is in it.                        *)
LEMMA RxTouched ==
    ASSUME UdpTypeOK, SlotInv, FillInv, RxStep, NEW s \in Slots
    PROVE  \/ /\ rxb'[s] = rxb[s] /\ rx_count'[s] = rx_count[s]
              /\ (s \in rx_moving' <=> s \in rx_moving) /\ done'[s] = done[s]
           \/ /\ s \in available_slots
              /\ \/ done'[s] = done[s]
                 \/ /\ rx_state \in {"LOAD_LO", "LOAD_HI"} /\ s \in used_slot /\ WireIdle
                    /\ done'[s] = Toggle(done[s], TRUE)
                    /\ WholeIn(s)' /\ rxb'[s][0].lo.frame = Len(air)
<1>0. MacTypeOK /\ available_slots \subseteq Slots /\ used_slot \subseteq Slots
  BY DEF UdpTypeOK, MacTypeOK
<1>1. CASE WireNibble
  <2>1. rx_state \in {"LOAD_LO", "LOAD_HI"} /\ \E n : RxClock(TRUE, n)
    BY <1>1, ReceiveNibble DEF WireNibble
  <2>2. used_slot \subseteq available_slots
    BY <2>1 DEF SlotInv, UsedInv
  <2> QED
    BY <1>0, <2>1, <2>2, RxSlot
<1>2. CASE WireFrame
  <2>1. rx_state = "IDLE" /\ gap > 0 /\ \E n : RxClock(TRUE, n)
    BY <1>2, ReceiveFrame DEF WireFrame
  <2>2. used_slot \subseteq available_slots
    BY <2>1 DEF SlotInv, UsedInv
  <2> QED
    BY <1>0, <2>1, <2>2, RxSlot
<1>3. CASE WireIdle
  <2>1. RxClock(FALSE, NoNibble)
    BY <1>3 DEF WireIdle
  <2>2. CASE rx_state \in {"LOAD_LO", "LOAD_HI"}
    <3>1. used_slot \subseteq available_slots
      BY <2>2 DEF SlotInv, UsedInv
    <3>2. s \in used_slot => WholeIn(s)' /\ rxb'[s][0].lo.frame = Len(air)
      BY <1>3, <2>2, ReceiveEnd
    <3> QED
      BY <1>0, <1>3, <2>1, <2>2, <3>1, <3>2, RxSlot
  <2>3. CASE rx_state \in {"IDLE", "TERMINATE"}
    BY <1>0, <2>1, <2>3, RxSlot
  <2> QED
    BY <2>2, <2>3 DEF SlotInv, TokenTypeOK
<1> QED
  BY <1>0, <1>1, <1>2, <1>3 DEF RxStep

(* The receiver keeps the frames in the slots it does not have. *)
LEMMA ReceiveSettled ==
    ASSUME UdpTypeOK, CallInv, SlotInv, FillInv, SettledInv, PhyRx, [Next]_vars
    PROVE  FillInv' /\ SettledInv'
<1>1. RxStep /\ MacTypeOK /\ available_slots \subseteq Slots /\ used_slot \subseteq Slots
  BY DEF PhyRx, UdpTypeOK, MacTypeOK
<1>2. FillInv'
  BY <1>1, ReceiveNibble, ReceiveFrame, ReceiveEnd DEF RxStep
<1>3. /\ Len(air) \in Nat /\ Len(air') \in Nat /\ Len(air) <= Len(air')
      /\ \A i \in 1..Len(air) : air'[i] = air[i]
  BY AirGrows
<1>4. UNCHANGED <<slot_state, sys_rx_count_r, sys_rx_count>>
  BY <1>1 DEF RxStep, WireNibble, WireFrame, WireIdle, RxClock, ctlVars, countVars
<1>5. ASSUME NEW s \in Slots
      PROVE  \/ /\ rxb'[s] = rxb[s] /\ rx_count'[s] = rx_count[s]
                /\ (s \in rx_moving' <=> s \in rx_moving) /\ done'[s] = done[s]
             \/ /\ s \in available_slots
                /\ done'[s] = done[s] \/ (done'[s] = Toggle(done[s], TRUE) /\ WholeIn(s)')
  BY <1>1, RxTouched
<1>6. ASSUME NEW s \in Slots
      PROVE  /\ OnePulse(done'[s]) \/ slot_state'[s] = "PENDING" => WholeIn(s)'
             /\ done'[s].d2 \/ done'[s].d3 \/ slot_state'[s] = "PENDING" => s \notin rx_moving'
             /\ done'[s].d3 \/ slot_state'[s] = "PENDING" => sys_rx_count_r'[s] = rx_count'[s]
             /\ slot_state'[s] = "PENDING" => sys_rx_count'[s] = rx_count'[s]
  <2>1. /\ OnePulse(done[s]) \/ slot_state[s] = "PENDING" => WholeIn(s)
        /\ done[s].d2 \/ done[s].d3 \/ slot_state[s] = "PENDING" => s \notin rx_moving
        /\ done[s].d3 \/ slot_state[s] = "PENDING" => sys_rx_count_r[s] = rx_count[s]
        /\ slot_state[s] = "PENDING" => sys_rx_count[s] = rx_count[s]
    BY DEF SettledInv
  <2>2. CASE /\ rxb'[s] = rxb[s] /\ rx_count'[s] = rx_count[s]
             /\ (s \in rx_moving' <=> s \in rx_moving) /\ done'[s] = done[s]
    <3>1. WholeIn(s) => WholeIn(s)'
      BY <1>3, <2>2, WholeStays
    <3> QED
      BY <1>4, <2>1, <2>2, <3>1
  <2>3. CASE /\ s \in available_slots
             /\ done'[s] = done[s] \/ (done'[s] = Toggle(done[s], TRUE) /\ WholeIn(s)')
    <3>1. NoPulse(done[s]) /\ slot_state[s] = "LOADED"
      BY <2>3 DEF SlotInv, Place, WithSoftware, Loaded, Announced, WithReceiver, Returned
    <3>2. ~done'[s].d2 /\ ~done'[s].d3
      <4>1. done[s] \in Psync
        BY DEF SlotInv, TokenTypeOK
      <4>2. ~Toggle(done[s], TRUE).d2 /\ ~Toggle(done[s], TRUE).d3
        BY <3>1, <4>1 DEF NoPulse, Toggle, Psync
      <4> QED
        BY <2>3, <3>1, <4>2 DEF NoPulse
    <3>3. OnePulse(done'[s]) => WholeIn(s)'
      BY <2>3, <3>1 DEF NoPulse, OnePulse
    <3> QED
      BY <1>4, <3>1, <3>2, <3>3
  <2> QED
    BY <1>5, <2>2, <2>3
<1>7. SettledInv'
  BY <1>6 DEF SettledInv
<1> QED
  BY <1>2, <1>7

(* An edge of sys_clk: the count is stable by the time the pulse is out.   *)
LEMMA SysSettled ==
    ASSUME UdpTypeOK, SlotInv, FillInv, SettledInv, NEW w, SysClock(w),
           w.reg = "STATE" => w.val = "LOADED"
    PROVE  FillInv' /\ SettledInv'
<1>1. /\ UNCHANGED <<rx_count, rx_state, lo, hi, rxb, used_slot, air, nib>>
      /\ rx_moving' = {} /\ sys_rx_count' = sys_rx_count_r
      /\ \A s \in Slots \ rx_moving : sys_rx_count_r'[s] = rx_count[s]
  BY DEF SysClock, rxVars, wireVars
<1>2. FillInv'
  BY <1>1 DEF FillInv, Filled
<1>3. ASSUME NEW s \in Slots
      PROVE  /\ OnePulse(done'[s]) \/ slot_state'[s] = "PENDING" => WholeIn(s)'
             /\ done'[s].d2 \/ done'[s].d3 \/ slot_state'[s] = "PENDING" => s \notin rx_moving'
             /\ done'[s].d3 \/ slot_state'[s] = "PENDING" => sys_rx_count_r'[s] = rx_count'[s]
             /\ slot_state'[s] = "PENDING" => sys_rx_count'[s] = rx_count'[s]
  <2>1. /\ OnePulse(done[s]) \/ slot_state[s] = "PENDING" => WholeIn(s)
        /\ done[s].d2 \/ done[s].d3 \/ slot_state[s] = "PENDING" => s \notin rx_moving
        /\ done[s].d3 \/ slot_state[s] = "PENDING" => sys_rx_count_r[s] = rx_count[s]
        /\ slot_state[s] = "PENDING" => sys_rx_count[s] = rx_count[s]
    BY DEF SettledInv
  <2>2. NoPulse(done[s]) \/ OnePulse(done[s])
    BY DEF SlotInv, Place, WithSoftware, Loaded, Announced, WithReceiver, Returned
  <2>3. /\ done'[s] = Sample(done[s])
        /\ slot_state'[s] = "PENDING" => Out(done[s]) \/ slot_state[s] = "PENDING"
    BY DEF SysClock
  <2>4. /\ done'[s].d2 => done[s].d1
        /\ done'[s].d3 => done[s].d2
        /\ OnePulse(done'[s]) => OnePulse(done[s])
        /\ Out(done[s]) => done[s].d3 /\ OnePulse(done[s])
    BY <2>2, <2>3 DEF Sample, Out, NoPulse, OnePulse
  <2>5. WholeIn(s)' = WholeIn(s)
    BY <1>1 DEF WholeIn, Filled, WholeBytes
  <2>6. s \notin rx_moving => sys_rx_count_r'[s] = rx_count'[s]
    BY <1>1
  <2> QED
    BY <1>1, <2>1, <2>3, <2>4, <2>5, <2>6
<1>4. SettledInv'
  BY <1>3 DEF SettledInv
<1> QED
  BY <1>2, <1>4

(* The count of a slot of the software does not change any more. *)
LEMMA LenStep ==
    ASSUME UdpTypeOK, SlotInv, SettledInv, LenInv, Program \/ SysIdle
    PROVE  LenInv'
<1> USE DEF Step, Cpu, Bus
<1>1. slot \in Slots
  BY DEF UdpTypeOK
<1>2. pc \in {"count", "process"} => slot_state[slot] = "PENDING"
  BY <1>1 DEF SlotInv, Serving
<1>3. slot_state[slot] = "PENDING" => sys_rx_count_r[slot] = sys_rx_count[slot]
  BY <1>1 DEF SettledInv
<1>4. CASE SysIdle
  <2>1. UNCHANGED <<pc, slot, rxlen>> /\ sys_rx_count' = sys_rx_count_r
    BY <1>4 DEF SysIdle, progVars, SysClock
  <2> QED
    BY <1>2, <1>3, <2>1 DEF LenInv
<1>5. CASE ReadCount
  <2>1. /\ pc = "count" /\ slot' = slot /\ rxlen' = sys_rx_count[slot]
        /\ sys_rx_count' = sys_rx_count_r
    BY <1>5 DEF ReadCount, SysClock
  <2> QED
    BY <1>2, <1>3, <2>1 DEF LenInv
<1>6. CASE Program /\ ~ReadCount
  <2>1. pc' # "process"
    BY <1>6 DEF Program, Start, StartAck, StartLoad, Send, SendCount, SendWait, SendAck, Arp, Resolved,
           Resolve, Request, Try, TryAgain, Check, MainSend, MainService, Service, Poll, ReadState,
           Process, ProcessRequest, Free, RxAck, NextSlot, UdpTypeOK
  <2> QED
    BY <2>1 DEF LenInv
<1> QED
  BY <1>4, <1>5, <1>6

(* Every step of the system keeps it. *)
LEMMA ReceiveInvStep ==
    ASSUME UdpTypeOK, CallInv, SlotInv, ReceiveInv, [Next]_vars
    PROVE  ReceiveInv'
<1>1. FillInv /\ SettledInv /\ LenInv
  BY DEF ReceiveInv
<1>2. CASE Program \/ SysIdle
  BY <1>1, <1>2, ProgramEdge, SysSettled, LenStep DEF ReceiveInv
<1>3. CASE PhyRx
  <2>1. UNCHANGED <<pc, slot, rxlen, sys_rx_count>>
    BY <1>3 DEF PhyRx, ProgUnchanged, progVars, RxStep, WireNibble, WireFrame, WireIdle, RxClock, countVars
  <2>2. LenInv'
    BY <1>1, <2>1 DEF LenInv
  <2> QED
    BY <1>1, <1>3, <2>2, ReceiveSettled DEF ReceiveInv
<1>4. CASE PhyTx \/ UNCHANGED vars
  <2>1. /\ UNCHANGED <<slot_state, done, sys_rx_count_r, sys_rx_count, rx_moving>>
        /\ UNCHANGED <<rx_count, rx_state, lo, hi, rxb, used_slot, air, nib>>
        /\ UNCHANGED <<pc, slot, rxlen>>
    BY <1>4 DEF PhyTx, TxClock, ProgUnchanged, progVars, ctlVars, countVars, rxVars, wireVars, vars, macVars
  <2>2. FillInv'
    BY <1>1, <2>1 DEF FillInv, Filled
  <2>3. SettledInv'
    BY <1>1, <2>1 DEF SettledInv, WholeIn, Filled, WholeBytes, OnePulse
  <2>4. LenInv'
    BY <1>1, <2>1 DEF LenInv
  <2> QED
    BY <2>2, <2>3, <2>4 DEF ReceiveInv
<1> QED
  BY <1>2, <1>3, <1>4 DEF Next

(* In the beginning no slot is anywhere but with the software, empty. *)
LEMMA ReceiveInit == Init => ReceiveInv
<1> SUFFICES ASSUME Init PROVE ReceiveInv
  OBVIOUS
<1>1. \A s \in Slots : slot_state[s] = "EMPTY" /\ NoPulse(done[s])
  BY DEF Init, MacInit, Quiet, NoPulse
<1>2. SettledInv
  BY <1>1 DEF SettledInv, NoPulse, OnePulse
<1>3. FillInv /\ LenInv
  BY DEF Init, MacInit, FillInv, LenInv
<1> QED
  BY <1>2, <1>3 DEF ReceiveInv

(* A frame that fits in a slot is processed whole, for every size of the   *)
(* slots, every traffic and every interleaving of the two clocks: the      *)
(* count that microudp_service reads without a synchroniser is the right   *)
(* one, and the slot holds the bytes of one frame only.                    *)
THEOREM FramesCorrect == Spec => []FramesWhole
<1>1. Init => ReceiveInv
  BY ReceiveInit
<1>2. UdpTypeOK /\ CallInv /\ SlotInv /\ ReceiveInv /\ [Next]_vars => ReceiveInv'
  BY ReceiveInvStep
<1>3. UdpTypeOK /\ CallInv /\ SlotInv /\ ReceiveInv => FramesWhole
  <2> SUFFICES ASSUME UdpTypeOK, SlotInv, ReceiveInv, pc = "process"
               PROVE  /\ Received # 0
                      /\ air[Received].nibbles \div 2 < CountMod => CrcOk
    BY DEF FramesWhole
  <2>1. slot \in Slots /\ MacTypeOK
    BY DEF UdpTypeOK
  <2>2. slot_state[slot] = "PENDING"
    BY <2>1 DEF SlotInv, Serving
  <2>3. WholeIn(slot) /\ sys_rx_count[slot] = rx_count[slot] /\ rxlen = rx_count[slot]
    BY <2>1, <2>2 DEF ReceiveInv, SettledInv, LenInv
  <2>4. PICK f \in 1..Len(air) : Filled(f, slot, WholeBytes(f))
    BY <2>3 DEF WholeIn
  <2>5. WholeBytes(f) \in Nat /\ WholeBytes(f) > 0
    BY <2>1, FrameLength
  <2>6. Received = f /\ f # 0 /\ air[Received].nibbles \div 2 = WholeBytes(f)
    BY <2>4, <2>5 DEF Filled, Received, WholeBytes
  <2>7. WholeBytes(f) < CountMod =>
            rxlen = WholeBytes(f) /\ \A k \in 0..rxlen-1 : rxb[slot][k] = ByteOf(f, k)
    BY <2>3, <2>4 DEF Filled
  <2> QED
    BY <2>5, <2>6, <2>7 DEF CrcOk
<1>4. Spec => []SlotInv
  BY SlotInit, SlotNext, PTL DEF Spec
<1> QED
  BY <1>1, <1>2, <1>3, <1>4, UdpInvCorrect, PTL DEF Spec
-----------------------------------------------------------------------------
(* The order of the frames.  A slot is held from the end of its frame to   *)
(* the moment the program has dealt with it.                               *)
InProgress == rx_state \in {"LOAD_LO", "LOAD_HI"}
FrameIn(s) == rxb[s][0].lo.frame
Answered(s) == slot = s /\ (pc = "free" \/ (Transfer /\ after = "free"))
AtSecond == slot = 1 /\ pc \in {"state", "count", "process"}
Held(s) == OnePulse(done[s]) \/ (slot_state[s] = "PENDING" /\ ~Answered(s))

(* The frames that have overtaken the one in slot s: there is none unless  *)
(* the software sees the slot, and then that slot is the next it turns to. *)
Over(s) == {i \in DOMAIN processed : processed[i] > FrameIn(s)}
IsNext(s) == /\ slot_state[s] = "PENDING"
             /\ IF s = 0 THEN ~AtSecond ELSE Answered(0) \/ AtSecond

(* The pulse of an earlier frame is not behind that of a later one. *)
Ahead(s, t) ==
    /\ slot_state[t] = "PENDING" => slot_state[s] = "PENDING"
    /\ done[t].d3 => done[s].d3 \/ slot_state[s] = "PENDING"
    /\ done[t].d2 => done[s].d2 \/ done[s].d3 \/ slot_state[s] = "PENDING"

UseOne == InProgress \/ (rx_state = "IDLE" /\ gap > 0) => \A s, t \in used_slot : s = t
Past(f) == f <= Len(air) /\ (InProgress => f < Len(air))
PastInv == \A i \in DOMAIN processed : Past(processed[i])
Alone(s) == \A i \in DOMAIN processed : processed[i] # FrameIn(s)
AtMostOne(S) == \A i, j \in S : i = j
HeldInv ==
    \A s \in Slots : Held(s) =>
        /\ Past(FrameIn(s)) /\ Alone(s)
        /\ AtMostOne(Over(s)) /\ (Over(s) # {} => IsNext(s))
        /\ \A t \in Slots : Held(t) /\ s # t =>
               /\ FrameIn(s) # FrameIn(t)
               /\ FrameIn(s) < FrameIn(t) => Ahead(s, t)

OvertakenInv ==
    \A j \in DOMAIN processed :
        /\ \A i \in 1..j-1 : processed[i] # processed[j]
        /\ AtMostOne({i \in 1..j-1 : processed[i] > processed[j]})
OrderInv == UseOne /\ PastInv /\ HeldInv /\ OvertakenInv

(* The numbers of frames are naturals. *)
LEMMA OrderTypes ==
    ASSUME UdpTypeOK
    PROVE  /\ \A s \in Slots : FrameIn(s) \in Nat
           /\ \A i \in DOMAIN processed : processed[i] \in Nat
           /\ Len(air) \in Nat /\ Len(processed) \in Nat /\ DOMAIN processed = 1..Len(processed)
           /\ \A s \in Slots : done[s] \in Psync
<1>1. ASSUME NEW s \in Slots PROVE FrameIn(s) \in Nat
  <2>1. 0 \in Counts
    BY MacAssumption DEF Counts
  <2>2. rxb[s][0] \in Byte
    BY <2>1 DEF UdpTypeOK, MacTypeOK
  <2>3. rxb[s][0].lo \in Nibble
    BY <2>2 DEF Byte
  <2> QED
    BY <2>3, MacAssumption DEF Nibble, Frames, FrameIn
<1>2. Len(air) \in Nat /\ \A s \in Slots : done[s] \in Psync
  BY DEF UdpTypeOK, MacTypeOK
<1>3. processed \in Seq(Frames) /\ \A f \in Frames : f \in Nat
  BY MacAssumption DEF UdpTypeOK, Frames
<1>4. /\ Len(processed) \in Nat /\ DOMAIN processed = 1..Len(processed)
      /\ \A i \in DOMAIN processed : processed[i] \in Nat
  BY <1>3
<1> QED
  BY <1>1, <1>2, <1>4

(* A slot the receiver has is not held, and a pulse is not yet "PENDING". *)
LEMMA HeldPlace ==
    ASSUME SlotInv, NEW s \in Slots
    PROVE  /\ s \in available_slots => NoPulse(done[s]) /\ slot_state[s] = "LOADED" /\ ~Held(s)
           /\ OnePulse(done[s]) => slot_state[s] = "LOADED"
           /\ slot_state[s] = "PENDING" => NoPulse(done[s])
           /\ Answered(s) => slot_state[s] = "PENDING"
<1>1. Place(s) /\ (Serving(s) => slot_state[s] = "PENDING")
  BY DEF SlotInv
<1>2. Answered(s) => Serving(s)
  BY DEF Answered, Serving, Transfer
<1>3. ~(NoPulse(done[s]) /\ OnePulse(done[s]))
  BY DEF NoPulse, OnePulse
<1> QED
  BY <1>1, <1>2, <1>3 DEF Place, WithSoftware, Loaded, Announced, WithReceiver, Returned, Held

(* The receiver chooses one slot. *)
LEMMA UseOneRx ==
    ASSUME UdpTypeOK, SlotInv, UseOne, FillInv, RxStep
    PROVE  UseOne'
<1>1. rx_state \in {"IDLE", "LOAD_LO", "LOAD_HI", "TERMINATE"} /\ available_slots \subseteq {0, 1}
  BY DEF SlotInv, TokenTypeOK, Slots
<1>2. CASE WireNibble
  <2>1. rx_state \in {"LOAD_LO", "LOAD_HI"} /\ \E n : RxClock(TRUE, n)
    BY <1>2, ReceiveNibble DEF WireNibble
  <2>2. used_slot' = used_slot
    BY <2>1 DEF RxClock, UseSlot, used_slot_update
  <2> QED
    BY <2>1, <2>2 DEF UseOne, InProgress
<1>3. CASE WireFrame
  <2>1. rx_state = "IDLE" /\ gap > 0 /\ \E n : RxClock(TRUE, n)
    BY <1>3, ReceiveFrame DEF WireFrame
  <2>2. used_slot' = used_slot
    BY <2>1 DEF RxClock, UseSlot, used_slot_update
  <2> QED
    BY <2>1, <2>2 DEF UseOne
<1>4. CASE WireIdle
  <2>1. RxClock(FALSE, NoNibble)
    BY <1>4 DEF WireIdle
  <2>2. CASE rx_state \in {"LOAD_LO", "LOAD_HI"}
    <3>1. rx_state' = "TERMINATE"
      BY <2>1, <2>2, RxNextCases DEF RxClock
    <3> QED
      BY <3>1 DEF UseOne, InProgress
  <2>3. CASE rx_state \in {"IDLE", "TERMINATE"}
    <3>1. used_slot' = first_available
      BY <2>1, <2>3 DEF RxClock, UseSlot, used_slot_update
    <3>2. \A s, t \in used_slot' : s = t
      BY <1>1, <3>1 DEF first_available
    <3> QED
      BY <3>2 DEF UseOne
  <2> QED
    BY <1>1, <2>2, <2>3
<1> QED
  BY <1>2, <1>3, <1>4 DEF RxStep

(* A frame gone by stays so, and is older than the next. *)
LEMMA PastRx ==
    ASSUME UdpTypeOK, CallInv, SlotInv, FillInv, PhyRx, NEW f \in Nat, Past(f)
    PROVE  f <= Len(air') /\ (rx_state' \in {"LOAD_LO", "LOAD_HI"} => f < Len(air'))
<1>1. Len(air) \in Nat /\ RxStep
  BY OrderTypes DEF PhyRx
<1>2. CASE WireNibble
  <2>1. rx_state \in {"LOAD_LO", "LOAD_HI"} /\ air' = air
    BY <1>2, ReceiveNibble DEF WireNibble
  <2> QED
    BY <1>1, <2>1 DEF Past, InProgress
<1>3. CASE WireFrame
  <2> DEFINE F == [kind : Kinds, nibbles : FrameNibbles]
  <2>1. PICK x : air' = Append(air, x)
    BY <1>3 DEF WireFrame
  <2>2. air \in Seq(F)
    BY DEF UdpTypeOK, MacTypeOK
  <2> HIDE DEF F
  <2>3. Len(air') = Len(air) + 1
    BY <2>1, <2>2
  <2> QED
    BY <1>1, <2>3 DEF Past
<1>4. CASE WireIdle
  <2>1. air' = air /\ rx_state' \in {"IDLE", "TERMINATE"}
    BY <1>4 DEF WireIdle, RxClock, rx_next, rx_load_lo, rx_load_hi
  <2> QED
    BY <2>1 DEF Past
<1> QED
  BY <1>1, <1>2, <1>3, <1>4 DEF RxStep

(* A held slot is untouched, or has just been given back with the last     *)
(* frame in it.                                                            *)
LEMMA HeldRx ==
    ASSUME UdpTypeOK, CallInv, SlotInv, FillInv, PhyRx, NEW s \in Slots, Held(s)'
    PROVE  \/ Held(s) /\ FrameIn(s)' = FrameIn(s) /\ done'[s] = done[s]
           \/ /\ InProgress /\ s \in used_slot /\ WireIdle /\ FrameIn(s)' = Len(air)
              /\ ~done'[s].d2 /\ ~done'[s].d3 /\ slot_state[s] = "LOADED"
<1>1. RxStep /\ UNCHANGED <<slot, pc, after, slot_state>>
  BY DEF PhyRx, ProgUnchanged, progVars, RxStep, WireNibble, WireFrame, WireIdle, RxClock, ctlVars
<1>2. Answered(s)' = Answered(s)
  BY <1>1 DEF Answered, Transfer
<1>3. done'[s] = done[s] => Held(s)
  BY <1>1, <1>2 DEF Held
<1>4. CASE rxb'[s] = rxb[s] /\ done'[s] = done[s]
  BY <1>3, <1>4 DEF FrameIn
<1>5. CASE s \in available_slots /\ done'[s] = done[s]
  BY <1>3, <1>5, HeldPlace
<1>6. CASE /\ rx_state \in {"LOAD_LO", "LOAD_HI"} /\ s \in used_slot /\ WireIdle
           /\ s \in available_slots
           /\ done'[s] = Toggle(done[s], TRUE)
           /\ WholeIn(s)' /\ rxb'[s][0].lo.frame = Len(air)
  <2>1. done[s] \in Psync /\ NoPulse(done[s]) /\ slot_state[s] = "LOADED"
    BY <1>6, OrderTypes, HeldPlace
  <2>2. ~done'[s].d2 /\ ~done'[s].d3
    BY <1>6, <2>1 DEF NoPulse, Toggle, Psync
  <2> QED
    BY <1>6, <2>1, <2>2 DEF InProgress, FrameIn
<1> QED
  BY <1>1, <1>4, <1>5, <1>6, RxTouched

(* The receiver keeps the order. *)
LEMMA OrderRx ==
    ASSUME UdpTypeOK, CallInv, SlotInv, FillInv, OrderInv, PhyRx
    PROVE  OrderInv'
<1>1. RxStep /\ UNCHANGED <<slot, pc, after, slot_state, processed>>
  BY DEF PhyRx, ProgUnchanged, progVars, RxStep, WireNibble, WireFrame, WireIdle, RxClock, ctlVars
<1>2. UseOne /\ PastInv /\ HeldInv /\ OvertakenInv
  BY DEF OrderInv
<1>3. UseOne'
  BY <1>1, <1>2, UseOneRx
<1>4. /\ \A s \in Slots : FrameIn(s) \in Nat
      /\ \A i \in DOMAIN processed : processed[i] \in Nat
      /\ Len(air) \in Nat
  BY OrderTypes
<1>5. \A f \in Nat : Past(f) => f <= Len(air') /\ (rx_state' \in {"LOAD_LO", "LOAD_HI"} => f < Len(air'))
  BY PastRx
<1>6. PastInv'
  BY <1>1, <1>2, <1>4, <1>5 DEF PastInv, Past, InProgress
<1>7. ASSUME NEW s \in Slots, Held(s)'
      PROVE  \/ Held(s) /\ FrameIn(s)' = FrameIn(s) /\ done'[s] = done[s]
             \/ /\ InProgress /\ s \in used_slot /\ WireIdle /\ FrameIn(s)' = Len(air)
                /\ ~done'[s].d2 /\ ~done'[s].d3 /\ slot_state[s] = "LOADED"
  BY <1>7, HeldRx
<1>8. WireIdle => air' = air /\ rx_state' \notin {"LOAD_LO", "LOAD_HI"}
  BY DEF WireIdle, RxClock, rx_next, rx_load_lo, rx_load_hi
<1>9. ASSUME NEW s \in Slots, Held(s)'
      PROVE  /\ FrameIn(s)' <= Len(air')
             /\ rx_state' \in {"LOAD_LO", "LOAD_HI"} => FrameIn(s)' < Len(air')
             /\ \A i \in DOMAIN processed : processed[i] # FrameIn(s)'
             /\ AtMostOne(Over(s))' /\ (Over(s)' # {} => IsNext(s)')
  <2>1. CASE Held(s) /\ FrameIn(s)' = FrameIn(s) /\ done'[s] = done[s]
    <3>1. /\ Past(FrameIn(s)) /\ Alone(s)
          /\ AtMostOne(Over(s)) /\ (Over(s) # {} => IsNext(s))
      BY <1>2, <2>1 DEF HeldInv
    <3>2. Over(s)' = Over(s) /\ IsNext(s)' = IsNext(s)
      BY <1>1, <2>1 DEF Over, IsNext, AtSecond, Answered, Transfer
    <3> QED
      BY <1>4, <1>5, <2>1, <3>1, <3>2 DEF Alone, AtMostOne
  <2>2. CASE InProgress /\ WireIdle /\ FrameIn(s)' = Len(air)
    <3>1. \A i \in DOMAIN processed : processed[i] < Len(air)
      BY <1>2, <2>2 DEF PastInv, Past
    <3>2. \A i \in DOMAIN processed : ~(processed[i] > Len(air)) /\ processed[i] # Len(air)
      BY <1>4, <3>1
    <3>3. Over(s)' = {}
      BY <1>1, <2>2, <3>2 DEF Over
    <3> QED
      BY <1>4, <1>8, <2>2, <3>2, <3>3 DEF AtMostOne
  <2> QED
    BY <1>7, <1>9, <2>1, <2>2
<1>10. ASSUME NEW s \in Slots, NEW t \in Slots, Held(s)', Held(t)', s # t
       PROVE  /\ FrameIn(s)' # FrameIn(t)'
              /\ FrameIn(s)' < FrameIn(t)' => Ahead(s, t)'
  <2>1. CASE /\ Held(s) /\ FrameIn(s)' = FrameIn(s) /\ done'[s] = done[s]
             /\ Held(t) /\ FrameIn(t)' = FrameIn(t) /\ done'[t] = done[t]
    <3>1. FrameIn(s) # FrameIn(t) /\ (FrameIn(s) < FrameIn(t) => Ahead(s, t))
      BY <1>2, <1>10, <2>1 DEF HeldInv
    <3> QED
      BY <1>1, <2>1, <3>1 DEF Ahead
  <2>2. CASE /\ Held(s) /\ FrameIn(s)' = FrameIn(s)
             /\ InProgress /\ FrameIn(t)' = Len(air) /\ ~done'[t].d2 /\ ~done'[t].d3
             /\ slot_state[t] = "LOADED"
    <3>1. FrameIn(s) < Len(air)
      BY <1>2, <2>2 DEF HeldInv, Past
    <3>2. Ahead(s, t)'
      BY <1>1, <2>2 DEF Ahead
    <3> QED
      BY <1>4, <2>2, <3>1, <3>2
  <2>3. CASE /\ Held(t) /\ FrameIn(t)' = FrameIn(t)
             /\ InProgress /\ FrameIn(s)' = Len(air)
    <3>1. FrameIn(t) < Len(air)
      BY <1>2, <2>3 DEF HeldInv, Past
    <3> QED
      BY <1>4, <2>3, <3>1
  <2>4. CASE InProgress /\ s \in used_slot /\ t \in used_slot
    BY <1>2, <1>10, <2>4 DEF UseOne
  <2> QED
    BY <1>7, <1>10, <2>1, <2>2, <2>3, <2>4
<1>11. HeldInv'
  BY <1>1, <1>9, <1>10 DEF HeldInv, Past, Alone, InProgress
<1>12. OvertakenInv'
  BY <1>1, <1>2 DEF OvertakenInv, AtMostOne
<1> QED
  BY <1>3, <1>6, <1>11, <1>12 DEF OrderInv

(* A step of the program: a slot it is done with was given back. *)
Moves == /\ \A s \in Slots : Answered(s) /\ slot_state'[s] = "PENDING" => Answered(s)'
         /\ AtSecond' => AtSecond \/ slot_state[0] # "PENDING" \/ Answered(0)
         /\ (Answered(0) \/ AtSecond) /\ slot_state[1] = "PENDING" =>
                Answered(0)' \/ AtSecond' \/ Answered(1)'

(* At an edge of sys_clk no slot becomes held, *)
LEMMA HeldSys ==
    ASSUME UdpTypeOK, SlotInv, Moves, NEW w, SysClock(w), w.reg = "STATE" => w.val = "LOADED",
           NEW s \in Slots, Held(s)'
    PROVE  /\ Held(s) /\ FrameIn(s)' = FrameIn(s)
           /\ slot_state[s] = "PENDING" => slot_state'[s] = "PENDING"
<1>1. /\ done'[s] = Sample(done[s])
      /\ slot_state'[s] = "PENDING" => Out(done[s]) \/ slot_state[s] = "PENDING"
      /\ rxb' = rxb
  BY DEF SysClock, rxVars
<1>2. /\ OnePulse(done[s]) => slot_state[s] = "LOADED"
      /\ slot_state[s] = "PENDING" => NoPulse(done[s])
      /\ NoPulse(done[s]) \/ OnePulse(done[s])
  BY HeldPlace DEF SlotInv, Place, WithSoftware, Loaded, Announced, WithReceiver, Returned
<1>3. /\ OnePulse(done'[s]) => OnePulse(done[s])
      /\ Out(done[s]) => OnePulse(done[s])
      /\ NoPulse(done[s]) => ~OnePulse(done'[s])
  BY <1>1, <1>2 DEF Sample, Out, NoPulse, OnePulse
<1>4. FrameIn(s)' = FrameIn(s)
  BY <1>1 DEF FrameIn
<1>5. CASE OnePulse(done'[s])
  BY <1>2, <1>3, <1>4, <1>5 DEF Held
<1>6. CASE slot_state'[s] = "PENDING" /\ ~Answered(s)'
  BY <1>1, <1>3, <1>4, <1>6 DEF Held, Moves
<1> QED
  BY <1>5, <1>6 DEF Held

(* and the pulses keep their distance. *)
LEMMA AheadSys ==
    ASSUME NEW w, SysClock(w), w.reg = "STATE" => w.val = "LOADED",
           NEW s \in Slots, NEW t \in Slots, Held(s), Ahead(s, t),
           slot_state[s] = "PENDING" => slot_state'[s] = "PENDING"
    PROVE  Ahead(s, t)'
<1>1. /\ done'[s] = Sample(done[s]) /\ done'[t] = Sample(done[t])
      /\ Out(done[s]) => slot_state'[s] = "PENDING"
      /\ slot_state'[t] = "PENDING" => Out(done[t]) \/ slot_state[t] = "PENDING"
  BY DEF SysClock
<1>2. /\ done'[s].d2 = done[s].d1 /\ done'[s].d3 = done[s].d2
      /\ done'[t].d2 = done[t].d1 /\ done'[t].d3 = done[t].d2
  BY <1>1 DEF Sample
<1>3. done[s].d1 \/ done[s].d2 \/ done[s].d3 \/ slot_state[s] = "PENDING"
  BY DEF Held, OnePulse
<1>4. slot_state'[t] = "PENDING" => slot_state'[s] = "PENDING"
  BY <1>1 DEF Ahead, Out
<1>5. done'[t].d3 => done'[s].d3 \/ slot_state'[s] = "PENDING"
  BY <1>1, <1>2 DEF Ahead, Out
<1>6. done'[s].d2 \/ done'[s].d3 \/ slot_state'[s] = "PENDING"
  BY <1>1, <1>2, <1>3 DEF Out
<1> QED
  BY <1>4, <1>5, <1>6 DEF Ahead

(* What both kinds of steps of the program keep. *)
LEMMA OrderSys ==
    ASSUME UdpTypeOK, SlotInv, OrderInv, Moves, NEW w, SysClock(w),
           w.reg = "STATE" => w.val = "LOADED"
    PROVE  /\ UseOne' /\ (\A f : Past(f)' <=> Past(f))
           /\ \A s, t \in Slots : Held(s)' /\ Held(t)' /\ s # t =>
                  FrameIn(s)' # FrameIn(t)' /\ (FrameIn(s)' < FrameIn(t)' => Ahead(s, t)')
<1>1. UNCHANGED <<rx_state, gap, used_slot, air>>
  BY DEF SysClock, rxVars, wireVars
<1>2. UseOne' /\ \A f : Past(f)' <=> Past(f)
  BY <1>1 DEF OrderInv, UseOne, InProgress, Past
<1>3. ASSUME NEW s \in Slots, NEW t \in Slots, Held(s)', Held(t)', s # t
      PROVE  FrameIn(s)' # FrameIn(t)' /\ (FrameIn(s)' < FrameIn(t)' => Ahead(s, t)')
  <2>1. /\ Held(s) /\ FrameIn(s)' = FrameIn(s)
        /\ slot_state[s] = "PENDING" => slot_state'[s] = "PENDING"
    BY <1>3, HeldSys
  <2>2. Held(t) /\ FrameIn(t)' = FrameIn(t)
    BY <1>3, HeldSys
  <2>3. FrameIn(s) # FrameIn(t) /\ (FrameIn(s) < FrameIn(t) => Ahead(s, t))
    BY <1>3, <2>1, <2>2 DEF OrderInv, HeldInv
  <2>4. Ahead(s, t) => Ahead(s, t)'
    BY <2>1, AheadSys
  <2> QED
    BY <2>1, <2>2, <2>3, <2>4
<1> QED
  BY <1>2, <1>3

(* A step that processes no frame. *)
LEMMA OrderIdle ==
    ASSUME UdpTypeOK, SlotInv, OrderInv, Moves, NEW w, SysClock(w),
           w.reg = "STATE" => w.val = "LOADED", processed' = processed
    PROVE  OrderInv'
<1>1. /\ UseOne' /\ (\A f : Past(f)' <=> Past(f))
      /\ \A s, t \in Slots : Held(s)' /\ Held(t)' /\ s # t =>
             FrameIn(s)' # FrameIn(t)' /\ (FrameIn(s)' < FrameIn(t)' => Ahead(s, t)')
  BY OrderSys
<1>2. PastInv' /\ OvertakenInv'
  BY <1>1 DEF OrderInv, PastInv, OvertakenInv, AtMostOne
<1>3. ASSUME NEW s \in Slots, Held(s)'
      PROVE  /\ Past(FrameIn(s))' /\ Alone(s)'
             /\ AtMostOne(Over(s))' /\ (Over(s)' # {} => IsNext(s)')
  <2>1. /\ Held(s) /\ FrameIn(s)' = FrameIn(s)
        /\ slot_state[s] = "PENDING" => slot_state'[s] = "PENDING"
    BY <1>3, HeldSys
  <2>2. /\ Past(FrameIn(s)) /\ Alone(s)
        /\ AtMostOne(Over(s)) /\ (Over(s) # {} => IsNext(s))
    BY <2>1 DEF OrderInv, HeldInv
  <2>3. Over(s)' = Over(s)
    BY <2>1 DEF Over
  <2>4. Past(FrameIn(s))' /\ Alone(s)' /\ AtMostOne(Over(s))'
    BY <1>1, <2>1, <2>2, <2>3 DEF Alone, AtMostOne, Past, InProgress, SysClock, rxVars, wireVars
  <2>5. ASSUME IsNext(s) PROVE IsNext(s)'
    <3>1. slot_state[s] = "PENDING" /\ slot_state'[s] = "PENDING" /\ NoPulse(done[s])
      BY <2>1, <2>5, HeldPlace DEF IsNext
    <3>2. ~OnePulse(done[s]) /\ ~OnePulse(done'[s])
      BY <3>1 DEF SysClock, Sample, NoPulse, OnePulse
    <3>3. ~Answered(s) /\ ~Answered(s)'
      BY <1>3, <2>1, <3>2 DEF Held
    <3>4. CASE s = 0
      BY <2>5, <3>1, <3>3, <3>4 DEF IsNext, Moves
    <3>5. CASE s = 1
      BY <2>5, <3>1, <3>3, <3>5 DEF IsNext, Moves
    <3> QED
      BY <3>4, <3>5 DEF Slots
  <2> QED
    BY <2>2, <2>3, <2>4, <2>5
<1>4. HeldInv'
  BY <1>1, <1>3 DEF HeldInv
<1> QED
  BY <1>1, <1>2, <1>4 DEF OrderInv

(* A step that processes the frame in the slot at hand. *)
LEMMA OrderProcess ==
    ASSUME UdpTypeOK, SlotInv, OrderInv, Moves, NEW w, SysClock(w),
           w.reg = "STATE" => w.val = "LOADED", pc = "process", Answered(slot)', slot' = slot,
           ~AtSecond', processed' = Append(processed, FrameIn(slot))
    PROVE  OrderInv'
<1> DEFINE n == Len(processed)
           g == FrameIn(slot)
<1>1. /\ UseOne' /\ (\A f : Past(f)' <=> Past(f))
      /\ \A s, t \in Slots : Held(s)' /\ Held(t)' /\ s # t =>
             FrameIn(s)' # FrameIn(t)' /\ (FrameIn(s)' < FrameIn(t)' => Ahead(s, t)')
  BY OrderSys
<1>2. slot \in Slots /\ slot_state[slot] = "PENDING" /\ ~Answered(slot) /\ Held(slot)
  <2>1. slot \in Slots /\ Serving(slot)
    BY DEF UdpTypeOK, Serving
  <2>2. ~Answered(slot)
    BY DEF Answered, Transfer
  <2> QED
    BY <2>1, <2>2 DEF SlotInv, Held
<1>3. Past(g) /\ Alone(slot) /\ AtMostOne(Over(slot))
  BY <1>2 DEF OrderInv, HeldInv
<1>4. /\ n \in Nat /\ g \in Nat /\ Len(processed') = n + 1 /\ DOMAIN processed' = 1..n+1
      /\ DOMAIN processed = 1..n
      /\ processed'[n + 1] = g /\ \A i \in 1..n : processed'[i] = processed[i]
  <2>1. processed \in Seq(Nat) /\ g \in Nat
    <3>1. \A f \in Frames : f \in Nat
      BY MacAssumption DEF Frames
    <3> QED
      BY <1>2, <3>1, OrderTypes DEF UdpTypeOK
  <2> HIDE DEF g
  <2>2. processed' = Append(processed, g)
    BY DEF g
  <2> QED
    BY <2>1, <2>2
<1>5. PastInv'
  <2>1. \A i \in 1..n : Past(processed[i])
    BY <1>4 DEF OrderInv, PastInv
  <2>2. \A i \in 1..n+1 : i \in 1..n \/ i = n + 1
    BY <1>4
  <2> HIDE DEF n, g
  <2>3. \A i \in 1..n+1 : Past(processed'[i])
    BY <1>3, <1>4, <2>1, <2>2
  <2> QED
    BY <1>4, <2>3 DEF PastInv, Past, InProgress, SysClock, rxVars, wireVars
<1>6. OvertakenInv'
  <2> SUFFICES ASSUME NEW j \in 1..n+1
               PROVE  /\ \A i \in 1..j-1 : processed'[i] # processed'[j]
                      /\ AtMostOne({i \in 1..j-1 : processed'[i] > processed'[j]})
    BY <1>4 DEF OvertakenInv, AtMostOne
  <2>1. CASE j \in 1..n
    <3>1. /\ \A i \in 1..j-1 : processed[i] # processed[j]
          /\ AtMostOne({i \in 1..j-1 : processed[i] > processed[j]})
      BY <1>4, <2>1 DEF OrderInv, OvertakenInv
    <3>2. processed'[j] = processed[j] /\ \A i \in 1..j-1 : processed'[i] = processed[i]
      BY <1>4, <2>1
    <3> QED
      BY <3>1, <3>2 DEF AtMostOne
  <2>2. CASE j = n + 1
    <3>1. 1..j-1 = 1..n /\ processed'[j] = g
      BY <1>4, <2>2
    <3>2. \A i \in 1..n : processed[i] # g
      BY <1>3, <1>4 DEF Alone
    <3>3. \A i, k \in 1..n : processed[i] > g /\ processed[k] > g => i = k
      BY <1>3, <1>4 DEF Over, AtMostOne
    <3> HIDE DEF g, n
    <3>4. \A i \in 1..j-1 : processed'[i] # processed'[j]
      BY <1>4, <3>1, <3>2
    <3>5. \A i, k \in 1..j-1 : processed'[i] > processed'[j] /\ processed'[k] > processed'[j] => i = k
      BY <1>4, <3>1, <3>3
    <3> QED
      BY <3>4, <3>5 DEF AtMostOne
  <2>3. j \in 1..n \/ j = n + 1
    <3> HIDE DEF n
    <3> QED
      BY <1>4
  <2> QED
    BY <2>1, <2>2, <2>3
<1>7. ASSUME NEW s \in Slots, Held(s)'
      PROVE  /\ Past(FrameIn(s))' /\ Alone(s)'
             /\ AtMostOne(Over(s))' /\ (Over(s)' # {} => IsNext(s)')
  <2>1. /\ Held(s) /\ FrameIn(s)' = FrameIn(s)
        /\ slot_state[s] = "PENDING" => slot_state'[s] = "PENDING"
    BY <1>7, HeldSys
  <2>2. s # slot
    <3>1. NoPulse(done[slot])
      BY <1>2, HeldPlace
    <3>2. ~OnePulse(done'[slot])
      BY <1>2, <3>1 DEF SysClock, Sample, NoPulse, OnePulse
    <3> QED
      BY <1>7, <3>2 DEF Held
  <2>3. /\ Past(FrameIn(s)) /\ Alone(s) /\ (Over(s) # {} => IsNext(s))
        /\ FrameIn(s) # g /\ (FrameIn(s) < g => Ahead(s, slot))
    BY <1>2, <2>1, <2>2 DEF OrderInv, HeldInv
  <2>4. (s = 0 /\ slot = 1) \/ (s = 1 /\ slot = 0)
    BY <1>2, <2>2 DEF Slots
  <2>5. ~IsNext(s)
    BY <2>4 DEF IsNext, AtSecond, Answered, Transfer
  <2>6. Over(s) = {}
    BY <2>3, <2>5
  <2>7. FrameIn(s) \in Nat
    BY OrderTypes
  <2>8. \A i \in Over(s)' : i = n + 1 /\ g > FrameIn(s)
    <3> HIDE DEF n, g
    <3>1. \A i \in 1..n+1 : i \in 1..n \/ i = n + 1
      BY <1>4
    <3>2. \A i \in 1..n : ~(processed[i] > FrameIn(s))
      BY <1>4, <2>6 DEF Over
    <3> QED
      BY <1>4, <2>1, <3>1, <3>2 DEF Over
  <2>9. Past(FrameIn(s))'
    BY <2>1, <2>3 DEF Past, InProgress, SysClock, rxVars, wireVars
  <2>10. Alone(s)'
    <3> HIDE DEF n, g
    <3>1. \A i \in 1..n+1 : i \in 1..n \/ i = n + 1
      BY <1>4
    <3> QED
      BY <1>4, <2>1, <2>3, <3>1 DEF Alone
  <2>11. AtMostOne(Over(s))'
    BY <2>8 DEF AtMostOne
  <2>12. ASSUME Over(s)' # {} PROVE IsNext(s)'
    <3>1. FrameIn(s) < g
      BY <1>4, <2>7, <2>8, <2>12
    <3>2. slot_state'[s] = "PENDING"
      BY <1>2, <2>1, <2>3, <3>1 DEF Ahead
    <3>3. s = 1 => Answered(0)'
      BY <2>4 DEF Answered
    <3> QED
      BY <2>4, <3>2, <3>3 DEF IsNext
  <2> QED
    BY <2>9, <2>10, <2>11, <2>12
<1>8. HeldInv'
  BY <1>1, <1>7 DEF HeldInv
<1> QED
  BY <1>1, <1>5, <1>6, <1>8 DEF OrderInv

(* How the program moves from slot to slot. *)
LEMMA ProgramMoves ==
    ASSUME UdpTypeOK, SlotInv, Program \/ SysIdle
    PROVE  Moves
<1> USE DEF Step, Moves, Answered, AtSecond, Transfer
<1>1. /\ slot \in {0, 1} /\ caller \in {"main", "check"} /\ after \in {"free", "try", "poll"}
  BY DEF UdpTypeOK, Slots
<1>2. CASE SysIdle \/ StartAck \/ StartLoad
  BY <1>1, <1>2 DEF SysIdle, StartAck, StartLoad, progVars
<1>3. CASE Send
  BY <1>1, <1>3 DEF Send, SendCount, SendWait, SendAck, progVars
<1>4. CASE Resolved \/ Resolve \/ Try \/ TryAgain \/ Check \/ MainService
  BY <1>1, <1>4 DEF Resolved, Resolve, Try, TryAgain, Check, MainService
<1>5. CASE Request \/ MainSend
  BY <1>1, <1>5 DEF Request, MainSend, Fill
<1>6. CASE Poll \/ ReadCount \/ RxAck
  BY <1>1, <1>6 DEF Poll, ReadCount, RxAck, progVars
<1>7. CASE ReadState
  BY <1>1, <1>7 DEF ReadState, NextSlot
<1>8. CASE Free
  <2>1. pc = "free" /\ NextSlot /\ after' = after
    BY <1>8 DEF Free
  <2>2. slot_state'[slot] # "PENDING"
    <3>1. slot_state[slot] = "PENDING"
      BY <1>1, <2>1 DEF SlotInv, Serving, Slots
    <3>2. NoPulse(done[slot]) /\ SysClock(WriteState(slot, "LOADED"))
      BY <1>1, <1>8, <3>1, HeldPlace DEF Free, Bus, Slots
    <3> QED
      BY <1>1, <3>2 DEF SysClock, WriteState, NoPulse, Out, Slots
  <2> QED
    BY <1>1, <2>1, <2>2 DEF NextSlot
<1>9. CASE Process \/ ProcessRequest
  BY <1>1, <1>9 DEF Process, ProcessRequest, Fill
<1> QED
  BY <1>2, <1>3, <1>4, <1>5, <1>6, <1>7, <1>8, <1>9 DEF Program, Start, Arp, Service

(* Every step of the system keeps the order. *)
LEMMA OrderStep ==
    ASSUME UdpTypeOK, CallInv, SlotInv, ReceiveInv, OrderInv, [Next]_vars
    PROVE  OrderInv'
<1>1. CASE Program \/ SysIdle
  <2>1. Moves
    BY <1>1, ProgramMoves
  <2>2. PICK w : SysClock(w) /\ (w.reg = "STATE" => w.val = "LOADED")
    BY <1>1, ProgramEdge
  <2>3. CASE processed' = processed
    BY <2>1, <2>2, <2>3, OrderIdle
  <2>4. CASE processed' # processed
    <3>1. Process \/ ProcessRequest
      BY <1>1, <2>4 DEF Program, Start, StartAck, StartLoad, Send, SendCount, SendWait, SendAck, Arp,
             Resolved, Resolve, Request, Try, TryAgain, Check, MainSend, MainService, Service, Poll,
             ReadState, ReadCount, Free, RxAck, SysIdle, progVars
    <3>2. processed' = Append(processed, FrameIn(slot)) /\ slot' = slot /\ pc = "process"
      BY <2>4, <3>1 DEF Process, ProcessRequest, Step, Received, FrameIn
    <3>3. Answered(slot)' /\ ~AtSecond'
      BY <3>1, <3>2 DEF Process, ProcessRequest, Step, Fill, Answered, AtSecond, Transfer
    <3> QED
      BY <2>1, <2>2, <3>2, <3>3, OrderProcess
  <2> QED
    BY <2>3, <2>4
<1>2. CASE PhyRx
  BY <1>2, OrderRx DEF ReceiveInv
<1>3. CASE PhyTx \/ UNCHANGED vars
  <2>1. /\ UNCHANGED <<slot_state, done, rxb, rx_state, used_slot, air, gap>>
        /\ UNCHANGED <<pc, slot, after, processed>>
    BY <1>3 DEF PhyTx, TxClock, ProgUnchanged, progVars, ctlVars, countVars, rxVars, wireVars, vars, macVars
  <2>2. UseOne' /\ PastInv' /\ OvertakenInv'
    BY <2>1 DEF OrderInv, UseOne, PastInv, Past, OvertakenInv, InProgress, AtMostOne
  <2>3. \A s \in Slots : /\ Held(s)' = Held(s) /\ FrameIn(s)' = FrameIn(s) /\ Over(s)' = Over(s)
                         /\ IsNext(s)' = IsNext(s) /\ Past(FrameIn(s))' = Past(FrameIn(s))
                         /\ Alone(s)' = Alone(s) /\ AtMostOne(Over(s))' = AtMostOne(Over(s))
    BY <2>1 DEF Held, OnePulse, Answered, Transfer, FrameIn, Over, IsNext, AtSecond, Past, InProgress,
                Alone, AtMostOne
  <2>4. \A s, t \in Slots : Ahead(s, t)' = Ahead(s, t)
    BY <2>1 DEF Ahead
  <2>5. HeldInv'
    BY <2>3, <2>4 DEF OrderInv, HeldInv
  <2> QED
    BY <2>2, <2>5 DEF OrderInv
<1> QED
  BY <1>1, <1>2, <1>3 DEF Next

(* For slots of any size, every traffic and every interleaving of the      *)
(* clocks, no frame is processed twice, and of the frames processed before *)
(* another at most one arrived after it, although slot 0 is always looked  *)
(* at first: when the later frame is announced, so is the earlier one.     *)
THEOREM OrderCorrect == Spec => []OvertakenByOne
<1>1. Init => OrderInv
  <2> SUFFICES ASSUME Init PROVE OrderInv
    OBVIOUS
  <2>1. \A s \in Slots : slot_state[s] = "EMPTY" /\ NoPulse(done[s])
    BY DEF Init, MacInit, Quiet, NoPulse
  <2>2. HeldInv
    BY <2>1 DEF HeldInv, Held, NoPulse, OnePulse
  <2>3. UseOne /\ PastInv /\ OvertakenInv
    BY DEF Init, MacInit, UseOne, InProgress, PastInv, OvertakenInv
  <2> QED
    BY <2>2, <2>3 DEF OrderInv
<1>2. UdpTypeOK /\ CallInv /\ SlotInv /\ ReceiveInv /\ OrderInv /\ [Next]_vars => OrderInv'
  BY OrderStep
<1>3. UdpTypeOK /\ OrderInv => OvertakenByOne
  <2> SUFFICES ASSUME UdpTypeOK, OrderInv, NEW j \in DOMAIN processed
               PROVE  /\ \A i \in 1..j-1 : processed[i] # processed[j]
                      /\ Cardinality({i \in 1..j-1 : processed[i] > processed[j]}) <= 1
    BY DEF OvertakenByOne
  <2> DEFINE S == {i \in 1..j-1 : processed[i] > processed[j]}
  <2>1. /\ \A i \in 1..j-1 : processed[i] # processed[j]
        /\ AtMostOne(S)
    BY DEF OrderInv, OvertakenInv
  <2>2. S = {} \/ \E i : S = {i}
    BY <2>1 DEF AtMostOne
  <2> HIDE DEF S
  <2>3. Cardinality(S) <= 1
    BY <2>2, FS_EmptySet, FS_Singleton
  <2> QED
    BY <2>1, <2>3 DEF S
<1>4. Spec => []SlotInv
  BY SlotInit, SlotNext, PTL DEF Spec
<1>5. Spec => []ReceiveInv
  BY ReceiveInit, ReceiveInvStep, <1>4, UdpInvCorrect, PTL DEF Spec
<1> QED
  BY <1>1, <1>2, <1>3, <1>4, <1>5, UdpInvCorrect, PTL DEF Spec
=============================================================================
