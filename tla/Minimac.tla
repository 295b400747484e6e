------------------------------- MODULE Minimac -------------------------------
(***************************************************************************)
(* The Ethernet MAC cores/minimac2: its registers (minimac2_ctlif.v) in    *)
(* the clock domain of the CPU, the receiver (minimac2_rx.v) and the       *)
(* transmitter (minimac2_tx.v) in the two clock domains of the PHY, and    *)
(* what crosses between them (minimac2_sync.v, minimac2_psync.v).  The     *)
(* three clocks are unrelated, so each has its own action and their edges  *)
(* interleave; SysClock is completed by the module of the program that     *)
(* runs on the CPU.                                                        *)
(***************************************************************************)
EXTENDS Naturals, Sequences

CONSTANTS
    CountMod,               \* bytes in a slot, 2^11: the byte counters are that wide
    FrameNibbles,           \* lengths of the frames on the wire, in nibbles
    Kinds,                  \* what a frame can be to the software
    MaxFrames,              \* bound: frames that arrive
    MinGap                  \* edges without data between frames (IEEE 802.3 has at least 11)

ASSUME MacAssumption == /\ CountMod \in Nat /\ CountMod > 1
                        /\ FrameNibbles \subseteq Nat \ {0}
                        /\ MaxFrames \in Nat /\ MinGap \in Nat \ {0, 1}

Slots == {0, 1}
Counts == 0..CountMod-1
Frames == 1..MaxFrames

VARIABLES
    slot_state, slots_loaded_r,             \* minimac2_ctlif
    tx_count, tx_remaining_r,
    ready, done, tx_start, tx_done,         \* the synchronisers of minimac2_sync
    sys_rx_count_r, sys_rx_count, phy_tx_count_r, phy_tx_count,
    rx_moving, tx_moving,                   \* counters a coming edge may sample while they change
    available_slots, used_slot, rx_count,   \* minimac2_rx
    rx_state, lo, hi, rxb,
    tx_state, byte_count, txb_dat, txb,     \* minimac2_tx
    air, nib, gap,                          \* the wire in: frames begun, nibbles of the
                                            \* last one gone by, edges since its end
    line, aired                             \* the wire out: the frame under way, those sent

ctlVars == <<slot_state, slots_loaded_r, tx_count, tx_remaining_r>>
countVars == <<sys_rx_count_r, sys_rx_count>>
rxVars == <<available_slots, used_slot, rx_count, rx_state, lo, hi, rxb>>
txVars == <<tx_state, byte_count, txb_dat, line, aired, phy_tx_count_r, phy_tx_count>>
wireVars == <<air, nib, gap>>
macVars == <<ctlVars, ready, done, tx_start, tx_done, countVars, rx_moving, tx_moving, rxVars, txVars,
             txb, wireVars>>

(* A nibble is known by the frame it belongs to and its place there; 0 is  *)
(* what a buffer or a register holds at power-up.                          *)
Nibble == [frame : Frames \cup {0}, at : Nat]
NoNibble == [frame |-> 0, at |-> 0]
Byte == [lo : Nibble, hi : Nibble]
(* Mutant: the byte counters do not wrap. *)
Inc_Unbounded(c) == c + 1
Inc(c) == (c + 1) % CountMod
ByteOf(n, k) == [lo |-> [frame |-> n, at |-> 2*k], hi |-> [frame |-> n, at |-> 2*k + 1]]

-----------------------------------------------------------------------------
(* minimac2_psync: a pulse in one domain toggles "level", which the other  *)
(* samples three times; the pulse comes out when the last two differ.      *)
(* Only the differences between neighbouring stages matter, so they are    *)
(* what is kept.                                                           *)
Psync == [d1 : BOOLEAN, d2 : BOOLEAN, d3 : BOOLEAN]
Quiet == [d1 |-> FALSE, d2 |-> FALSE, d3 |-> FALSE]
Out(p) == p.d3
Toggle(p, i) == IF i THEN [p EXCEPT !.d1 = ~@] ELSE p
Sample(p) == [d1 |-> FALSE, d2 |-> p.d1, d3 |-> p.d2]

MacTypeOK ==
    /\ slot_state \in [Slots -> {"EMPTY", "LOADED", "PENDING"}]
    /\ slots_loaded_r \in SUBSET Slots
    /\ tx_count \in Counts /\ tx_remaining_r \in BOOLEAN
    /\ ready \in [Slots -> Psync] /\ done \in [Slots -> Psync]
    /\ tx_start \in Psync /\ tx_done \in Psync
    /\ sys_rx_count_r \in [Slots -> Counts] /\ sys_rx_count \in [Slots -> Counts]
    /\ phy_tx_count_r \in Counts /\ phy_tx_count \in Counts
    /\ rx_moving \in SUBSET Slots /\ tx_moving \in BOOLEAN
    /\ available_slots \in SUBSET Slots /\ used_slot \in SUBSET Slots
    /\ rx_count \in [Slots -> Counts]
    /\ rx_state \in {"IDLE", "LOAD_LO", "LOAD_HI", "TERMINATE"}
    /\ lo \in Nibble /\ hi \in Nibble
    /\ rxb \in [Slots -> [Counts -> Byte]]
    /\ tx_state \in {"IDLE", "SEND_LO", "SEND_HI", "TERMINATE"}
    /\ byte_count \in Counts
    /\ air \in Seq([kind : Kinds, nibbles : FrameNibbles]) /\ Len(air) <= MaxFrames
    /\ nib \in Nat /\ gap \in 0..MinGap

(* Out of reset.  The registers without a reset or an initial value start  *)
(* anyhow; the PHY is held in reset, so the wire is quiet.                 *)
MacInit ==
    /\ slot_state = [s \in Slots |-> "EMPTY"] /\ slots_loaded_r = {}
    /\ tx_count = 0 /\ tx_remaining_r = FALSE
    /\ ready = [s \in Slots |-> Quiet] /\ done = [s \in Slots |-> Quiet]
    /\ tx_start = Quiet /\ tx_done = Quiet
    /\ sys_rx_count_r = [s \in Slots |-> 0] /\ sys_rx_count = [s \in Slots |-> 0]
    /\ phy_tx_count_r = 0 /\ phy_tx_count = 0
    /\ rx_moving = {} /\ tx_moving = FALSE
    /\ available_slots = {} /\ used_slot \in SUBSET Slots
    /\ rx_count = [s \in Slots |-> 0]
    /\ rx_state = "IDLE" /\ lo = NoNibble /\ hi = NoNibble
    /\ rxb = [s \in Slots |-> [k \in Counts |-> [lo |-> NoNibble, hi |-> NoNibble]]]
    /\ tx_state = "IDLE" /\ byte_count = 0
    /\ txb = 0 /\ txb_dat = <<0, 0>>
    /\ air = <<>> /\ nib = 0 /\ gap = 0
    /\ line = <<>> /\ aired = <<>>
-----------------------------------------------------------------------------
(* The CPU's side.  A write to a register is a record; "none" is no write. *)
NoWrite == [reg |-> "none"]
WriteState(s, v) == [reg |-> "STATE", slot |-> s, val |-> v]
WriteTxCount(n) == [reg |-> "TXCOUNT", val |-> n]

slots_loaded == {s \in Slots : slot_state[s] = "LOADED"}
rx_ready == slots_loaded \ slots_loaded_r
tx_remaining == tx_count # 0
irq_rx == \E s \in Slots : slot_state[s] = "PENDING"
irq_tx == Out(tx_done)

(* Mutant: the count is not cleared when the frame is out. *)
next_tx_count_Kept(w) == IF w.reg = "TXCOUNT" THEN w.val ELSE tx_count
next_tx_count(w) == CASE Out(tx_done) -> 0
                      [] ~Out(tx_done) /\ w.reg = "TXCOUNT" -> w.val
                      [] OTHER -> tx_count

(* One edge of sys_clk.  A completion wins over a write.  Byte counters    *)
(* are sampled without a synchroniser: one that changes at about the same  *)
(* time may be read as anything.                                           *)
SysClock(w) ==
    /\ slot_state' = [s \in Slots |-> CASE Out(done[s]) -> "PENDING"
                                        [] ~Out(done[s]) /\ w.reg = "STATE" /\ w.slot = s -> w.val
                                        [] OTHER -> slot_state[s]]
    /\ tx_count' = next_tx_count(w)
    /\ slots_loaded_r' = slots_loaded
    /\ tx_remaining_r' = tx_remaining
    /\ ready' = [s \in Slots |-> Toggle(ready[s], s \in rx_ready)]
    /\ tx_start' = Toggle(tx_start, tx_remaining /\ ~tx_remaining_r)
    /\ done' = [s \in Slots |-> Sample(done[s])]
    /\ tx_done' = Sample(tx_done)
    /\ sys_rx_count_r' \in [Slots -> Counts]
    /\ \A s \in Slots \ rx_moving : sys_rx_count_r'[s] = rx_count[s]
    /\ sys_rx_count' = sys_rx_count_r
    /\ rx_moving' = {}
    /\ tx_moving' = (tx_moving \/ tx_count' # tx_count)
    /\ UNCHANGED <<rxVars, txVars, wireVars>>
-----------------------------------------------------------------------------
(* The receiver.  What the state machine does at this edge, given whether  *)
(* the PHY has data.                                                       *)
rx_load_lo(dv) == dv /\ rx_state \in {"IDLE", "LOAD_LO"}
rx_load_hi(dv) == dv /\ rx_state = "LOAD_HI"
rx_done(dv) == IF ~dv /\ rx_state \in {"LOAD_LO", "LOAD_HI"} THEN used_slot ELSE {}
rx_next(dv) == CASE rx_load_lo(dv) -> "LOAD_HI"
                 [] rx_load_hi(dv) -> "LOAD_LO"
                 [] ~dv /\ rx_state \in {"LOAD_LO", "LOAD_HI"} -> "TERMINATE"
                 [] OTHER -> "IDLE"
used_slot_update(dv) == \/ rx_state = "TERMINATE"
                        \/ rx_state = "IDLE" /\ ~dv

first_available == IF 0 \in available_slots THEN {0} ELSE available_slots

(* Mutant: the slot is chosen again during a frame. *)
UseSlot_Always(dv) == used_slot' = first_available
UseSlot(dv) == used_slot' = IF used_slot_update(dv) THEN first_available ELSE used_slot
(* Mutant: a slot stays available when it is done. *)
Available_Kept(dv) == available_slots' = available_slots \cup {s \in Slots : Out(ready[s])}
Available(dv) ==
    available_slots' = (available_slots \cup {s \in Slots : Out(ready[s])}) \ rx_done(dv)

(* A byte is stored, and counted, at the edge after its high nibble.       *)
StoreByte(dv) ==
    LET reset == IF rx_state = "IDLE" /\ dv THEN used_slot ELSE {}
        inc == IF rx_state = "LOAD_LO" THEN used_slot ELSE {}
    IN  /\ rxb' = [s \in Slots |-> IF s \in inc
                                   THEN [rxb[s] EXCEPT ![rx_count[s]] = [lo |-> lo, hi |-> hi]]
                                   ELSE rxb[s]]
        /\ rx_count' = [s \in Slots |-> CASE s \in reset -> 0
                                          [] s \in inc -> Inc(rx_count[s])
                                          [] OTHER -> rx_count[s]]
        /\ rx_moving' = rx_moving \cup {s \in Slots : rx_count'[s] # rx_count[s]}

(* One edge of phy_rx_clk.                                                 *)
RxClock(dv, nibble) ==
    /\ rx_state' = rx_next(dv)
    /\ lo' = IF rx_load_lo(dv) THEN nibble ELSE lo
    /\ hi' = IF rx_load_hi(dv) THEN nibble ELSE hi
    /\ Available(dv) /\ UseSlot(dv) /\ StoreByte(dv)
    /\ ready' = [s \in Slots |-> Sample(ready[s])]
    /\ done' = [s \in Slots |-> Toggle(done[s], s \in rx_done(dv))]
    /\ UNCHANGED <<ctlVars, tx_start, tx_done, countVars, tx_moving, txVars, txb>>

(* The wire: the next nibble of a frame, the first one of a new frame      *)
(* after a long enough gap, or nothing.                                    *)
InFrame == Len(air) > 0 /\ nib < air[Len(air)].nibbles
WireNibble == /\ InFrame
              /\ nib' = nib + 1
              /\ RxClock(TRUE, [frame |-> Len(air), at |-> nib])
              /\ UNCHANGED <<air, gap>>
WireFrame == /\ ~InFrame /\ gap = MinGap /\ Len(air) < MaxFrames
             /\ \E k \in Kinds, n \in FrameNibbles :
                    air' = Append(air, [kind |-> k, nibbles |-> n])
             /\ nib' = 1 /\ gap' = 0
             /\ RxClock(TRUE, [frame |-> Len(air) + 1, at |-> 0])
WireIdle == /\ ~InFrame
            /\ gap' = IF gap < MinGap THEN gap + 1 ELSE gap
            /\ RxClock(FALSE, NoNibble)
            /\ UNCHANGED <<air, nib>>
RxStep == WireNibble \/ WireFrame \/ WireIdle
-----------------------------------------------------------------------------
(* One edge of phy_tx_clk.  The buffer is read a byte ahead: txb_dat is    *)
(* what it held at byte_count before the edge.                             *)
byte_count_max == byte_count = phy_tx_count
tx_next == CASE tx_state = "IDLE" /\ Out(tx_start) -> "SEND_LO"
             [] tx_state = "SEND_LO" -> "SEND_HI"
             [] tx_state = "SEND_HI" -> IF byte_count_max THEN "TERMINATE" ELSE "SEND_LO"
             [] OTHER -> "IDLE"

TxClock ==
    /\ tx_state' = tx_next
    /\ byte_count' = CASE tx_state \in {"IDLE", "TERMINATE"} -> 0
                       [] tx_state = "SEND_LO" -> Inc(byte_count)
                       [] OTHER -> byte_count
    /\ txb_dat' = <<txb, byte_count>>
    /\ line' = CASE tx_state = "SEND_LO" -> Append(line, <<txb_dat, "lo">>)
                 [] tx_state = "SEND_HI" -> Append(line, <<txb_dat, "hi">>)
                 [] OTHER -> <<>>
    /\ aired' = IF tx_state = "TERMINATE" THEN Append(aired, line) ELSE aired
    /\ phy_tx_count_r' \in Counts
    /\ ~tx_moving => phy_tx_count_r' = tx_count
    /\ phy_tx_count' = phy_tx_count_r
    /\ tx_moving' = FALSE
    /\ tx_start' = Sample(tx_start)
    /\ tx_done' = Toggle(tx_done, tx_state = "TERMINATE")
    /\ UNCHANGED <<ctlVars, ready, done, countVars, rx_moving, rxVars, txb, wireVars>>
=============================================================================
