------------------------------ MODULE ByteStream ------------------------------
(***************************************************************************)
(* What the transmit half of the UART promises its caller: a stream of     *)
(* characters, the n-th of which is the number n, delivered once and in    *)
(* order; when the sender outruns the receiver the stream forgets the last *)
(* Burst characters it had accepted and the one being accepted, never one  *)
(* that is further ahead.                                                  *)
(***************************************************************************)
EXTENDS Naturals, Sequences

CONSTANT Burst              \* how many accepted characters an overflow takes with it

VARIABLES accepted, queue, out, lost

streamVars == <<accepted, queue, out, lost>>

StreamInit == accepted = 0 /\ queue = <<>> /\ out = <<>> /\ lost = {}

Accept ==
    /\ accepted' = accepted + 1
    /\ queue' = Append(queue, accepted')
    /\ UNCHANGED <<out, lost>>

Overflow ==
    LET kept == Len(queue) - Burst IN
    /\ kept >= 0
    /\ accepted' = accepted + 1
    /\ queue' = SubSeq(queue, 1, kept)
    /\ lost' = lost \cup {queue[i] : i \in kept+1..Len(queue)} \cup {accepted'}
    /\ UNCHANGED out

Deliver ==
    /\ queue # <<>>
    /\ out' = Append(out, Head(queue))
    /\ queue' = Tail(queue)
    /\ UNCHANGED <<accepted, lost>>

StreamNext == Accept \/ Overflow \/ Deliver

(* What is waiting is delivered. *)
StreamSpec == StreamInit /\ [][StreamNext]_streamVars /\ WF_streamVars(Deliver)
=============================================================================
