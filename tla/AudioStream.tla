----------------------------- MODULE AudioStream -----------------------------
(***************************************************************************)
(* What the double buffer of the PSP audio driver promises, with its       *)
(* threads, semaphores and interrupt flags left out.  There are two        *)
(* buffers.  They are handed to the hardware in turn, 1, 2, 1, ...: a      *)
(* buffer handed over waits until the hardware is free and takes it, or is *)
(* dropped when there is no channel to play it on.  The producer writes a  *)
(* block, or silence, only into the buffer handed over last, and starts    *)
(* only while that buffer is not the one playing.                          *)
(*                                                                         *)
(*   next    the buffer the next hand-over gives                           *)
(*   handed  the buffer handed over and not yet taken, 0 if none           *)
(*   play    the buffer the hardware is playing, 0 if none                 *)
(*   fill    the buffer the producer is writing, 0 if none                 *)
(***************************************************************************)
EXTENDS Naturals

VARIABLES next, handed, play, fill

vars == <<next, handed, play, fill>>

Buffers == {1, 2}

Other(b) == 3 - b

Init ==
    /\ next \in Buffers
    /\ handed = 0 /\ play = 0 /\ fill = 0

(* The consumer hands the next buffer over, and the turn passes.          *)
Hand ==
    /\ handed = 0
    /\ handed' = next
    /\ next' = Other(next)
    /\ UNCHANGED <<play, fill>>

(* The hardware, idle, takes the buffer handed over.                      *)
Take ==
    /\ handed # 0 /\ play = 0
    /\ play' = handed
    /\ handed' = 0
    /\ UNCHANGED <<next, fill>>

(* The hand-over fails: the buffer is not played.                         *)
Drop ==
    /\ handed # 0
    /\ handed' = 0
    /\ UNCHANGED <<next, play, fill>>

Finish ==
    /\ play # 0
    /\ play' = 0
    /\ UNCHANGED <<next, handed, fill>>

(* The producer starts writing the buffer handed over last, which must     *)
(* not be playing.                                                         *)
StartWrite ==
    /\ fill = 0
    /\ Other(next) # play
    /\ fill' = Other(next)
    /\ UNCHANGED <<next, handed, play>>

EndWrite ==
    /\ fill # 0
    /\ fill' = 0
    /\ UNCHANGED <<next, handed, play>>

Next == Hand \/ Take \/ Drop \/ Finish \/ StartWrite \/ EndWrite

Spec == Init /\ [][Next]_vars

=============================================================================
