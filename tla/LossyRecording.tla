---------------------------- MODULE LossyRecording --------------------------
(***************************************************************************)
(* What a run of captures promises to whoever reads the files, with no     *)
(* ring, no threads and no buffers: each capture is a stream of at most    *)
(* Target samples, of which some are lost and counted, and the kept ones   *)
(* reach every channel's files before the capture is finished, unless the  *)
(* disk has failed.  Nothing is saved that was not kept, and nothing of a  *)
(* capture is saved after it is finished.                                  *)
(***************************************************************************)
EXTENDS Naturals

CONSTANTS NChan, Target, SlotSamps

VARIABLES phase,  \* "between" captures, "capturing", or the run is "over"
          got,    \* samples of this capture received from the radio
          kept,   \* those of them that were kept
          lost,   \* samples lost since the run began
          saved,  \* samples of this capture in each channel's files
          fault   \* the disk has failed

vars == <<phase, got, kept, lost, saved, fault>>

Channels == 0 .. NChan - 1

Nothing == [c \in Channels |-> 0]

Init == /\ phase = "between"
        /\ got = 0 /\ kept = 0 /\ lost = 0
        /\ saved = Nothing
        /\ fault = FALSE

Begin == /\ phase = "between" /\ ~ fault
         /\ phase' = "capturing"
         /\ got' = 0 /\ kept' = 0 /\ saved' = Nothing
         /\ UNCHANGED <<lost, fault>>

Keep(n) == /\ phase = "capturing" /\ got + n <= Target
           /\ got' = got + n /\ kept' = kept + n
           /\ UNCHANGED <<phase, lost, saved, fault>>

Lose(n) == /\ phase = "capturing" /\ got + n <= Target
           /\ got' = got + n /\ lost' = lost + n
           /\ UNCHANGED <<phase, kept, saved, fault>>

Save(c, n) == /\ phase = "capturing" /\ ~ fault
              /\ saved[c] + n <= kept
              /\ saved' = [saved EXCEPT ![c] = @ + n]
              /\ UNCHANGED <<phase, got, kept, lost, fault>>

DiskFails == /\ phase = "capturing"
             /\ fault' = TRUE
             /\ UNCHANGED <<phase, got, kept, lost, saved>>

\* The run goes on only if the disk has not failed, and the capture is then
\* complete on every channel as far as it was kept.
Finish == /\ phase = "capturing"
          /\ fault \/ \A c \in Channels : saved[c] = kept
          /\ phase' \in IF fault THEN {"over"} ELSE {"between", "over"}
          /\ UNCHANGED <<got, kept, lost, saved, fault>>

Stop == /\ phase = "between"
        /\ phase' = "over"
        /\ UNCHANGED <<got, kept, lost, saved, fault>>

Next == \/ Begin \/ DiskFails \/ Finish \/ Stop
        \/ \E n \in 1 .. SlotSamps : Keep(n) \/ Lose(n)
        \/ \E c \in Channels, n \in 1 .. SlotSamps : Save(c, n)

Spec == Init /\ [][Next]_vars

=============================================================================
