----------------------------- MODULE UsrpSession ----------------------------
(***************************************************************************)
(* The device session of a run (DataCollection/src/device/usrp_session.cpp *)
(* and rf_control.cpp): how far the set-up of the radio has come.  Every   *)
(* step can throw, which the driver turns into a fatal end of the run.     *)
(* UHD is external: its calls succeed or fail.                             *)
(***************************************************************************)
EXTENDS Integers, Sequences

VARIABLE dev     \* open, rate, ref, stream: done or not; lo: channels seen locked

NoDevice == [open |-> FALSE, rate |-> FALSE, ref |-> FALSE, stream |-> FALSE, lo |-> 0]

\* multi_usrp::make, the subdevices and the master clock.
OpenDevice(channels) == channels # <<>> /\ dev' = [dev EXCEPT !.open = TRUE]

\* The rate is set on every channel and read back on the first; the device
\* gives all its channels one rate.
SetRate == dev' = [dev EXCEPT !.rate = TRUE]

External(clkRef) == clkRef \notin {"", "internal"}

\* ref_locked is waited for only with an external reference.
LockReference(clkRef) == dev' = [dev EXCEPT !.ref = External(clkRef)]

\* The time anchor and the streamer, made once for all captures.
MakeStreamer == dev' = [dev EXCEPT !.stream = TRUE]

LockLO_OffByOne(channels) == dev.lo <= Len(channels) /\ dev' = [dev EXCEPT !.lo = @ + 1]

\* wait_lo_locked of the next channel: its sensor says locked, or it has none.
LockLO(channels) == dev.lo < Len(channels) /\ dev' = [dev EXCEPT !.lo = @ + 1]

LoLocked_First(channels) == channels = <<>> \/ dev.lo > 0

LoLocked(channels) == dev.lo = Len(channels)

\* What a capture may rely on.
Ready(channels, clkRef) ==
    /\ dev.open /\ dev.rate /\ dev.stream
    /\ External(clkRef) => dev.ref
    /\ channels # <<>> /\ dev.lo = Len(channels)
=============================================================================
