------------------------------ MODULE DatWriter -----------------------------
(***************************************************************************)
(* The per-channel .dat file sink with chunk rotation                      *)
(* (DataCollection/src/common/dat_writer.cpp).  One writer serves one      *)
(* capture: all the channels' files of a chunk are opened together,        *)
(* written channel by channel, and closed together.                        *)
(*                                                                         *)
(* Sizes are in samples.  A file that is open may be longer than what was  *)
(* written to it, because open_file reserves the planned size; close_file  *)
(* trims it back to written_.                                              *)
(***************************************************************************)
EXTENDS Naturals, FiniteSets

CONSTANTS NChan,       \* number of receive channels
          PlanSamps,   \* samples reserved for each file when it is opened
          TrimMayFail  \* TRUE iff ftruncate may fail when a file is closed

ASSUME DatAssumption == /\ NChan \in Nat \ {0}
                        /\ PlanSamps \in Nat
                        /\ TrimMayFail \in BOOLEAN

Chan == 0 .. NChan - 1

VARIABLES seq,      \* index of the current chunk (seq_)
          open,     \* TRUE iff the current chunk is open (open_)
          fd,       \* channels whose file is open (fd_ >= 0)
          written,  \* samples written to the channel's current file (written_)
          size,     \* length of the channel's current file on disk
          closed    \* total length of the channel's closed files of this capture

datVars == <<seq, open, fd, written, size, closed>>

DatTypeOK == /\ seq \in Nat
             /\ open \in BOOLEAN
             /\ fd \subseteq Chan
             /\ written \in [Chan -> Nat]
             /\ size \in [Chan -> Nat]
             /\ closed \in [Chan -> Nat]

Zero == [c \in Chan |-> 0]

DatInit == /\ seq = 0
           /\ open = FALSE
           /\ fd = {}
           /\ written = Zero
           /\ size = Zero
           /\ closed = Zero

\* The constructor of the next capture's writer.
DatReset == /\ seq' = 0
            /\ open' = FALSE
            /\ fd' = {}
            /\ written' = Zero
            /\ size' = Zero
            /\ closed' = Zero

Larger(a, b) == IF a >= b THEN a ELSE b

-----------------------------------------------------------------------------

(* An operator whose name has a suffix after "_" is a mutated form of the     *)
(* operator that follows it: a plausible bug, which a property must find.     *)

TrimmedLength_Reserved(c) == size[c]

\* The length ftruncate leaves a file with.
TrimmedLength(c) == written[c]

\* The channels whose ftruncate fails, when the files of chans are closed.
TrimFailures(chans) == IF TrimMayFail THEN SUBSET chans ELSE {{}}

\* close_file on every channel with an open file.
CloseFiles == \E untrimmed \in TrimFailures(fd) :
                /\ closed' = [c \in Chan |->
                                IF c \in untrimmed THEN closed[c] + size[c]
                                ELSE IF c \in fd THEN closed[c] + TrimmedLength(c)
                                ELSE closed[c]]
                /\ fd' = {}

\* open_chunk succeeds; fallocate, whose failure is tolerated, has extended a
\* file to the planned size or not.
OpenChunk == /\ open' = TRUE
             /\ fd' = Chan
             /\ written' = Zero
             /\ size' \in [Chan -> {0, PlanSamps}]
             /\ UNCHANGED <<seq, closed>>

\* open_chunk fails at channel i: the files already opened for this chunk,
\* still empty but maybe reserved, are closed again.  The ftruncate to 0 of
\* the roll-back may fail as the others do.
OpenChunkFails(i) ==
    /\ open' = FALSE
    /\ fd' = {}
    /\ written' = [c \in Chan |-> IF c <= i THEN 0 ELSE written[c]]
    /\ UNCHANGED <<seq, size>>
    /\ \E untrimmed \in TrimFailures({c \in Chan : c < i}) :
         closed' = [c \in Chan |-> IF c \in untrimmed THEN closed[c] + PlanSamps ELSE closed[c]]

WriteCh(c, m) == /\ open
                 /\ written' = [written EXCEPT ![c] = @ + m]
                 /\ size' = [size EXCEPT ![c] = Larger(@, written[c] + m)]
                 /\ UNCHANGED <<seq, open, fd, closed>>

\* write_block fails after some of the samples reached the file: written_ is
\* not advanced.
WriteChFails(c, m) == /\ open
                      /\ \E some \in 0 .. m : size' = [size EXCEPT ![c] = Larger(@, written[c] + some)]
                      /\ UNCHANGED <<seq, open, fd, written, closed>>

NextChunk == /\ CloseFiles
             /\ open' = FALSE
             /\ seq' = seq + 1
             /\ UNCHANGED <<written, size>>

\* close(), and the destructor, which calls it.
Close == IF open
         THEN /\ CloseFiles
              /\ open' = FALSE
              /\ UNCHANGED <<seq, written, size>>
         ELSE UNCHANGED datVars

=============================================================================
