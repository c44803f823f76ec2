------------------------------ MODULE RunLedger -----------------------------
(***************************************************************************)
(* What runs of the recorder promise to whoever collects its files, with   *)
(* no radio, switch, clock or steps of a program: a run adds its captures  *)
(* to the drive one at a time under names that are free, and takes none    *)
(* away.  Only a crash leaves a file unfinished, and no summary with it.   *)
(* Code 0 of a run nobody stopped means that all it was asked for is there *)
(* in full; files go to the archive only after code 0 or 1, the last thing *)
(* of a run.                                                               *)
(***************************************************************************)
EXTENDS Naturals, FiniteSets

VARIABLES
  phase,    \* "off" between runs; the run is "on"; it has "ended" with a code
  run,      \* number of runs begun
  wanted,   \* wanted[i]: captures step i was asked for; nothing before the start is recorded
  stopped,  \* somebody told the run to stop
  code,     \* exit code
  drive, archive,  \* capture files
  sealed    \* the runs with a summary

vars == <<phase, run, wanted, stopped, code, drive, archive, sealed>>

Name(f) == <<f.dir, f.prefix, f.stamp>>

Init == /\ phase = "off" /\ run = 0
        /\ wanted = <<>> /\ stopped = FALSE /\ code = "none"
        /\ drive = {} /\ archive = {} /\ sealed = {}

Begin == /\ phase = "off"
         /\ phase' = "on" /\ run' = run + 1
         /\ UNCHANGED <<wanted, stopped, code, drive, archive, sealed>>

\* RUN_START: so many captures of each step, at least one.
Announce == /\ phase = "on" /\ wanted = <<>>
            /\ \A i \in DOMAIN wanted' : i \in Nat /\ wanted'[i] \in Nat \ {0}
            /\ UNCHANGED <<phase, run, stopped, code, drive, archive, sealed>>

Stop == /\ phase = "on"
        /\ stopped' = TRUE
        /\ UNCHANGED <<phase, run, wanted, code, drive, archive, sealed>>

\* A file of this run under a free name.
AddFile(f) == /\ drive' = drive \cup {f}
              /\ f.run = run
              /\ \A g \in drive : Name(g) # Name(f)

\* A capture of a step that was announced.
Record == /\ phase = "on"
          /\ \E f \in drive' : AddFile(f) /\ f.step \in DOMAIN wanted /\ f.closed
          /\ UNCHANGED <<phase, run, wanted, stopped, code, archive, sealed>>

InFull == \A i \in DOMAIN wanted :
             Cardinality({f \in drive : f.run = run /\ f.step = i /\ f.whole}) = wanted[i]

Conclude == /\ phase = "on"
            /\ phase' = "ended"
            /\ code' \in {"0", "1", "2"}
            /\ sealed' \in {sealed, sealed \cup {run}}
            /\ code' = "0" /\ ~ stopped => InFull
            /\ UNCHANGED <<run, wanted, stopped, drive, archive>>

Over == phase' = "off" /\ wanted' = <<>> /\ stopped' = FALSE /\ code' = "none"

Carry == /\ phase = "ended" /\ code \in {"0", "1"}
         /\ Over
         /\ drive' \subseteq drive
         /\ LET moved == drive \ drive' IN
            archive' = {a \in archive : \A f \in moved : Name(a) # Name(f)} \cup moved
         /\ UNCHANGED <<run, sealed>>

\* The run is gone, by itself or by a crash, which may leave an unfinished file.
Vanish == /\ phase # "off"
          /\ Over
          /\ \/ UNCHANGED drive
             \/ phase = "on" /\ \E f \in drive' : AddFile(f) /\ ~ f.closed /\ ~ f.whole
          /\ UNCHANGED <<run, archive, sealed>>

Next == Begin \/ Announce \/ Stop \/ Record \/ Conclude \/ Carry \/ Vanish

Spec == Init /\ [][Next]_vars

=============================================================================
