---------------------------- MODULE CaptureLedger ---------------------------
(***************************************************************************)
(* What the L1 stage promises to whoever reads its CSVs, with no runs that *)
(* stop half way, no batches and no files: a ledger with at most one       *)
(* verdict for each capture and method.  Only a capture that is there in   *)
(* full is accepted, and one that was there in full before the run began   *)
(* is never rejected.  A verdict stands, but for the accepted rows of a    *)
(* CSV of an earlier version, which may be lost once, when it is renewed.  *)
(***************************************************************************)
EXTENDS Naturals

CONSTANTS Capture, Method

VARIABLES full,     \* the captures whose files are there in full
          seen,     \* those of them that were when the run began
          verdict,  \* verdict[m][c]: what the rows of a method say of a capture
          current   \* the methods whose CSV is of this version

vars == <<full, seen, verdict, current>>

Verdict == {"none", "accepted", "rejected"}

Init == /\ full \subseteq Capture
        /\ seen = {}
        /\ verdict \in [Method -> [Capture -> {"none", "accepted"}]]
        /\ current \subseteq Method

\* The raw files of a capture are complete.
Complete(c) == /\ full' = full \cup {c}
               /\ UNCHANGED <<seen, verdict, current>>

Begin == /\ seen' = full
         /\ UNCHANGED <<full, verdict, current>>

End == /\ seen' = {}
       /\ UNCHANGED <<full, verdict, current>>

\* Nothing is said of the other methods; the run may end with it.
OnlyAbout(m) == /\ verdict' \in [Method -> [Capture -> Verdict]]
                /\ \A k \in Method \ {m} : verdict'[k] = verdict[k]
                /\ seen' \in {seen, {}}
                /\ UNCHANGED full

Judge(m) == /\ OnlyAbout(m)
            /\ \A c \in Capture : verdict'[m][c] # verdict[m][c] =>
                  /\ verdict[m][c] = "none"
                  /\ \/ verdict'[m][c] = "accepted" /\ c \in full
                     \/ verdict'[m][c] = "rejected" /\ c \notin seen
            /\ UNCHANGED current

Renew(m) == /\ m \notin current
            /\ current' = current \cup {m}
            /\ OnlyAbout(m)
            /\ \A c \in Capture : verdict'[m][c] # verdict[m][c] =>
                  verdict[m][c] = "accepted" /\ verdict'[m][c] = "none"

Next == \/ \E m \in Method : Judge(m) \/ Renew(m)
        \/ \E c \in Capture : Complete(c)
        \/ Begin \/ End

Spec == Init /\ [][Next]_vars

=============================================================================
