------------------------------ MODULE MCL2Chain -----------------------------
(***************************************************************************)
(* Instance of L2Chain with three captures, so that one can be appended to *)
(* a CSV whose last line has no end: one is in it when it is made, one is  *)
(* appended by a killed run, one by the next.  Of states that differ only  *)
(* in the order of the captures, or in the names of the knobs, it begins   *)
(* with one; the third capture arrives later, and a CSV of an earlier      *)
(* version, if there is one, has all captures.                             *)
(***************************************************************************)
EXTENDS L2Chain

CONSTANTS c1, c2, c3

MCCapture == {c1, c2, c3}

Rank(c) == <<l1[c] = "good", assoc[c] \in Assoc>>

\* Lexicographic order.
Before(p, q) == \E i \in 1 .. 2 : p[i] /\ ~ q[i] /\ \A j \in 1 .. i - 1 : p[j] = q[j]

Ordered == ~ Before(Rank(c2), Rank(c1)) /\ ~ Before(Rank(c3), Rank(c2))

MCInit ==
    /\ Init
    /\ Ordered /\ l1[c3] = "none"
    /\ InCsv(l2) \in {{}, Good}
    /\ conf.knobs = 1

MCSpec == MCInit /\ [][Next]_vars /\ Fairness
=============================================================================
