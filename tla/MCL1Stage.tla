------------------------------ MODULE MCL1Stage -----------------------------
(***************************************************************************)
(* L1Stage on small instances: two names, one of which is in two session   *)
(* folders; and two captures of one session.                               *)
(***************************************************************************)
EXTENDS L1Stage

MCCapture == {<<"b1", "s1">>, <<"b1", "s2">>, <<"b2", "s1">>}

MCOneSession == {<<"b1", "s1">>, <<"b2", "s1">>}

\* Bound: the raw files of all captures but one are in the data directory in full
\* from the start (files only arrive, so that this restricts the initial states).
MCInit == Init /\ Cardinality({c \in Capture : level[c] < 2}) <= 1

MCSpec == MCInit /\ [][Next]_vars

MCFairSpec == MCSpec /\ Fairness

=============================================================================
