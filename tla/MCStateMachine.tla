--------------------------- MODULE MCStateMachine ---------------------------
(***************************************************************************)
(* Instances of StateMachine for TLC.                                      *)
(***************************************************************************)
EXTENDS StateMachine

\* The INI file as shipped: current control disabled, 1000 rpm.
MCShipped == {[En_Is |-> FALSE, Idq |-> 0, n_max |-> 1000]}

\* An INI file edited to start with a current.
MCEdited == {[En_Is |-> TRUE, Idq |-> 5, n_max |-> 1000]}

\* Standing still; in the hysteresis band of the 1000 rpm limit; above every
\* limit, backwards.
MCSpeeds == {0, 950, -3100}

\* Standing still, above the limit.
MCFewSpeeds == {0, -1100}
=============================================================================
