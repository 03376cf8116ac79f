---------------------------- MODULE MCTelemetry ----------------------------
(***************************************************************************)
(* Values of the signals for TLC.                                          *)
(***************************************************************************)
EXTENDS Telemetry

\* One of the fields lowest, halfway or highest, the others all lowest or all
\* highest.
Raws_MC ==
    UNION { { [f \in Fields |-> IF f = g THEN r ELSE IF high THEN Top(f) ELSE 0] :
                high \in BOOLEAN, r \in {0, Top(g) \div 2, Top(g)} } : g \in Fields }
============================================================================
