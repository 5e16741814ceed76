--------------------------- MODULE MCPedcaDevice ---------------------------
(***************************************************************************)
(* Small devices for TLC.                                                  *)
(***************************************************************************)
EXTENDS PedcaDevice

CONSTANTS BE, VI, l0, l1

MCCwMin == [a \in ACs |-> 1]
MCCwMax == [a \in ACs |-> 3]
MCAifsn == [a \in ACs |-> IF a = VO THEN 2 ELSE 3]

\* AC_BE configured with one slot: it may be granted during a PIFS recovery.
MCAifsnOfOne == [a \in ACs |-> IF a = BE THEN 1 ELSE 2]
MCPrio == [a \in ACs |-> CASE a = VO -> 0 [] a = VI -> 1 [] OTHER -> 2]

\* AC_VO and AC_VI have TXOP limits by default, AC_BE and AC_BK do not.
MCTxopLimit == [a \in ACs |-> IF a = BE THEN 0 ELSE 3]
=============================================================================
