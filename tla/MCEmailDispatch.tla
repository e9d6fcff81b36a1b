--------------------------- MODULE MCEmailDispatch ---------------------------
(* An instance for TLC of two dispatchers with different batch limits. *)
EXTENDS EmailDispatch, TLC

CONSTANTS alice, d1, d2

MCRecipientOf == [n \in Notices |-> alice]

\* The second dispatcher sends one notice a message and releases the rest.
MCBatchLimit == (d1 :> 2) @@ (d2 :> 1)

\* Faults, and notices that change, are explored under the default guarantee.
MCChanging == [g \in Guarantees |-> IF g = "AT_MOST_ONCE" THEN {1} ELSE {}]
MCMaxEmailFaults == [g \in Guarantees |-> IF g = "AT_MOST_ONCE" THEN 1 ELSE 0]
=============================================================================
