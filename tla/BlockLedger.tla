----------------------------- MODULE BlockLedger -----------------------------
(***************************************************************************)
(* What the indexer promises about the blocks, whatever it does inside:    *)
(* heights are handed to indexing without leaving a gap, the header of a   *)
(* height is stored at most once and only after the height was handed out, *)
(* and the stored pointer, where a restart resumes, never points past a    *)
(* height that was not handed out. It promises neither that a height       *)
(* handed out is stored (errors are swallowed) nor that the pointer only   *)
(* moves forward.                                                          *)
(***************************************************************************)
EXTENDS Integers

CONSTANTS GenesisHeight, MaxHeight

VARIABLES
    claimed,  \* heights handed to indexing so far
    stored,   \* heights whose header is stored
    pointer   \* the stored nextBlockToSync; -1 before the first boot creates it

ledgerVars == <<claimed, stored, pointer>>

Heights == GenesisHeight .. MaxHeight

\* Every height below h has been handed out.
Reached(h) == GenesisHeight .. h - 1 \subseteq claimed

Init == claimed = {} /\ stored = {} /\ pointer = -1

\* A batch is handed out; it starts no later than where the earlier ones end.
Claim(first, last) ==
    /\ Reached(first)
    /\ claimed' = claimed \cup (first .. last)
    /\ UNCHANGED <<stored, pointer>>

\* The headers of a batch are stored together, each for the first time.
Store(first, last) ==
    /\ first .. last \subseteq claimed
    /\ first .. last \cap stored = {}
    /\ stored' = stored \cup (first .. last)
    /\ UNCHANGED <<claimed, pointer>>

Point(h) ==
    /\ Reached(h)
    /\ pointer' = h
    /\ UNCHANGED <<claimed, stored>>

Next == \/ \E first, last \in Heights : Claim(first, last) \/ Store(first, last)
        \/ \E h \in GenesisHeight .. MaxHeight + 1 : Point(h)

Spec == Init /\ [][Next]_ledgerVars
=============================================================================
