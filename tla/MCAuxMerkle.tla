----------------------------- MODULE MCAuxMerkle -----------------------------
(* Model of the aux merkle tree for TLC: five distinct aux hashes, so that *)
(* trees of one to five leaves occur, with 0, 1, 2 and 3 padded leaves     *)
(* and trees of depth 1, 2 and 3.                                          *)
EXTENDS AuxPow

CONSTANTS a1, a2, a3, a4, a5, t1, ph, hd

MCLeaf == {a1, a2, a3, a4, a5}

\* Parent coinbase branches of length 0 to 2 (the hashes are opaque).
MCTxHash == {t1}

\* Each aux hash comes from a different chain; distinct chain IDs.
MCChainID == [l \in MCLeaf |-> CASE l = a1 -> 98 [] l = a2 -> 1 [] l = a3 -> 16
                                [] l = a4 -> 2 [] OTHER -> 7]
=============================================================================
