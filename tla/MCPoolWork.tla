----------------------------- MODULE MCPoolWork -----------------------------
(* Sessions c1, c2, a primary and up to two aux chains, two template refreshes and  *)
(* one outside block per chain. Hashes 0..3 against targets primary 0,     *)
(* aux 1, pool 2: hash 0 is a primary and double aux candidate, 1 an aux   *)
(* candidate, 2 a plain share and 3 invalid.                               *)
EXTENDS PoolWork, TLC

CONSTANTS c1, c2

\* Chain names as BlockChainOrder holds them; namecoin is a merge-mined
\* chain GetChain does not know.
p == "litecoin"
x == "bellscoin"
y == "pepecoin"
z == "namecoin"

MCAuxChains == <<x, y>>
MCOneAux == <<x>>
MCUnknownAux == <<z>>
MCOneClient == {c1}
MCHash == 0..3
MCTarget == (p :> 0) @@ (x :> 1) @@ (y :> 1) @@ (z :> 1)
\* An aux chain whose network target is easier than the pool target.
MCEasyAuxTarget == (p :> 0) @@ (x :> 3) @@ (y :> 1) @@ (z :> 1)
=============================================================================
