---------------------------- MODULE ShareValidator ----------------------------
(***************************************************************************)
(* validateAndWeighShare (src/pool/share.go): one header hash compared     *)
(* against the pool target, the primary network target and the target of  *)
(* every aux block. Hashes and targets are natural numbers ordered as the *)
(* big.Int comparisons order them; the pool target is the value           *)
(* TargetFromDifficulty(poolDifficulty / ShareMultiplier) produces.        *)
(***************************************************************************)
EXTENDS Naturals, Sequences, SequencesExt

CONSTANT NoHash     \* the Hash "" of an aux block slot that holds no block

shareInvalid == "shareInvalid"
shareValid == "shareValid"
blockCandidate == "blockCandidate"

\* The aux slots (1-based) with a block whose target the hash meets, in
\* slot order, as the range loop appends them.
AuxChainsMetTargets(primarySum, auxBlocks) ==
    SetToSortSeq({i \in DOMAIN auxBlocks :
                      /\ auxBlocks[i].hash # NoHash
                      /\ primarySum <= auxBlocks[i].target}, <)

validateAndWeighShare(primarySum, poolTarget, primaryTarget, auxBlocks) ==
    IF primarySum > poolTarget
    THEN [status |-> shareInvalid, primaryMeetsTarget |-> FALSE,
          auxChainsMetTargets |-> <<>>]
    ELSE LET met == AuxChainsMetTargets(primarySum, auxBlocks)
             primaryMeets == primarySum <= primaryTarget
         IN [status |-> IF primaryMeets \/ met # <<>> THEN blockCandidate
                                                      ELSE shareValid,
             primaryMeetsTarget |-> primaryMeets,
             auxChainsMetTargets |-> met]
=============================================================================
