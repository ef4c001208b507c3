------------------------------ MODULE AuxMerkle ------------------------------
(***************************************************************************)
(* The auxiliary-chain merkle tree (src/bitcoin/auxmerkle.go), the merged- *)
(* mining marker written into the primary coinbase (src/bitcoin/auxpow.go, *)
(* GetWork / GetWorkWithMerkleRoot) and the aux merkle branch of the AuxPoW *)
(* envelope (MakeAuxPowWithBranch), as rebuilt by the template refresher   *)
(* (fetchRpcBlockTemplatesAndCacheWork, src/pool/work.go lines 33-50).      *)
(*                                                                         *)
(* Hashes are abstract: a leaf is a model value and double-SHA256 of two   *)
(* concatenated hashes is the collision-free term CombineHashes(l, r).     *)
(* Four-byte fields are kept as byte sequences, so the byte order the code *)
(* writes them in is visible.                                              *)
(***************************************************************************)
EXTENDS Naturals, Sequences, SequencesExt, Bitwise

CONSTANTS
    Leaf,       \* aux block hashes returned by createauxblock
    MaxAux,     \* bound on the number of aux chains in one template
    NoRoot,     \* the empty root "" of a tree over no aux blocks
    NoMarker    \* no merged-mining marker (no aux block this round)

VARIABLES
    auxBlocks,  \* p.templates.AuxBlocks: hash, MerkleIndex, MerkleBranch
    marker      \* the merged-mining bytes appended to BlockSignature

vars == <<auxBlocks, marker>>

\* combineHashes: double-SHA256 over left||right, as a free constructor.
CombineHashes(l, r) == <<"dsha256", l, r>>

\* fmt.Sprintf("%08x", n) turned into bytes by hexStringToByteString:
\* most significant byte first.
HexUint32(n) == <<(n \div 2^24) % 256, (n \div 2^16) % 256,
                  (n \div 2^8) % 256, n % 256>>

isPowerOfTwo(n) == n > 0 /\ (n & (n - 1)) = 0

\* The loop "for nextPowerOfTwo < length { nextPowerOfTwo <<= 1 }".
RECURSIVE NextPowerOfTwo(_, _)
NextPowerOfTwo(p, length) ==
    IF p < length THEN NextPowerOfTwo(2 * p, length) ELSE p

\* Seeded fault: the padding repeats the first hash instead of the last.
padWithFirstHash(hashes) ==
    LET n == Len(hashes) IN
    IF isPowerOfTwo(n) THEN hashes
    ELSE [i \in 1..NextPowerOfTwo(1, n) |-> IF i <= n THEN hashes[i]
                                                      ELSE hashes[1]]

padToNextPowerOfTwo(hashes) ==
    LET n == Len(hashes) IN
    IF isPowerOfTwo(n) THEN hashes
    ELSE [i \in 1..NextPowerOfTwo(1, n) |-> IF i <= n THEN hashes[i]
                                                      ELSE hashes[n]]

\* One iteration of the level loop: pairs (i, i+1) combined left to right.
NextLevel(level) ==
    [j \in 1..(Len(level) \div 2) |-> CombineHashes(level[2*j - 1], level[2*j])]

RECURSIVE RootOfLevel(_)
RootOfLevel(level) ==
    IF Len(level) > 1 THEN RootOfLevel(NextLevel(level)) ELSE level[1]

buildMerkleRoot(hashes) ==
    IF Len(hashes) = 0 THEN NoRoot ELSE RootOfLevel(hashes)

\* Seeded fault: the sibling taken at cur + 1 instead of cur XOR 1.
RECURSIVE SiblingsPlusOne(_, _)
SiblingsPlusOne(cur, level) ==
    IF Len(level) > 1
    THEN (IF cur + 1 < Len(level) THEN <<level[cur + 2]>> ELSE <<>>)
            \o SiblingsPlusOne(cur \div 2, NextLevel(level))
    ELSE <<>>

\* Siblings collected from index cur (0-based) upwards: siblingIndex =
\* cur XOR 1, kept when it lies inside the level, then cur halves.
RECURSIVE Siblings(_, _)
Siblings(cur, level) ==
    IF Len(level) > 1
    THEN (IF (cur ^^ 1) < Len(level) THEN <<level[(cur ^^ 1) + 1]>> ELSE <<>>)
            \o Siblings(cur \div 2, NextLevel(level))
    ELSE <<>>

generateMerklePath(index, hashes) ==
    [index |-> index, siblings |-> Siblings(index, hashes)]

\* BuildAuxChainMerkleTree; Branches is keyed 0..N-1 as the Go map is.
BuildAuxChainMerkleTree(hashes) ==
    LET n == Len(hashes) IN
    IF n = 0 THEN [root |-> NoRoot, size |-> 0, branches |-> <<>>]
    ELSE IF n = 1
    THEN [root |-> hashes[1], size |-> 1,
          branches |-> (0 :> [index |-> 0, siblings |-> <<>>])]
    ELSE LET padded == padToNextPowerOfTwo(hashes) IN
         [root |-> buildMerkleRoot(padded), size |-> n,
          branches |-> [i \in 0..(n - 1) |-> generateMerklePath(i, padded)]]

\* GetWork: magic, the single aux hash, then trailer 01000000 00000000 ...
GetWork(hash) ==
    [root |-> hash, size |-> <<1, 0, 0, 0>>, nonce |-> <<0, 0, 0, 0>>]

\* Seeded fault: the size formatted "%010x", five bytes instead of four.
GetWorkWithMerkleRootWide(root, size) ==
    [root |-> root, size |-> <<0>> \o HexUint32(size), nonce |-> <<0, 0, 0, 0>>]

\* GetWorkWithMerkleRoot: magic, root, "%08x" of the size, 00000000 ...
GetWorkWithMerkleRoot(root, size) ==
    [root |-> root, size |-> HexUint32(size), nonce |-> <<0, 0, 0, 0>>]

\* Lines 33-50 of fetchRpcBlockTemplatesAndCacheWork for a fetched list
\* of aux hashes: build the tree, copy each leaf's path into its aux block,
\* and write the marker (GetWork for one aux block, the root otherwise).
\* With no aux block the marker is absent and AuxBlocks is left as it was.
RebuildAuxWork(hashes) ==
    LET tree == BuildAuxChainMerkleTree(hashes) IN
    IF Len(hashes) > 0
    THEN /\ auxBlocks' = [i \in 1..Len(hashes) |->
                            [hash |-> hashes[i],
                             merkleIndex |-> tree.branches[i - 1].index,
                             merkleBranch |-> tree.branches[i - 1].siblings]]
         /\ marker' = IF Len(hashes) = 1
                      THEN GetWork(hashes[1])
                      ELSE GetWorkWithMerkleRoot(tree.root, tree.size)
    ELSE /\ marker' = NoMarker
         /\ UNCHANGED auxBlocks

\* The aux hash lists createauxblock can return: distinct hashes, one per
\* chain that answered, at most MaxAux of them.
AuxHashLists ==
    UNION {{s \in [1..n -> Leaf] : IsInjective(s)} : n \in 0..MaxAux}

Init ==
    /\ auxBlocks = <<>>
    /\ marker = NoMarker

Next == \E hashes \in AuxHashLists : RebuildAuxWork(hashes)

Spec == Init /\ [][Next]_vars

-----------------------------------------------------------------------------
(* Reference definitions the daemon side uses, and the properties.         *)

Uint32LE(n) == Reverse(HexUint32(n))

DecodeLE(b) == b[1] + 256 * b[2] + 2^16 * b[3] + 2^24 * b[4]

DecodeBE(b) == DecodeLE(Reverse(b))

\* Fold a leaf up its path, taking the side from the low bit of the index:
\* the check the aux daemon applies to an AuxPoW branch.
RECURSIVE FoldPath(_, _, _)
FoldPath(h, sibs, idx) ==
    IF sibs = <<>> THEN h
    ELSE FoldPath(IF idx % 2 = 0 THEN CombineHashes(h, Head(sibs))
                                 ELSE CombineHashes(Head(sibs), h),
                  Tail(sibs), idx \div 2)

\* Reference merkle root: split the (power-of-two) list in halves.
RECURSIVE RefRoot(_)
RefRoot(s) ==
    IF Len(s) = 1 THEN s[1]
    ELSE LET h == Len(s) \div 2 IN
         CombineHashes(RefRoot(SubSeq(s, 1, h)), RefRoot(SubSeq(s, h + 1, Len(s))))

\* Reference padding: repeat the last hash up to the next power of two.
RefPad(s) ==
    LET p == CHOOSE q \in {2^k : k \in 0..Len(s)} : q >= Len(s) /\ q < 2 * Len(s)
    IN s \o [i \in 1..(p - Len(s)) |-> s[Len(s)]]

Hashes == [i \in DOMAIN auxBlocks |-> auxBlocks[i].hash]

TypeOK ==
    /\ \A i \in DOMAIN auxBlocks :
          /\ auxBlocks[i].hash \in Leaf
          /\ auxBlocks[i].merkleIndex \in 0..(MaxAux - 1)
    /\ marker = NoMarker \/ marker.size \in [1..4 -> 0..255]

\* Every aux block's branch, folded from its hash with its MerkleIndex,
\* reproduces the root carried by the coinbase marker (generateMerklePath
\* against buildMerkleRoot, including the padded leaves).
BranchesReproduceRoot ==
    marker # NoMarker =>
        \A i \in DOMAIN auxBlocks :
            FoldPath(auxBlocks[i].hash, auxBlocks[i].merkleBranch,
                     auxBlocks[i].merkleIndex) = marker.root

\* The root the marker carries is the merkle root over the aux hashes padded
\* by repeating the last one (spec 4.4), computed by halving.
RootMatchesReference ==
    marker # NoMarker => marker.root = RefRoot(RefPad(Hashes))

\* The number written in the marker's size field is the number of leaves of
\* the tree the branches were built over (2^depth), as the AuxPoW check of
\* the aux daemons requires; for two or more aux blocks the code passes
\* tree.Size to GetWorkWithMerkleRoot (read back in the order it writes).
MarkerSizeIsPaddedSize ==
    marker # NoMarker /\ Len(auxBlocks) >= 2 =>
        DecodeBE(marker.size) = 2^Len(auxBlocks[1].merkleBranch)

=============================================================================
