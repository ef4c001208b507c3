------------------------------- MODULE AuxPow -------------------------------
(***************************************************************************)
(* The AuxPoW envelope a session sends to an aux daemon with the block it  *)
(* found (src/bitcoin/auxpow.go, MakeAuxPow, MakeAuxPowWithBranch and      *)
(* Serialize), built over the aux blocks and the marker of AuxMerkle.      *)
(*                                                                         *)
(* Serialize concatenates hex strings. The wire is kept as a sequence of   *)
(* tokens: a byte [b |-> n], or an opaque 32-byte hash or blob [h |-> x]   *)
(* (the parent coinbase, which carries the marker, the parent header hash, *)
(* the merkle hashes and the 80-byte parent header). ParseAuxPow reads the *)
(* wire back field by field the way an aux daemon unserialises a CAuxPow.  *)
(***************************************************************************)
EXTENDS AuxMerkle

CONSTANTS
    TxHash,         \* hashes of the parent block's other transactions
    MaxTxSteps,     \* bound on the length of the parent's merkleSteps
    ParentHash,     \* the parent block header hash
    ParentHeader,   \* the serialised 80-byte parent header
    ChainID         \* AuxBlock.ChainID: the chain ID of each aux block

\* The hex encoding of a field, as tokens.
Bytes(seq) == [k \in DOMAIN seq |-> [b |-> seq[k]]]
HexHashes(hs) == [k \in DOMAIN hs |-> [h |-> hs[k]]]

\* varUint (not under src/): Bitcoin's CompactSize, little-endian.
VarUint(n) ==
    IF n < 253 THEN <<n>>
    ELSE IF n < 2^16 THEN <<253>> \o Reverse(SubSeq(HexUint32(n), 3, 4))
    ELSE <<254>> \o Reverse(HexUint32(n))

\* makeAuxChainMerkleBranch: count "00", mask "00000000".
makeAuxChainMerkleBranch == [numberOfBranches |-> <<0>>, mask |-> <<0, 0, 0, 0>>]

\* makeAuxChainMerkleBranchFromBlock: the mask is "%08x" of MerkleIndex.
makeAuxChainMerkleBranchFromBlock(blk) ==
    IF Len(blk.merkleBranch) = 0 THEN makeAuxChainMerkleBranch
    ELSE [numberOfBranches |-> VarUint(Len(blk.merkleBranch)),
          mask |-> HexUint32(blk.merkleIndex)]

AuxMerkleBranchSerialize(am) == Bytes(am.numberOfBranches \o am.mask)

SerializeWithBranches(am, branches) ==
    Bytes(am.numberOfBranches) \o HexHashes(branches) \o Bytes(am.mask)

\* makeParentMerkleBranch and its Serialize: varUint(len), the items, and
\* the mask 00000000 (the coinbase is the leftmost leaf).
makeParentMerkleBranch(items) ==
    [length |-> Len(items), items |-> items, mask |-> <<0, 0, 0, 0>>]

ParentMerkleBranchSerialize(pm) ==
    Bytes(VarUint(pm.length)) \o HexHashes(pm.items) \o Bytes(pm.mask)

\* A parent block as BitcoinBlock holds it once its hash is set (MakeAuxPow
\* panics while hash is ""); its coinbase carries the marker.
ParentSteps == UNION {[1..n -> TxHash] : n \in 0..MaxTxSteps}

ParentWith(steps) ==
    [coinbase |-> <<"coinbase", marker>>, hash |-> ParentHash,
     merkleSteps |-> steps, header |-> ParentHeader]

Parents == {ParentWith(st) : st \in ParentSteps}

MakeAuxPow(parent) ==
    [parentCoinbase |-> parent.coinbase, parentHeaderHash |-> parent.hash,
     parentMerkleBranch |-> makeParentMerkleBranch(parent.merkleSteps),
     auxMerkleBranch |-> makeAuxChainMerkleBranch, auxMerkleBranches |-> <<>>,
     parentHeaderUnhashed |-> parent.header]

MakeAuxPowWithBranch(parent, blk) ==
    [MakeAuxPow(parent) EXCEPT
        !.auxMerkleBranch = makeAuxChainMerkleBranchFromBlock(blk),
        !.auxMerkleBranches = blk.merkleBranch]

\* Seeded fault: the branch hashes are dropped from the envelope.
SerializeAuxPowNoBranches(p) ==
    HexHashes(<<p.parentCoinbase, p.parentHeaderHash>>)
    \o ParentMerkleBranchSerialize(p.parentMerkleBranch)
    \o AuxMerkleBranchSerialize(p.auxMerkleBranch)
    \o HexHashes(<<p.parentHeaderUnhashed>>)

\* Serialize: coinbase, header hash, parent branch, aux branch, header.
SerializeAuxPow(p) ==
    LET aux == IF Len(p.auxMerkleBranches) > 0
               THEN SerializeWithBranches(p.auxMerkleBranch, p.auxMerkleBranches)
               ELSE AuxMerkleBranchSerialize(p.auxMerkleBranch)
    IN HexHashes(<<p.parentCoinbase, p.parentHeaderHash>>)
       \o ParentMerkleBranchSerialize(p.parentMerkleBranch)
       \o aux
       \o HexHashes(<<p.parentHeaderUnhashed>>)
-----------------------------------------------------------------------------
(* The aux daemon's reading of the wire (reference definitions).           *)

Fail == [ok |-> FALSE]

At(s, i) == IF i \in DOMAIN s THEN s[i] ELSE [none |-> 0]

IsByte(t) == DOMAIN t = {"b"}

IsHash(t) == DOMAIN t = {"h"}

\* The value of n little-endian bytes from position i.
RECURSIVE LEValue(_, _, _)
LEValue(s, i, n) == IF n = 0 THEN 0 ELSE s[i].b + 256 * LEValue(s, i + 1, n - 1)

ReadLE(s, i, n) ==
    IF \A k \in 0..(n - 1) : IsByte(At(s, i + k))
    THEN [ok |-> TRUE, next |-> i + n, val |-> LEValue(s, i, n)]
    ELSE Fail

ReadVarUint(s, i) ==
    IF ~IsByte(At(s, i)) THEN Fail
    ELSE CASE s[i].b < 253 -> [ok |-> TRUE, next |-> i + 1, val |-> s[i].b]
           [] s[i].b = 253 -> ReadLE(s, i + 1, 2)
           [] s[i].b = 254 -> ReadLE(s, i + 1, 4)
           [] OTHER        -> ReadLE(s, i + 1, 8)

ReadHashes(s, i, n) ==
    IF i + n - 1 <= Len(s) /\ \A k \in 0..(n - 1) : IsHash(s[i + k])
    THEN [ok |-> TRUE, next |-> i + n, val |-> [k \in 1..n |-> s[i + k - 1].h]]
    ELSE Fail

\* A merkle branch: varint count, the hashes, a uint32 side mask.
ReadBranch(s, i) ==
    LET n == ReadVarUint(s, i)
        hs == IF n.ok THEN ReadHashes(s, n.next, n.val) ELSE Fail
        m == IF hs.ok THEN ReadLE(s, hs.next, 4) ELSE Fail
    IN IF m.ok THEN [ok |-> TRUE, next |-> m.next,
                     val |-> [hashes |-> hs.val, index |-> m.val]]
       ELSE Fail

\* CAuxPow: coinbase tx, parent hash, coinbase branch, chain branch, header;
\* nothing may follow the header.
ParseAuxPow(s) ==
    LET head == ReadHashes(s, 1, 2)
        pb == IF head.ok THEN ReadBranch(s, 3) ELSE Fail
        ab == IF pb.ok THEN ReadBranch(s, pb.next) ELSE Fail
        hd == IF ab.ok THEN ReadHashes(s, ab.next, 1) ELSE Fail
    IN IF hd.ok /\ hd.next = Len(s) + 1
       THEN [ok |-> TRUE, coinbase |-> head.val[1], hash |-> head.val[2],
             parentBranch |-> pb.val, auxBranch |-> ab.val, header |-> hd.val[1]]
       ELSE Fail

\* Every AuxPoW envelope the pool can submit for an aux block of the
\* current template (MakeAuxPowWithBranch, and MakeAuxPow without a branch)
\* reads back as it was built: the daemon finds the parent coinbase, hash
\* and header, the coinbase branch with side mask 0, and exactly the aux
\* block's merkle siblings, the counts written by varUint delimiting the
\* hashes that follow them; an empty aux branch carries index 0 (spec 4.5).
AuxPowParsesBack ==
    \A par \in Parents :
        \A env \in {MakeAuxPow(par)}
                   \cup {MakeAuxPowWithBranch(par, auxBlocks[i]) : i \in DOMAIN auxBlocks} :
            LET rd == ParseAuxPow(SerializeAuxPow(env)) IN
            /\ rd.ok
            /\ rd.coinbase = par.coinbase
            /\ rd.hash = par.hash
            /\ rd.header = par.header
            /\ rd.parentBranch = [hashes |-> par.merkleSteps, index |-> 0]
            /\ rd.auxBranch.hashes = env.auxMerkleBranches
            /\ env.auxMerkleBranches = <<>> => rd.auxBranch.index = 0

-----------------------------------------------------------------------------
(* The aux daemon's acceptance rule for an AuxPoW (CAuxPow::check of the   *)
(* Namecoin-derived daemons), composed with the tree, the marker and the   *)
(* envelope above. The parent-side check (the coinbase folded through the  *)
(* parent branch gives the header's merkle root) is left out: the header   *)
(* is opaque here, and the parent branch is read back by AuxPowParsesBack. *)

\* getExpectedIndex: rand = nonce*1103515245 + 12345; rand += chainId;
\* rand = rand*1103515245 + 12345; rand % (1 << h), all in uint32. The
\* result mod 2^h depends only on the operands mod 2^h, so the wrapping
\* arithmetic is done mod 2^15 (h <= 15), within TLC's integers.
AuxDaemonExpectedIndex(nonce, chainId, h) ==
    LET M  == 2^15
        A  == 1103515245 % M
        r1 == ((nonce % M) * A + 12345) % M
        r2 == (((r1 + chainId) % M) * A + 12345) % M
    IN r2 % 2^h

\* The daemon accepts wire as the AuxPoW of aux block blk when the parent
\* coinbase is the first leaf (index 0), the aux hash folded through the
\* aux branch with its side mask is the root the marker carries, the
\* marker's little-endian size is 2^(branch length), and the branch index
\* is the slot the marker's nonce and the chain ID assign to this chain.
AuxDaemonAccepts(wire, blk) ==
    LET rd == ParseAuxPow(wire)
        mm == rd.coinbase[2]
        h  == Len(rd.auxBranch.hashes)
    IN /\ rd.ok
       /\ rd.parentBranch.index = 0
       /\ mm # NoMarker
       /\ FoldPath(blk.hash, rd.auxBranch.hashes, rd.auxBranch.index) = mm.root
       /\ Len(mm.size) = 4
       /\ DecodeLE(mm.size) = 2^h
       /\ AuxDaemonExpectedIndex(DecodeLE(mm.nonce), ChainID[blk.hash], h)
             = rd.auxBranch.index

\* The AuxPoW the pool would submit for aux block i of the template over a
\* parent whose coinbase carries the current marker.
SubmittedAuxPow(par, i) == SerializeAuxPow(MakeAuxPowWithBranch(par, auxBlocks[i]))

\* Spec 4.4: the tree exists for compatibility with the aux daemons' check.
\* Whenever the coinbase carries a marker, every aux block of the current
\* template, submitted in the AuxPoW the pool builds over that parent,
\* passes that check: the marker size and the branch mask (both read
\* little-endian, spec 4.3 and 4.5) and the slot of each chain must agree
\* with the tree fetchRpcBlockTemplatesAndCacheWork built.
AuxPowAcceptedByAuxDaemon ==
    marker # NoMarker =>
    \A i \in DOMAIN auxBlocks, st \in ParentSteps :
        AuxDaemonAccepts(SubmittedAuxPow(ParentWith(st), i), auxBlocks[i])
=============================================================================
