# TLA+ models of the merged-mining pool core

This directory holds TLA+ models of the pool server core in `src/`. The models cover:

- the auxiliary-chain merkle tree;
- the merged-mining marker and the AuxPoW envelope;
- the chain registry;
- the share validator;
- the concurrent template refresher / session pipeline.

TLC checks them. `PROJECT.json` lists:

- the components;
- the runs with their expected outcome;
- the mutants that show each checked property can fail;
- the source lines every definition translates;
- the findings;
- the hazards of the code.

## The system

| Part | Source | State and operations |
|---|---|---|
| Pool server | `src/pool/server.go` | `PoolServer.templates` (primary `BitcoinBlock`, `AuxBlocks`), `shareBuffer`; `Start`, `fetchAllBlockTemplatesFromRPC`, `broadcastWork`/`notifyAllSessions` |
| Template refresher | `src/pool/work.go` `fetchRpcBlockTemplatesAndCacheWork` | fetches primary and aux templates (one retry after `CheckAndRecoverRPCs`), builds the aux merkle tree, writes `AuxBlocks` (line 50), builds the coinbase (`GenerateWork`) and writes `BitcoinBlock` (line 70) – both without the server lock |
| Session pipeline | `src/pool/work.go` `recieveWorkFromClient` | reads the templates unlocked, validates, appends the share under `p.Lock`, submits aux candidates then the primary candidate, each with one retry, and inserts a found-block record when the submit returned no error |
| Share validator | `src/pool/share.go` | `validateAndWeighShare`: pool target (early return), primary target, each aux target |
| Aux merkle tree | `src/bitcoin/auxmerkle.go` | pure: padding to a power of two by the last hash, root, per-leaf paths |
| Marker / AuxPoW | `src/bitcoin/auxpow.go` | pure: the coinbase marker (`GetWork`, `GetWorkWithMerkleRoot`) and the AuxPoW envelope |
| Chain registry | `src/bitcoin/chain.go`, `coins.go` | constant lookup table, no state: `GetChain` returns a coin type's capability record, and panics on an unknown name |
| Stats API | `src/api/enhanced_api.go` | HTTP handlers returning placeholders |

The interactions are as follows:

- The refresher runs on block notifications, concurrently with one goroutine per stratum session.
- Sessions read `p.templates` while the refresher rewrites it.
- Sessions call the coin daemons (`submitblock`, `getauxblock`) and persistence (`Blocks.Insert`).
- The daemons are the environment: their tips move when blocks are found elsewhere or by the pool.

## Modules

- **`AuxMerkle`** (`MCAuxMerkle`) models the tree, the marker and the AuxPoW aux branch as operators.
  - Hashes are model values, and `combineHashes` is the free term `<<"dsha256", l, r>>`.
  - Four-byte fields are byte sequences, so the byte order that `%08x` produces is visible.
  - It has one action, `RebuildAuxWork`, for `work.go` lines 31-51: tree, branch assignment, marker, and `AuxBlocks` kept when the fetch returns no aux block.
  - `FoldPath`, `RefRoot` and `RefPad` are independent reference definitions: halving and folding with the index bit, which is what the aux daemon does.
- **`AuxPow`** extends `AuxMerkle` with the AuxPoW envelope: `MakeAuxPow`, `MakeAuxPowWithBranch`, the parent and aux merkle branches, and `Serialize`.
  - The hex string `Serialize` builds is a sequence of tokens: a byte `[b |-> n]`, or an opaque 32-byte hash or blob `[h |-> x]`. The blobs are the parent coinbase (which carries this round's marker) and the 80-byte parent header.
  - `varUint` is defined outside `src/`. It is modelled as Bitcoin's CompactSize.
  - `ParseAuxPow` is the reference: it reads the tokens field by field, as an aux daemon unserialises a `CAuxPow`.
  - `AuxDaemonAccepts` is the aux daemons' acceptance rule (`CAuxPow::check` of the Namecoin-derived daemons), composed with the tree, the marker and the envelope. It is a reference definition of the environment, not of this repository's code. It requires the following:
    - the coinbase is the parent's first leaf;
    - the aux hash folded through the aux branch with its mask gives the root in the marker;
    - the marker's size, read little-endian, is 2^(branch length);
    - the branch index is `getExpectedIndex(nonce, chainId, height)`.
  - That last rule is a linear congruential step in uint32. Only its value mod 2^height matters, so it is computed mod 2^15, inside TLC's integers.
  - The chain ID of each aux block is the constant `ChainID`.
  - The parent-side check is left out because the header is opaque: the coinbase folded through the parent branch must give the header's merkle root. `AuxPowParsesBack` covers the parent branch's fields.
- **`ChainRegistry`** models `GetChain` (`chain.go`) and the coin types of `coins.go`.
  - The switch is `ChainCases`, its case labels in order with the type each returns. `GetChainPanics(name)` holds for any other name.
  - Each coin type is one definition: its chain name, coinbase and header digest (by name) and share multiplier.
  - The address patterns and confirmation counts are read only by code outside `src/`, and are left out.
  - `Dogecoin` and `Litecoin` are returned by `GetChain` but defined outside `src/`. They are modelled from spec 4.2 as Scrypt coins.
- **`ShareValidator`** holds `validateAndWeighShare` as an operator over natural-number hashes and targets. `PoolWork` instantiates it as `SV`.
- **`PoolWork`** (`MCPoolWork`) models the template lifecycle and the share pipeline.
  - Variables:
    - `templates`: `p.templates`;
    - `refresher`: the refresher between its two writes;
    - `job`: what each miner was last sent;
    - `unnotified`: sessions the broadcast has not reached;
    - `sess`: each session's handler position: the primary template it read, its queue of candidates and the attempt number;
    - `shares`: the in-memory share buffer;
    - `persisted`: shares flushed to persistence;
    - `up`: the process is running;
    - `found`: the found records;
    - `tip` and `accepted`: the daemons.
  - The refresher has two actions:
    - `RefreshFetchAux`: lines 15-51;
    - `RefreshInstallBlock`: lines 53-73. It also starts the broadcast of the new work (`unnotified' = Clients`). That start is done by the caller, `listenForBlockNotifications`, which is not under `src/`, so it is modelled from spec 4.6.
  - `Notify` is one `sendPacket` of `notifyAllSessions`. A failed send is only logged, so one disjunct leaves the miner's job unchanged.
  - `ReceiveShare` covers lines 76-148 and is split by validation status into `RejectShare`, `AcceptShare` and `AcceptCandidate`.
  - `Submit` is one submit call of lines 152-157 / 192-197, split into:
    - `SubmitAccepted`: accepted, then `Insert`, which may fail;
    - `SubmitFailed`;
    - `SubmitResponseLost`: accepted, but the call errs.
    - `SubmitAcceptedPanics`: an aux block of a chain `GetChain` does not know is accepted, and line 162 panics before the `Insert`.
  - The fault model has four actions:
    - `FlushShares`: the buffer manager, which is not under `src/`, modelled from spec 4.10;
    - `Crash`: a kill, or an abort outside the modelled code. Examples are the `*block` dereference at line 70, and the runtime's fatal error when `notifyAllSessions` ranges over the sessions map while it is written (`server.go:115`);
    - `ProcessExits`: the effect of any exit. Sessions, the refresher's half-built work, the broadcast and the share buffer are lost; persistence and the daemons survive.
    - `Restart`: `Start` again, with a fresh template.
  - `SubmitError` implements the retry: the first error leads to one retry, the second moves on to the next candidate.
  - A template is identified by its generation `gen`, and an aux block by `<<chain, tip>>`.
  - The coinbase of a template commits to exactly the aux blocks fetched in the same round.
  - A daemon accepts a block that is of its chain and built on its tip. For an aux chain, the block must also be committed by the AuxPoW parent's coinbase.

## Runs

| Run | Checks | Result |
|---|---|---|
| `auxmerkle_safety` | `TypeOK`, `BranchesReproduceRoot`, `RootMatchesReference` over every list of ≤5 distinct hashes; `AuxPowParsesBack`: every envelope over them reads back field by field | pass |
| `auxmerkle_size_padded` | marker size = padded leaf count | violated at N=3: size 3, 4 leaves |
| `auxpow_daemon_check` | `AuxPowAcceptedByAuxDaemon`: the AuxPoW the pool submits for each aux block of a template passes the aux daemon's check (spec 4.4: the tree is there for that check) | violated with two chains: size `00000002` is read as 2^25, and the mask `00000001` as 2^24 |
| `poolwork_safety` | `TypeOK` with every fault on: exits, restarts, the unregistered aux chain namecoin, failed fetches, failed `Insert`s and lost responses; every action fires | pass |
| `poolwork_liveness` | `SubmitCompletes` with 1 session, 2 aux chains | pass |
| `poolwork_response_lost` | every accepted block is recorded, with lost responses as the only fault | violated: the daemon accepts, the call times out, and the retry is refused |
| `poolwork_share_lost_on_crash` | a found block's share survives an exit | violated: the share was only in the buffer |
| `poolwork_aux_committed` | aux candidate committed by its parent coinbase | violated: a session reads between the refresher's two writes. Aux fetch failure is on, so the stale-`AuxBlocks` case (hazard `work.go:33`) is also explored, but it needs 4 steps to the interleaving's 3 |
| `poolwork_aux_routing` | aux candidate sent to its own chain | violated: failed aux fetch shifts slots |
| `poolwork_job` | share validated against its job | violated: current template used |
| `poolwork_candidates_dropped` | a hash meeting a chain target is never an invalid share | violated when the aux target is easier than the pool target |
| `poolwork_found_recorded` | every accepted block is recorded (aux chain namecoin) | violated: `GetChain` panics at line 162 before the `Insert`; an `Insert` error is also only logged |

The findings in `PROJECT.json` explain each violation against the source line and spec section.

## Bounds

- **MCAuxMerkle:** `MaxAux = 5` produces trees of 1 to 5 leaves. That covers:
  - no padding (N = 1, 2, 4);
  - one padded leaf (N = 3);
  - three padded leaves (N = 5);
  - depths 1 to 3.

  The violation runs use smaller bounds, which are enough for their counterexamples.

  The chain IDs are 98, 1, 16, 2 and 7. Two chains whose IDs have the same parity (98 and 16) compete for the same slot of a 2-leaf tree. The pool assigns slots by fetch order, which is hazard `work.go:38`. `auxpow_daemon_check` stops at the encodings, but in a copy of the model with both fields written little-endian, TLC still reports the property violated by that slot rule.

  The envelope is checked for parent coinbase branches of 0, 1 and 2 hashes, with and without an aux branch. Counts of 253 or more, the multi-byte `varUint` forms, are out of reach.
- **MCPoolWork:**
  - The chains are litecoin (primary), bellscoin and pepecoin (aux), and namecoin, an aux chain `GetChain` does not know.
  - Hashes 0..3 with targets primary 0, aux 1 and pool 2 give every validation outcome: a primary-and-aux candidate, an aux-only candidate, a plain share and an invalid share.
  - `MaxGen = 2` allows one refresh.
  - `MaxTip = 1` allows one outside block per chain, so stale candidates happen.
  - All three failure toggles are on in the passing runs: aux fetch failure, `Insert` failure and lost response.
  - The safety run uses one session, the aux chain namecoin (unknown to `GetChain`) and `MaxGen = 3`, which allows two exits and restarts. `Crash` and `SubmitAcceptedPanics` require `gen < MaxGen`, so that each exit can be followed by a `Restart`. A larger instance with two aux chains (28M states) is out of reach.
  - The liveness run uses one session and two aux chains, so a queue of three candidates occurs.

## Fairness

`FairSpec` puts weak fairness on each session's `Submit`. Every RPC call carries a deadline (spec 5), so each call returns, by error or by success.

The refresher, the broadcast, miners and daemons get no fairness: blocks and shares need not arrive.

## Not modelled

- The address patterns and confirmation counts of `coins.go` are read only by code outside `src/`.
- The stats API is pure I/O over placeholders.
- Difficulty arithmetic (floats) is not modelled.
- There is no abstract specification of found blocks. In this model a found record can only be written in the step where the daemon accepts the block, so a refinement to "records are accepted blocks" would only restate that guard. The promise that matters is the converse: every accepted block is recorded. That is `AcceptedBlocksRecorded`, and the code violates it in two runs.
- A failed primary fetch (`work.go` lines 18-29: one retry after `CheckAndRecoverRPCs`, then `return err`) changes no state. It is the refresher not taking a step.
- `NewServer` and the `panicOnError`/`logOnError` helpers only log or exit. `generateWorkFromCache` appends a flag to the cached work.
- Code outside `src/` is not modelled: the session registry, `rpc.Manager` failover and `GenerateWork`. The share flusher is modelled from the spec. The hazards of this code are listed with a note, or covered through `Crash`.

## Plan for later sittings

1. Compose `AuxPow` into `PoolWork`'s daemon check: commit through the real marker, envelope and branch rather than set membership. `auxpow_daemon_check` already shows the result for two aux chains: every aux submission fails. A composed `PoolWork` would exceed the 5-minute bound, because `MCAuxMerkle`'s passing run alone takes 45 s over 651 states.
2. Model the session registry's writers (spec 4.9, 5) if their code comes under `src/`.
