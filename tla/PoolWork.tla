------------------------------- MODULE PoolWork -------------------------------
(***************************************************************************)
(* The template lifecycle and the share pipeline of the pool server        *)
(* (src/pool/work.go, src/pool/server.go): the template refresher that     *)
(* fetches the primary template and the aux blocks and installs them in    *)
(* p.templates, the broadcast of the new work, and the session goroutines  *)
(* that run recieveWorkFromClient concurrently with it: read the current   *)
(* templates, validate, buffer the share, submit block candidates with one *)
(* retry after CheckAndRecoverRPCs, and record found blocks.               *)
(*                                                                         *)
(* The coin daemons are the environment: a daemon accepts a block built on *)
(* its current tip and, for an aux chain, only a block of that chain whose *)
(* hash the parent coinbase commits to. A template is identified by its    *)
(* generation gen (the job id miners are sent); an aux block by its chain  *)
(* and the tip it was created on. The header hash of a share is a free     *)
(* choice from Hash: it is a pseudo-random function of the header.         *)
(*                                                                         *)
(* Fault model: the process may exit (a panic, such as GetChain's on an    *)
(* unknown chain name, or a kill) and be started again; the in-memory      *)
(* share buffer, sessions and templates are lost, what persistence and the *)
(* daemons hold survives.                                                  *)
(***************************************************************************)
EXTENDS Naturals, Sequences, SequencesExt, FiniteSets

CONSTANTS
    Primary,            \* BlockChainOrder[0]
    AuxChains,          \* BlockChainOrder[1..], in order
    Clients,            \* connected stratum sessions
    Hash,               \* header hashes a share can have
    PoolTarget,         \* TargetFromDifficulty(PoolDifficulty / ShareMultiplier)
    Target,             \* network target of each chain
    MaxGen,             \* bound on template refreshes
    MaxTip,             \* bound on blocks found outside the pool
    NoHash,             \* Hash "" of an empty aux block slot
    AuxFetchCanFail,    \* createauxblock may fail for a chain
    InsertCanFail,      \* persistence.Blocks.Insert may fail
    ResponseCanBeLost,  \* a submit may reach the daemon and still time out
    CrashCanHappen      \* the process may exit and be restarted

SV == INSTANCE ShareValidator

CR == INSTANCE ChainRegistry

VARIABLES
    tip,        \* height of each daemon's best chain
    templates,  \* p.templates: primary (BitcoinBlock) and aux (AuxBlocks)
    refresher,  \* the refresher between writing AuxBlocks and BitcoinBlock
    job,        \* the job (template gen) each miner was last sent
    unnotified, \* sessions the current broadcast has not reached yet
    sess,       \* each session's recieveWorkFromClient in progress
    shares,     \* p.shareBuffer (in memory)
    persisted,  \* shares the buffer manager has written to persistence
    up,         \* the pool process is running
    accepted,   \* blocks the daemons accepted from the pool
    found       \* persistence.Blocks: found-block records

vars == <<tip, templates, refresher, job, unnotified, sess, shares,
          persisted, up, accepted, found>>

Chains == {Primary} \cup ToSet(AuxChains)

\* The zero AuxBlock that Start puts in each slot (Hash "").
BlankAux == [hash |-> NoHash, chain |-> NoHash, prev |-> 0, target |-> 0]

AuxBlockOn(ch, h) == [hash |-> <<ch, h>>, chain |-> ch, prev |-> h, target |-> Target[ch]]

NoTemplate == [gen |-> 0, prev |-> 0, committed |-> {}]

IdleSession == [pc |-> "idle", prim |-> NoTemplate, queue |-> <<>>, attempt |-> 1]

\* The chains whose createauxblock call succeeds in one fetch.
AnsweredSets ==
    IF AuxFetchCanFail THEN SUBSET ToSet(AuxChains) ELSE {ToSet(AuxChains)}

\* fetchAllBlockTemplatesFromRPC: one aux block per answering chain, in
\* BlockChainOrder; a chain that fails is skipped ("continue").
FetchedAuxBlocks(answered, t) ==
    LET names == SelectSeq(AuxChains, LAMBDA ch : ch \in answered)
    IN [i \in DOMAIN names |-> AuxBlockOn(names[i], t[names[i]])]

\* The coinbase built by GenerateWork commits (through the merged-mining
\* marker) to exactly the aux blocks fetched in the same round.
NewTemplate(gen, t, auxList) ==
    [gen |-> gen, prev |-> t[Primary], committed |-> ToSet(auxList)]

\* p.templates.AuxBlocks is replaced only when some aux block was fetched.
InstalledAux(old, auxList) == IF Len(auxList) > 0 THEN auxList ELSE old

\* Start: AuxBlocks = make([]AuxBlock, n) (zero blocks), then the first
\* fetchRpcBlockTemplatesAndCacheWork installs template gen.
StartTemplates(gen, answered) ==
    LET auxList == FetchedAuxBlocks(answered, tip) IN
    [primary |-> NewTemplate(gen, tip, auxList),
     aux |-> InstalledAux([i \in DOMAIN AuxChains |-> BlankAux], auxList)]

-----------------------------------------------------------------------------
(* Start: initiateSessions, AuxBlocks = make([]AuxBlock, n), then the      *)
(* initial fetchRpcBlockTemplatesAndCacheWork (a failure panics, so the    *)
(* server only runs after it succeeded) and the first broadcast.           *)
Init ==
    /\ tip = [ch \in Chains |-> 0]
    /\ \E answered \in AnsweredSets : templates = StartTemplates(1, answered)
    /\ refresher = [pc |-> "idle", block |-> NoTemplate]
    /\ job = [c \in Clients |-> 1]
    /\ unnotified = {}
    /\ sess = [c \in Clients |-> IdleSession]
    /\ shares = {}
    /\ persisted = {}
    /\ up = TRUE
    /\ accepted = {}
    /\ found = {}

\* A block is found on chain ch outside the pool: the tip moves on.
NewBlock(ch) ==
    /\ tip[ch] < MaxTip
    /\ tip' = [tip EXCEPT ![ch] = @ + 1]
    /\ UNCHANGED <<templates, refresher, job, unnotified, sess, shares,
                   accepted, found, persisted, up>>

\* fetchRpcBlockTemplatesAndCacheWork up to line 50: the RPC fetch, the aux
\* merkle tree, and p.templates.AuxBlocks = auxBlocks (if any were fetched).
\* The new BitcoinBlock is built (GenerateWork) but not yet installed. A
\* failed primary fetch (lines 18-29: one retry after CheckAndRecoverRPCs,
\* then return err) changes no state: the refresher not taking this step.
RefreshFetchAux ==
    /\ up
    /\ refresher.pc = "idle"
    /\ templates.primary.gen < MaxGen
    /\ \E answered \in AnsweredSets :
          LET auxList == FetchedAuxBlocks(answered, tip) IN
          /\ templates' = [templates EXCEPT !.aux = InstalledAux(@, auxList)]
          /\ refresher' = [pc |-> "built",
                           block |-> NewTemplate(templates.primary.gen + 1,
                                                 tip, auxList)]
    /\ UNCHANGED <<tip, job, unnotified, sess, shares, accepted, found, persisted, up>>

\* Lines 63-70: p.workCache and p.templates.BitcoinBlock are written. The
\* caller, listenForBlockNotifications (not under src/), then broadcasts
\* the new work to every session (spec 4.6 step 4).
RefreshInstallBlock ==
    /\ refresher.pc = "built"
    /\ templates' = [templates EXCEPT !.primary = refresher.block]
    /\ refresher' = [pc |-> "idle", block |-> NoTemplate]
    /\ unnotified' = Clients
    /\ UNCHANGED <<tip, job, sess, shares, accepted, found, persisted, up>>

\* notifyAllSessions: sendPacket of mining.notify to one session. A failed
\* send is only logged (logOnError) and the loop goes on: the miner keeps
\* its old job.
Notify(c) ==
    /\ c \in unnotified
    /\ \/ job' = [job EXCEPT ![c] = templates.primary.gen]
       \/ UNCHANGED job
    /\ unnotified' = unnotified \ {c}
    /\ UNCHANGED <<tip, templates, refresher, sess, shares, accepted, found, persisted, up>>
-----------------------------------------------------------------------------
(* recieveWorkFromClient, lines 76-142: p.templates is read without the     *)
(* server lock (the primary template, then AuxBlocks), the header is built *)
(* from the CURRENT template whatever job the share names, and the share   *)
(* is weighed by validateAndWeighShare.                                    *)
Validation(h) ==
    SV!validateAndWeighShare(h, PoolTarget, Target[Primary], templates.aux)

\* The share record appended to p.shareBuffer: miner and template height.
ShareRecord(c) == [miner |-> c, gen |-> templates.primary.gen]

\* Status shareInvalid: the error is returned to the miner, nothing stored.
RejectShare(c, h) ==
    /\ up
    /\ sess[c].pc = "idle"
    /\ Validation(h).status = SV!shareInvalid
    /\ UNCHANGED vars

\* Status shareValid: the share is appended to p.shareBuffer under p.Lock.
AcceptShare(c, h) ==
    /\ up
    /\ sess[c].pc = "idle"
    /\ Validation(h).status = SV!shareValid
    /\ shares' = shares \cup {ShareRecord(c)}
    /\ UNCHANGED <<tip, templates, refresher, job, unnotified, sess, accepted, found, persisted, up>>

\* Lines 146-148 and 189-192: aux candidate auxIndex is sent to chain
\* BlockChainOrder[auxIndex+1] with block auxBlocks[auxIndex]; the primary
\* candidate is the session's primary template.
AuxCandidate(i) == [to |-> AuxChains[i], blk |-> templates.aux[i]]

PrimaryCandidate ==
    [to |-> Primary, blk |-> [hash |-> <<Primary, templates.primary.prev>>,
                              chain |-> Primary, prev |-> templates.primary.prev,
                              target |-> Target[Primary]]]

\* Status blockCandidate: the share is buffered, then the aux candidates (in
\* slot order) and the primary candidate are submitted one by one, each with
\* the primary template read at line 77 as AuxPoW parent.
AcceptCandidate(c, h) ==
    LET r == Validation(h) IN
    /\ up
    /\ sess[c].pc = "idle"
    /\ r.status = SV!blockCandidate
    /\ shares' = shares \cup {ShareRecord(c)}
    /\ sess' = [sess EXCEPT ![c] =
                  [pc |-> "submit", prim |-> templates.primary,
                   queue |-> [k \in DOMAIN r.auxChainsMetTargets |->
                                 AuxCandidate(r.auxChainsMetTargets[k])]
                             \o (IF r.primaryMeetsTarget THEN <<PrimaryCandidate>>
                                                         ELSE <<>>),
                   attempt |-> 1]]
    /\ UNCHANGED <<tip, templates, refresher, job, unnotified, accepted, found, persisted, up>>

ReceiveShare(c, h) == RejectShare(c, h) \/ AcceptShare(c, h) \/ AcceptCandidate(c, h)

\* The daemon's verdict on the head candidate (external): the block is of
\* the chain it is sent to, builds on that chain's tip, and an aux block is
\* committed to by the coinbase of the AuxPoW parent.
DaemonAccepts(s) ==
    LET q == Head(s.queue) IN
    /\ q.blk.chain = q.to
    /\ q.blk.prev = tip[q.to]
    /\ q.to = Primary \/ q.blk \in s.prim.committed

DaemonApplies(s) ==
    LET q == Head(s.queue) IN
    /\ tip' = [tip EXCEPT ![q.to] = @ + 1]
    /\ accepted' = accepted \cup {[chain |-> q.to, block |-> q.blk]}

\* Done with the head candidate: the next one, or back to reading shares.
NextCandidate(c) ==
    sess' = [sess EXCEPT ![c] = IF Len(@.queue) = 1 THEN IdleSession
                                ELSE [@ EXCEPT !.queue = Tail(sess[c].queue),
                                               !.attempt = 1]]

\* Seeded faults: a retry loop without a cap, and one that never gives up.
SubmitErrorUncapped(c) == sess' = [sess EXCEPT ![c].attempt = @ + 1]

SubmitErrorRetryForever(c) == sess' = [sess EXCEPT ![c].attempt = 2]

\* err != nil after a submit: CheckAndRecoverRPCs and one retry, then give up.
SubmitError(c) ==
    IF sess[c].attempt = 1
    THEN sess' = [sess EXCEPT ![c].attempt = 2]
    ELSE NextCandidate(c)

\* err == nil: the found-block record is inserted; an Insert error is logged.
\* For an aux block, GetChain(chainName) (line 162) must know the chain.
SubmitAccepted(c) ==
    LET s == sess[c] IN
    /\ s.pc = "submit"
    /\ Head(s.queue).to = Primary \/ ~CR!GetChainPanics(Head(s.queue).to)
    /\ DaemonAccepts(s)
    /\ DaemonApplies(s)
    /\ \/ found' = found \cup {[chain |-> Head(s.queue).to, block |-> Head(s.queue).blk,
                                miner |-> c, gen |-> s.prim.gen]}
       \/ InsertCanFail /\ UNCHANGED found
    /\ NextCandidate(c)
    /\ UNCHANGED <<templates, refresher, job, unnotified, shares, persisted, up>>

\* The daemon rejects the block, or the RPC fails before reaching it.
SubmitFailed(c) ==
    /\ sess[c].pc = "submit"
    /\ SubmitError(c)
    /\ UNCHANGED <<tip, templates, refresher, job, unnotified, shares,
                   accepted, found, persisted, up>>

\* The daemon accepts the block but the call times out: err != nil.
SubmitResponseLost(c) ==
    LET s == sess[c] IN
    /\ ResponseCanBeLost
    /\ s.pc = "submit"
    /\ DaemonAccepts(s)
    /\ DaemonApplies(s)
    /\ SubmitError(c)
    /\ UNCHANGED <<templates, refresher, job, unnotified, shares, found, persisted, up>>

\* The process exits: the sessions, the refresher's half-built work, the
\* broadcast in progress and the in-memory share buffer are gone.
ProcessExits ==
    /\ up' = FALSE
    /\ sess' = [c \in Clients |-> IdleSession]
    /\ refresher' = [pc |-> "idle", block |-> NoTemplate]
    /\ unnotified' = {}
    /\ shares' = {}

\* err == nil for an aux block of a chain GetChain does not know: line 162
\* panics after the daemon accepted the block, before the Insert. (Bounded
\* by MaxGen like every start of a template.)
SubmitAcceptedPanics(c) ==
    LET s == sess[c] IN
    /\ s.pc = "submit"
    /\ Head(s.queue).to # Primary
    /\ CR!GetChainPanics(Head(s.queue).to)
    /\ templates.primary.gen < MaxGen
    /\ DaemonAccepts(s)
    /\ DaemonApplies(s)
    /\ ProcessExits
    /\ UNCHANGED <<templates, job, persisted, found>>

Submit(c) ==
    \/ SubmitAccepted(c)
    \/ SubmitAcceptedPanics(c)
    \/ SubmitFailed(c)
    \/ SubmitResponseLost(c)

\* The buffer manager (startBufferManager, not under src/): under p.Lock
\* the buffered shares are written to persistence and the buffer emptied.
FlushShares ==
    /\ up
    /\ shares # {}
    /\ persisted' = persisted \cup shares
    /\ shares' = {}
    /\ UNCHANGED <<tip, templates, refresher, job, unnotified, sess, up,
                   accepted, found>>

\* The process is killed, or aborts outside the modelled code: the *block
\* dereference at line 70 when GenerateWork fails, or the runtime's fatal
\* error when notifyAllSessions ranges over the sessions map (server.go:115)
\* while the acceptor writes it, which can happen at any Notify step.
Crash ==
    /\ CrashCanHappen
    /\ up
    /\ templates.primary.gen < MaxGen
    /\ ProcessExits
    /\ UNCHANGED <<tip, templates, job, persisted, accepted, found>>

\* The process is started again: Start fetches a fresh template (its
\* failure panics, so only a successful start is a state), and every miner
\* reconnects and is sent the new job.
Restart ==
    /\ ~up
    /\ up' = TRUE
    /\ \E answered \in AnsweredSets :
          templates' = StartTemplates(templates.primary.gen + 1, answered)
    /\ unnotified' = Clients
    /\ UNCHANGED <<tip, refresher, job, sess, shares, persisted, accepted, found>>

Next ==
    \/ \E ch \in Chains : NewBlock(ch)
    \/ RefreshFetchAux
    \/ RefreshInstallBlock
    \/ \E c \in Clients :
          \/ Notify(c)
          \/ \E h \in Hash : ReceiveShare(c, h)
          \/ Submit(c)
    \/ FlushShares
    \/ Crash
    \/ Restart

Spec == Init /\ [][Next]_vars

\* A session goroutine runs its handler to the end: every RPC call returns
\* (it carries a deadline, spec 5), so a pending submit step is eventually
\* taken.
FairSpec == Spec /\ \A c \in Clients : WF_vars(Submit(c))

-----------------------------------------------------------------------------
TypeOK ==
    /\ tip \in [Chains -> 0..(MaxTip + MaxGen)]
    /\ templates.primary.gen \in 1..MaxGen
    /\ refresher.pc \in {"idle", "built"}
    /\ job \in [Clients -> 1..MaxGen]
    /\ unnotified \subseteq Clients
    /\ \A c \in Clients :
          /\ sess[c].pc \in {"idle", "submit"}
          /\ sess[c].attempt \in {1, 2}
          /\ sess[c].pc = "submit" => sess[c].queue # <<>>
    /\ shares \cup persisted \subseteq [miner : Clients, gen : 1..MaxGen]
    /\ up \in BOOLEAN
\* Every found block is backed by a share credited to the same miner for the
\* same template and hash (spec section 8: a block candidate is also
\* recorded as a share), so block finders are paid for the share.
FoundBlockHasShare ==
    \A f \in found : [miner |-> f.miner, gen |-> f.gen] \in shares \cup persisted

\* Every block candidate handling terminates: the one-retry policy of
\* lines 152-157 and 192-197 never keeps a session submitting for ever.
SubmitCompletes ==
    \A c \in Clients : sess[c].pc = "submit" ~> sess[c].pc = "idle"

\* Every aux candidate a session is about to submit is committed to by the
\* coinbase of the primary template it sends as AuxPoW parent (spec 3,
\* invariant ii: the aux blocks used at validation are those known to the
\* miner's work).
AuxCandidateCommitted ==
    \A c \in Clients :
        \A k \in DOMAIN sess[c].queue :
            sess[c].queue[k].to # Primary => sess[c].queue[k].blk \in sess[c].prim.committed

\* Every aux candidate is submitted to the chain that created it.
AuxCandidateRoutedToOwnChain ==
    \A c \in Clients :
        \A k \in DOMAIN sess[c].queue : sess[c].queue[k].blk.chain = sess[c].queue[k].to

\* A share is validated against the template of the job it names (spec
\* 4.6 and 4.7 step 1: resolve the template by job id).
ShareValidatedAgainstItsJob ==
    [][\A c \in Clients, h \in Hash :
          ReceiveShare(c, h) => job[c] = templates.primary.gen]_vars

\* A hash that meets the primary or an aux network target of the current
\* templates is never judged an invalid share by validateAndWeighShare (spec 1: the hash is decided against the three
\* thresholds simultaneously).
MeetsSomeChainTarget(h) ==
    \/ h <= Target[Primary]
    \/ \E i \in DOMAIN templates.aux :
          templates.aux[i].hash # NoHash /\ h <= templates.aux[i].target

CandidatesNeverDropped ==
    \A h \in Hash : MeetsSomeChainTarget(h) => Validation(h).status # SV!shareInvalid

\* Every block a daemon accepted from the pool ends up as a found-block
\* record (spec 7: a PersistenceError is retried).
AcceptedBlocksRecorded ==
    \A a \in accepted : \E f \in found : f.chain = a.chain /\ f.block = a.block
=============================================================================
