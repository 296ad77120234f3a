# A TLA+ model of the SP1 Ethereum light client

The repository proves Ethereum finality inside a zkVM (SP1) and follows it in a
Solidity contract. This directory models the parts of it that keep or exchange
state and the tree walks its guest program relies on, checks them with TLC on
small instances, and proves with TLAPS, for every value of the constants, the
main results about the contract, alone and together with chain and provers, the
oracle, the store, the proof server, the commands, the hash trees and the state
proofs made of them. Every safety property a run checks is also proved. Paths
below are relative to `src/`.

## 1. The system

| part | code | state | operations | who it talks to |
|---|---|---|---|---|
| on-chain light client | `contracts/src/SP1EthereumLightClient.sol` | head and its roots, current and next committee hash, five maps by slot | `initialize` once, `update(publicValues, proof)`, views | the SP1 verifier; anyone calls it |
| guest program | `program/src/main.rs`, `lib/src/consensus.rs` | none | checks an update and commits public values | run by provers |
| block inclusion | `lib/src/block_inclusion.rs`, step 4 of `main.rs` | none | checks a chain of execution headers, commits to their hashes | part of the guest |
| block hash oracle | `contracts/src/BlockHashOracle.sol` | hashes by number, processed commitments, stored range | `submitBlockHashes` | anyone; names the light client but never calls it |
| light client store | `script/src/sync.rs`, `bin/sync_cli.rs` | a JSON file and a copy of it in memory | sync loop, historical sync | beacon node, file system |
| proof server | `script/src/api.rs`, `bin/server.rs` | job map, a store read at start | submit, poll and list jobs | beacon node, RPC node, prover; HTTP clients |
| beacon API client | `script/src/beacon_api.rs` | none | requests, conversion to guest inputs | beacon node |
| SSZ Merkle trees | `lib/src/merkle.rs`, steps 4 and 5 of `consensus.rs` | none | header roots, branch verification | called by the guest |
| Merkle-Patricia proofs | `lib/src/mpt.rs` | the walk's offset and expected hash | account and storage proofs | called by the guest, the server, L2 and messages |
| L2 outputs, messages | `lib/src/l2.rs`, `cross_chain.rs`, steps 2 and 3 of `main.rs` | none | chains of such proofs | called by the guest; messages by nobody yet |
| execution RPC client | `script/src/eth_rpc.rs` | none | `eth_getProof`, state root of a block | execution client |
| configuration | `lib/src/config.rs` | none | fork version of a slot | beacon API client |
| commands | `script/src/bin/{main,evm}.rs` | the fixture file | fetch, prove or execute | beacon node, prover |
| deployment scripts | `contracts/script/` | none | initialize and submit a fixture | the contract |
| BLS | `lib/src/bls.rs` | none | aggregate signatures | called by the guest |

A relayer fetches an update from a beacon node, has the guest run on it, and
submits the proof. A proof is bound to its inputs and to nothing on chain; it
never expires. The contract orders what it accepts only by slot and by
committee. The hard behaviour is therefore: proofs that arrive late, twice or
out of order; the hand-over from one sync committee to the next, spread over
several updates and off by one slot at period boundaries; what is left
unchecked when an optional input is missing; proofs put together from nodes,
blocks and states that do not belong together; and, off chain, crashes while the
store is written, processes that interleave with a moving chain, requests that
fail or lag, and commands that are killed between two of their steps.

What makes each part correct:

- *contract*: what it has stored for a slot is final and consistent with its
  summary; what rests on proofs that skipped none of the guest's checks is
  finalized and canonical, whatever order proofs come in and whatever other
  proofs come in between; its committees are the chain's and a hand-over it knows
  of is not lost, until an unchecked committee is announced; the newest update is
  never locked out but by moving the head or the committees past it;
- *block inclusion and oracle*: a recorded commitment stands for one run of
  numbers and can be opened in one way; range and hashes are those of the processed
  commitments, and no submission comes back;
- *store*: neither the saved head nor the committee goes back, and what the
  chain finalizes is saved in the end;
- *tree walks*: what is answered about a root is what the tree with that root
  holds in that place, whatever the proof is made of, provided that every node
  of a trie has the 32 bytes from which on its hash is compared, and that the
  branch of a committee is as long as its place is deep; the proof an honest node
  serves is answered;
- *state proofs*: an accepted answer, message or withdrawal is true of one state,
  although its parts were fetched one after the other;
- *commands*: the contract they feed follows the chain as far as they can take it,
  however often they are killed;
- *server*: an outcome reaches its own job, stays, and arrives in the end; a
  full proof names the committee that signed it.

**What the guest does not insist on.** Three of its checks are the prover's
choice, and the public values do not say whether they were made:

- the *signature*, left out when the inputs carry no public keys
  (`consensus.rs:318`). The guest then commits to whatever attested block and
  participation the inputs state. `bin/evm`, the one command of the repository
  that feeds the contract, gives no keys (`evm.rs:159`): nothing it submits rests
  on a signature;
- *finality*, left out when the inputs carry no finality data
  (`consensus.rs:266`);
- the *place* of the announced committee: its hash is 32 bytes the prover passes
  and the depth of its branch is the number of siblings given
  (`consensus.rs:286`), so a node above the place, or the state root itself with
  no sibling at all, is announced as a committee.

So there is no safety claim about the contract without a condition on the proofs
it was given. The system's properties carry that condition: they name the slots
that rest on checked proofs only, and say what the other proofs cannot do to
them. In the same way `mpt.rs:342` compares no hash of a node shorter than 32
bytes, and what the walks answer is claimed for lists without such nodes.

`PROJECT.json` lists every component with its status, and every hazard at the
line where it bites with the properties aimed at it.

## 2. The modules

`LightClientTypes` holds what all modules share: slots, periods, blocks,
32-byte hashes, public values. Hashes are tagged values (no collisions);
`bytes32(0)` is `Zero`. The constants are the chain length `MaxSlot` and the
protocol's `SlotsPerPeriod` (8192) and `CommitteeSize` (512).

`LightClientContract` is the contract. A transaction either reverts (no step)
or is one step. `Initialize` and `Update` are `initialize` and `update` with
every check and write in the code's order of effect: `ValidateUpdate` is
`_validateUpdate`; `RotateCommittees`, `RecordCheckpoint` and `RecordResults`
are the three parts of `_applyUpdate`. `PublicValues` and `Checkpoints` are the
values callers may pass. The SP1 verifier is left to the composing module:
alone, the contract is checked for every public value a proof could carry.

`BeaconChain` (external) is the chain: blocks extend it, each block's state
names an earlier checkpoint as finalized, finality never goes back and may
stall. It also says which signatures exist: two thirds of a committee sign only
canonical blocks, by the committee of the next block's period. Competing blocks
exist and may be signed by fewer.

`GuestProgram` is the consensus step of the guest: one operator per check of
`verify_light_client_update`, and what is committed. A Merkle branch is
modelled by what it proves (`RotationInPlace`, or in `VerifyRotation` another
node of the state), the BLS check by the existence of the signature when keys are
given (`VerifySignature`). Keys of a committee the chain never had sign anything.

`LightClientSystem` composes the three. There is no pool of proofs: at every
moment any public values for which *some* guest input exists may reach
`update`, which covers delay, repetition, reordering and any number of
relayers. `MaySkip` says which of the guest's three optional checks (`Check`) a
proof may skip: any one of them in the main run, whichever combinations in the
proofs, the finality data alone in the `unfinalized` run. Three history variables
record what cannot be read off the contract: `vouched` are the slots of the
checkpoint and of proofs with finality data and signature, accepted while no
committee was known from an unchecked proof (`hearsay`); `skipped` are the checks
skipped so far. No guard reads them.
`FinalityFollower` is the abstract specification: a record of
finalized slots that grows by one later slot at a time. `LightClientSystem`
implements it with `finalizedTip <- FinalizedTip` and `accepted <- vouched`
(property `FollowsFinality`); as long as no check was skipped these are all slots
the contract has a root for (`StoredRootsFinalized`).

`ExecutionChain`, `BlockInclusion`, `BlockHashOracle` model the second half of
the guest and the oracle; `InclusionSystem` composes them with the contract
through the block hash commitment. The RLP bytes of a header are named by the
block they encode, and the declared number and parent hash are fields of their
own, as in the code. Both sides pack a number as eight bytes: `ToBeBytes` is
Rust's `to_be_bytes`, `ToBytes8` Solidity's `bytes8(uint64)`, the EVM's word moved
to the left. A commitment is the sequence of packed bytes and hashes; `PairsOf`
reads it back.

`SyncStore` is `sync.rs`: a process loads the file (`Load`), polls (`Poll` is
one `sync_step` that applies; polls that do not are no step) or walks periods in
batches (`WalkBatch`, `SkipBatch`), and saves in two steps, since `fs::write`
truncates first (`Truncate`, `Write`). `Exit` is a kill or an error at any
step. `HistoricalStep` and `CurrentOf` are the body of the historical loop,
which `ApplyUpdates` runs over the updates of an answer.

`ProofServer` is the server: `Request` inserts a job and spawns its task;
`Begin`, `FetchFinality`, `FetchCommittee`, `Prove`, `ProveStorage`, `Fail`,
`Report` are the task between its lock regions, with the chain moving in
between; `Panic` and `Restart` are what they say. The guest's checks are those
of `GuestProgram`.

`Trie` has two halves: how an execution client lays a trie out as branches,
extensions and leaves and lists the nodes on the way to a key (external; a
node's hash is the map of what is below it), and what `mpt.rs` does with one node (`Visit`, `VisitBranch`, `VisitShort`,
`DecodeHpPath`). `TriePath` is the loop of `verify_mpt_proof` over a list of
nodes, one node a step, over any lists made of nodes of any tries, of made-up
nodes that have no trie's hash, and of nodes shorter than 32 bytes with any
content (`IsNode`).

`MerkleBranch` is `merkle.rs` with the two calls of `consensus.rs`: one level a
step (`HashUp`), then the comparison. The state tree is that of a beacon state
with fields 5 (Altair to Deneb) or 6 levels (Electra) below the root; SHA-256 of
two values is the pair of them. A claim may come with any siblings at all, up to
31 of them (`MaxSiblings`), and the committee claimed is any value, also a node
or a chunk of the state: the index is shifted right by the number of the
sibling, in a word of 32 bits.

`ExecutionClient` (external) is `eth_getProof` on states that are tries of
accounts over tries of words. `StateProofs` has the verifiers of `mpt.rs`,
`l2.rs` and `cross_chain.rs` as operators on top of `Trie`, and steps 2 and 3 of
the guest. `StateProofJobs` runs them: `Pin`, `GetProof`, `GetStateRoot`,
`GetL2Parts`, `Verify` are the requests and the verification of one job, while
L1 and L2 grow, outputs are proposed, messages sent and the newest L1 block is
replaced. For a storage job this is `run_storage_proof`; message, withdrawal and
guest jobs stand for a caller that gathers what those verifiers take.

`Relayer` composes chain, guest and contract with the commands that drive them:
`EvmFetch`, `EvmProve` are `bin/evm`; `MainFetchFinality`, `MainAskPeriod`,
`MainFetchFull`, `MainFetchCommittee`, `MainExecute` are `bin/main` request by
request; `Killed` ends either between two of them; `ScriptRun`, `SendInitialize`,
`SendUpdate`, `ScriptEnds` are `submitProof` of `DeployAndVerify.s.sol`, which
is simulated first and then sent transaction by transaction. `ToProofInputs` is
the conversion of both kinds of update with the fork version
(`ForkVersionForSlot`). Unlike in `LightClientSystem`, where any proof may
come, here only those come that the commands make.

A module named `...Proofs` holds the theorems about the module it is named
after (section 4). `BeaconChainProofs` has what they share: numbers, periods,
hashes and the chain. `InclusionSystemProofs` is about the oracle alone and in
its composition. `TreeProofs` is about `TriePath`, `StateProofJobs` and
`MerkleBranch`.

`MCContracts` puts the two contracts into one run: a behaviour looks at the light
client alone, at the oracle alone, or at both with the guest. `MCProofWalks`
likewise holds the two walks, which share nothing.

`MC*` modules give TLC the finite sets. A definition commented "Faulty variant"
is a wrong version of the operator after it; it belongs to no specification and
is there to see that a property notices the mistake.

## 3. What the runs check

| run | bounds | distinct states | shows |
|---|---|---|---|
| `contracts` | 3 slots, periods of 1, 2 accounts; block numbers up to 257, 11 submissions; 3 header chains, right and wrong numbers and links | 4,067 | types; nothing stored after the head; summary agrees with the maps; stored entries are final; the oracle's range is tight, its hashes are opened ones, no replay; recorded commitments are runs of numbers and can be opened, in one way |
| `system` | 5 slots, periods of 2, 3 members, one made-up block and committee, a proof skips at most one check | 12,503 | slots vouched for have canonical, final roots; committees track the chain; a known hand-over is kept; the newest update is accepted; refinement of `FinalityFollower` |
| `walks` | 12 tries over keys of 3 nibbles, all proofs of them whole, cut, spliced and continued with made-up or short nodes; 4 states of two layouts, 9 headers, committees that are nodes of the state, branches of 0 to 7 siblings | 136,140 | answers found through compared nodes are what the trie holds; honest proofs are answered unless the trie is empty or a node stands in its parent, cut ones are not; a header is accepted only in its own place, a committee with a branch of the right length only in its, there in the states of every fork |
| `state` | chains of 3 blocks, 4 accounts, 1 message | 599,592 | an answer is true of one block; proven messages were sent; honest parts are accepted |
| `sync` | 6 slots, periods of 2, batches of 2 | 12,414 | saved head never goes back; committees only forward; every finalized slot is saved in the end |
| `server` | 2 jobs, 4 slots, periods of 2 | 70,953 | outcomes are kept; full proofs name their signers; every job ends |
| `relayer` | 7 slots, periods of 2, a fork in the first and one at the start of the third, 1 operator | 90,147 | `bin/main` is refused exactly for another committee; a contract fed by the commands stays within one period, and catches up within it |

Why the bounds suffice: in `system` the slots 0 to 4 in periods of two give two
full periods and the first slot of a third, so the contract can be initialized in
one period, learn and perform a hand-over, and be offered proofs of an earlier
period; participation has one value on each side of the threshold, which is all
the code tells apart. A proof skips one check, but proofs that skip different
ones come one after another; the theorems allow any set of them in one proof. One
made-up block, one made-up committee and one node of a state stand for all.
Three committee members make "two thirds" differ from "all". Periods of two
in `sync` leave room for two updates of one period with different finality, and
batches of two over three periods make the last batch a short one. Two jobs are
all that can share the map pairwise. The submissions cover order, gaps,
repeated numbers, the zero hash, overlap and arrays that do not match, around 255
and 256, where a second byte begins to count.
Three nibbles are enough for a branch above an extension above a branch, and
for paths of odd and even length, and the tries differ by one write in places;
what the walks answer is proved for all tries and all branches. Three L1 blocks hold a proposal
and a message in either order, or an output that is replaced by another after a
reorganisation; three L2 blocks an output before and one after the withdrawal;
two outputs (`MaxOutputs`) one that a withdrawal is looked up in and another.
The fork epochs 1 and 4, of one slot each, put one fork in the middle of a
period and one on the first slot of another, so every combination of fork, period and lagging
finality between two requests occurs.

Deadlock is not checked except in `relayer`: every bounded chain and every
proof ends, and contract, oracle and store may stop when nothing new arrives.
The commands of `Relayer` can always be run again.

**Fairness.** Only the liveness properties of `sync`, `server` and `relayer` need
any. `sync`
assumes what the loop does: it
polls for ever (`run_sync_loop` has no other end than `max_updates`), requests
return (the HTTP client times out), writes finish, someone starts the process
again; the node does not lag or fail for ever (strong fairness, since lagging
answers come in between), and from some time on nothing kills the process. A
file that was cut short is the one excuse: the code refuses to start on it, and
nobody repairs it. `server` assumes that the blocking pool runs every task
and requests return; a panic and a restart are excuses, because the code does
not handle either. In `relayer` no command runs for ever (requests time out
after 30 seconds and a prover ends or is killed: weak fairness on `ProverEnds`
and `ScriptEnds`), and the operator keeps repeating `bin/evm` and the script and
does not lose every one of them to a kill, to `bin/main` or to a reverted
transaction (strong fairness on their steps). That is an assumption on the
operator, not on the code, and `CatchesUp` says what it buys: when the chain
stops at a newest update of the period the contract was initialized for, its
finalized slot is reached. By itself the contract has no liveness: nobody is
obliged to submit. `NewestUpdateAccepted` is its safety half.

`ConfinedToPeriod` is the other side of `CatchesUp`: `bin/evm` never announces a
next committee and puts a placeholder made of the period where the committee's
hash belongs, so a contract the commands feed accepts nothing that was attested
in a later period. Within the repository only a prover of another make can carry
it across; `LightClientSystem` has those.

**Where the code and its own text differ.** Each of these runs checks what a
comment says and finds a behaviour of the code that is otherwise:

| run | the text | the code |
|---|---|---|
| `unfinalized` | each proof verifies finality (`SP1EthereumLightClient.sol:10-14`) | without finality data the attested header is committed as the finalized one |
| `linked` | parent hash linkage is verified (`block_inclusion.rs:12`) | the declared parent hash is, the one in the header is not |
| `sync_period0` | committees must match unless bootstrapping (`sync.rs:103`) | a store started in period 0 is refused from then on |
| `server_committee` | the current sync committee (`beacon_api.rs:434`) | that of the finalized block, a period behind at boundaries |
| `guest_storage` | account proofs are verified against the execution state root (`main.rs:43`) | against the state root of the beacon block, which no account proof leads to |

More were met while modelling and have no run: a proof need not verify the
signature, which `consensus.rs:316` calls a mode for development and testing and
`SP1EthereumLightClient.sol:14` puts off to a later phase, while `bin/evm` feeds the
contract in no other mode; nor need an announced committee stand in the place of
the next one (section 1; `VerifySignature` and `RotationInPlace` are the
operators, the system's properties name the consequences); a node shorter than 32
bytes is excepted from the comparison of hashes as one embedded in its parent
(`mpt.rs:341`), but a list may hold one anywhere; the oracle does not compare
neighbouring numbers, which "must be consecutive" (`BlockHashOracle.sol:90`), and
does not ask the light client whether it recorded a commitment (line 87); a full
job of the server carries no rotation (`api.rs:120`); a proof of absence from an
empty trie is refused rather than answered with nothing (`mpt.rs:315`), and so
is every proof that ends in a node standing in its parent, which `mpt.rs:372`
means to handle in the next iteration (`HonestProofAnswered` names both);
historical sync makes a next committee current also when the same period is
walked again (`sync.rs:517`); and the server never writes the store that is to
"initialize on first update" (`server.rs:60`).

## 4. What is proved

`LightClientContractProofs` (any `MaxSlot`, period length, committee size,
threshold, set of public values and checkpoints):
`ContractInv == TypeOK /\ NothingAfterHead /\ LatestMatchesHistory` is
inductive. It needs the three together: that an update leaves the summary and
the maps in agreement uses types, and that it leaves nothing after the head uses
that nothing was there. `TypeCorrect`, `NothingStoredAfterHead` and
`SummaryMatchesHistory` follow; `HistoryIsFinal` is the action property, from
the guard `NewerSlot` and the types.

`BeaconChainProofs` (any chain): periods and slots (`PeriodBounds`,
`PeriodMonotone`, `SignaturePeriod`: a block is signed in its own period or the
next), which hashes differ, and that `ChainInv`, types and monotone finality, is
inductive (`ExtendInv`). Every module below cites it.

`LightClientSystemProofs` (same generality, any chain and any `MaySkip`): under
`ThresholdAssumption` (the deployed threshold is two thirds). The argument: while
no unchecked committee is known, a proof with its signature that the contract
accepts carries two thirds of a committee the chain had (`KnownCommittee` and the
induction hypothesis), so the attested block is canonical, so with finality data
the finalized block is one the chain finalized, and a committee announced in its
place is that of the next period. A proof that skips a check adds no slot to
those vouched for, moves the head only forward and so writes no entry of theirs;
one without signature that announces nothing may let the announced committee take
over early, but leaves a pair the chain has. `SystemInv` strengthens the
properties by

- `ContractInv` and `ChainInv`: finality is monotone, so no accepted slot is ahead
  of the tip, and what is stored up to the head stays;
- `VouchedUpToHead`: no slot vouched for is after the head, so that a newer slot
  is a new one, for the refinement;
- `NothingAnnounced`: there is no next committee before initialization;
- `HandoverBehind`: a known hand-over was learned from a block of the current
  period whose finality the head has reached. Without it `HandoverKept` is not
  inductive: an old proof of the same period could announce the same pair again,
  and nothing would rule out one of an earlier period.

Proved from it: `StoredRootsAreFinalized`, `CommitteesFollowChain`,
`HandoverIsKept`, and `SystemFollowsFinality` (the refinement). None of them says
anything of a slot that rests on an unchecked proof; in particular none of what
`bin/evm` submits. One result needs only the invariants of the contract and the
chain by themselves (`BaseInv`): `NewestUpdateIsAccepted`. It asks for a committee
of at least the threshold, and that the set `PublicValues` has the plain proofs of
the whole committee (`PlainProofsPossible`); TLC evaluates both for the run. Its
argument: the update of the block before the tip is signed by the tip's committee,
and the guest accepts it with all its checks (`NewestIsProvable`); that it is newer
and that the contract knows the committee are what the property supposes.

`InclusionSystemProofs`, the oracle alone (any chain length and set of submissions): `OracleInv`
adds to the checked properties that processed commitments are packed pairs of
block numbers and hashes (`ProcessedOpen`) and that the range is empty before the first submission
(`RangeStarts`), without which `RangeIsTight` does not survive the first one.
That the loop stores, for each number, the hash at its last place rests on the
existence of that place (`LastOfIsPlace`), from the well-foundedness of the
naturals. Proved: `OracleTypeCorrect`, `RangeTight`, `HashesCommitted`,
`Replays`. The composition (any header chains, public values and submissions): the
contract's types together with `RecordedPacked`, each recorded commitment is
packed from a chain the guest accepts, are inductive. `RecordedAreConsecutive`
follows from the guest's checks of the numbers (`AcceptedConsecutive`),
`RecordedAreOpened` from the bytes of a number: eight of them are enough
(`EightBytes`, from `Uint64Assumption`), the oracle's are the guest's
(`OracleBytes`), and they can be read back (`BeBytesRead`), so two submissions
that open a commitment are the same pairs (`PackedRead`). That the recursive
function `Shifts` exists is shown by its least counterexample (`ShiftingExists`).

`TreeProofs` (any nibbles, key length, tries, lists of nodes, chains, requests,
beacon states and siblings) has three parts.

*The walk.* It answers only what the trie holds (`AnswersAreSound`). The
invariant `TrieInv` says that while the walk goes on, the expected hash is that
of some trie `below` over the rest of the key, and `below` holds at the rest of
the key what the trie holds at the key. By its hash the next node is the top of
`below`, so the step turns on what that top looks like (`NodeShapes`): a leaf, an
extension over what all keys share, or a branch, each holding the rest of the key
exactly where the walk goes on (`BelowHolds`); that decoding a path undoes
encoding it is `HpRoundTrip`. All of this supposes that the nodes visited were
compared with the hash expected of them, that is, have 32 bytes or more
(`HashesCompared`), and that a hash is that of one content (`IsNode`, which leaves
shorter nodes free); a hash that is not there, because a shorter node stands in
its place, ends the walk (`ReferenceIsListOrHash`). Without `HashesCompared`
`AnswersFromTrie` fails, as TLC confirms. That the client's lists are answered and
shorter ones are not (`HonestProofsAnswered`, `CutProofsRefused`) needs more of
the walk (`Walked`): it stands where a node of the trie starts, and has visited as
many nodes as start above that place. The nodes of the list are those by rank
(`Nth`), so the next of the list is the top of `below`, and the last is the one
that settles the key (`WalkStarts`, `WalkGoesOn`, `WalkEnds`).

*The jobs.* `verify_mpt_proof` as one call is that walk (`VerifyStages`,
`VerifyWalked`), so it answers only what the trie with the root holds, and the
client's list with it (`VerifySound`, `VerifyComplete`). `StateInv` adds what a
job knows between its requests: the answer is that of one state
(`AnswerHonest`) and the root that of one (`RootHonest`), not necessarily the
same and not necessarily still of the chain; the output is that of an L2 block
(`L2PartsHonest`); and a job that is done has verified its parts against the
root (`Checked`). Both chains are runs of well-formed states
(`IsChain`), also after the newest L1 block is replaced. Proved:
`JobsAnswerOfOneBlock`, `MessagesProvenWereSent`, `HonestPartsAreAccepted`.
`StateInv` speaks of all states, which TLC cannot enumerate; the run checks the
three properties.

*The branches.* A header that is accepted is the finalized one, a committee that
is accepted with a branch as long as its place is deep is the next one, and with a
shorter branch it is the node of the state above (`AcceptedOnlyInTheirPlace`),
whatever siblings come with it and whatever 32 bytes are claimed.
`BranchInv` says that the hash is the last of those made by the siblings so far
(`Climbs`). Read from the root down (`GoesDown`, `DownTheTree`), the bits of the
subtree index, 41 or 23, at each shift say which half of each node was taken
(`FinalityBits`, `RotationBits`). With as many siblings as the place is deep, that
is the place. A header with fewer would be an inner node or a field of another
shape (`ShortBranch`, `HeaderInNoShortPlace`), with more it would have to go on
below a node that is not a pair (`LongBranch`, `FieldNumber`). A header root
determines the header (`HeaderRootInjective`). Upwards, the siblings of the state
tree lead to its root (`WayUp`): `HonestBranchesAccepted`, for states of either
layout.

`SyncStoreProofs` (any chain, periods, batch size, answers of any length, any
number of processes): `SyncInv` says that every store, in memory or in the file,
is one that some block of the chain accounts for (`StoreFits`): its head is the
checkpoint final in that block, neither committee is newer than the one after
the block's period, and what is announced is no older than what is current. The
last part is what `CommitteesForward` says of the next step, and the block is
what makes it inductive: an announced committee can become current long after,
from an update whose own period says nothing of it; a later checkpoint is one of
a later block (`LaterBlock`), so what that update announces is no older.
`BatchFits` carries this through the updates of a batch: that the recursive
function in `ApplyUpdates` exists, and what it returns at every index, is shown
by the least index where it would fail (`StagesExist`, `LeastNumber`). Proved:
`SyncTypeCorrect` and `CommitteesNeverBack`, for any number of processes at once,
and `SavedHeadKept`, for behaviours in which no two run at a time
(`OneAtATime`); with two at a time the saved head does go back. It needs
`FileBehind`: a running process is never behind the file.

`ProofServerProofs` (any number of jobs, chains of any length): `ServerInv` says
of each task where its job stands (`StatusMatches`), and that an update between
its two requests is the one of some block of the chain (`FetchedAt`). Fetched at
the newest block, its signature slot is the next one and the committee follows
from it, however far the chain has moved on. Proved: `ServerTypeCorrect`,
`FullProofsAreOfSigners`, `OutcomesAreKept`.

`RelayerProofs` (any chain, any table of forks in the order of their epochs, as
`config.rs` lists them, any number of operators): `RelayInv` says that what
`bin/main` holds is an update of a block of the chain, and that the fixture and
every copy a run of the script holds carry the placeholder of the period of a
block whose finalized slot they name (`EvmProof`). `RefusedForOtherCommittee`
needs that the fork version chosen is the one in force (`ForkVersionRight`): the
greatest index of a sorted table and the number of forks reached are the same
(`LowerIndices`). `StaysInPeriod` follows since placeholders of different
periods differ and no fixture announces a committee, so no update can rotate.
The run has one operator, the theorem any number.

That proofs pay off beyond the bounds showed when `FullProofsMatchSigners` could
not be proved: with three slots in a period TLC then found a counterexample that
two slots had hidden. The model had let the guest choose the slot of the
signature of an update that it was handed; now it is the slot the update names.

Only model-checked: the liveness properties (`EveryFinalitySaved`, `JobsEnd`,
`CatchesUp`), which TLC checks under fairness that the provers do not handle.
No safety property is left to TLC alone. What recursion over data occurs in what
is proved (the batch in `ApplyUpdates`, `verify_mpt_proof` as one call, the tree of
a beacon state) is a recursive function; that it exists is shown by its least
counterexample, since the library's induction theorems cannot be instantiated.

## 5. What is abstracted, and what is not modelled

- SHA-256, Keccak and BLS are ideal: distinct inputs have distinct hashes, and a
  hash is told from an integer's chunk and from the root of anything else
  (`IsRoot`: parent, state, body and committee roots of the chain are opaque). In
  `GuestProgram` a Merkle branch proves what it claims, or that the committee
  claimed is another node of the state; `AcceptedOnlyInTheirPlace` justifies that
  for headers with any siblings and for committees with branches up to the depth
  of their place. Longer branches of a committee lead below some other field; the
  model lets them announce `InnerNode`. More than 31 siblings are left out: what
  the shift does then depends on how the guest is built.
- RLP is abstracted to the items of a list, and addresses, slots, words and
  accounts to what distinguishes them. Nodes of less than 32 bytes stand in
  their parents (`Short`; in `walks` the leaf of a one-byte value with no nibble
  left), and the proofs the client lists do not name them. In `walks` a list may
  name some as nodes of their own, for which `mpt.rs:342` compares no hash. The
  parts that `state` puts together are served by honest clients and name none.
- An empty trie has no nodes and every proof about it is refused (`mpt.rs:322`);
  an account that does not exist gets the zero root, under which nothing can be
  proved. Both are in the model, and why `HonestPartsAccepted` asks for storage.
- The L2OutputOracle's address is an input of the guest and a constant here. L2
  output roots are read from the array as the code reads it.
- The endpoint answers each request for one block. That the server verifies
  slots against the storage root the answer names (`api.rs:518`) makes no
  difference then, and no property covers it.
- In the system and in `Relayer`, answers of the beacon node are those of the
  canonical chain with full participation, once per slot: no slot is skipped, so
  that the slot before a signature is always that of the attested block.
- `finality_update_to_proof_inputs` and `full_update_to_proof_inputs` leave out
  the `block_inclusion` field that `ProofInputs` has (`beacon_api.rs:513,593`), so
  does `bin/main` for its mock inputs; the model takes it as absent.
- `Relayer` has one operator in the run; mock inputs and `--prove` of `bin/main`,
  whose proof goes nowhere, are left out. The initialization gap of 8192 slots is
  a period.
- In the system the prover's `fork_version`, genesis data and the storage, L2
  and inclusion inputs are absent; they do not meet the consensus values. The
  signature slot the prover states is not bound to the signature, so it is chosen
  freely; the slot it was really made in (`signedIn` of `VerifySignature`) is what
  decides on the committee that signed. The server and the commands pass on the
  slot the node gave.
- Trusted checkpoints are canonical finalized blocks with a committee of their
  period or a later one. The placeholder roots that `DeployAndVerify.s.sol`
  passes are in `Relayer`, and the contract alone is run with zero roots too.
- The `sync` run has one process at a time; two on one file overwrite each other,
  which the code does not prevent. A batch size of 0 (the walk never ends) is
  excluded by an assumption.
- `ProofServer` abstracts a storage job to one step, which `StateProofJobs` takes
  apart, and the growth of the job
  map is not bounded by the code or the model. The store it reads at start never
  changes and is left out.
- Not modelled: BLS and the committee hash, curve arithmetic that TLC cannot
  evaluate; the tables of `config.rs`; JSON and hex parsing; `extract_*` of
  `block_inclusion.rs`, which the verification never calls; `bin/vkey.rs`,
  `bin/integration_test.rs`, `Deploy.s.sol`, tests and CI, which keep no state.

## 6. Plan

Modelled, in the order of importance: contract; chain, guest and system with the
refinement and its proof; block inclusion and oracle with their proofs; store;
server; tree walks; state proofs; the commands. Each of them has its safety
properties proved. What could come next:

1. state proofs gathered from prover-made parts, with nodes of less than 32 bytes
   listed by themselves, and what then still holds of messages and withdrawals;
2. two processes on one store file as a run of its own, with what they promise
   when they overwrite each other;
3. the aggregation of signatures in `bls.rs`: which members' keys are added up,
   over an abstract group.
