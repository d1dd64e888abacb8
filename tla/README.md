# Verification of pbft_impl

This directory holds TLA+ specifications of `wupeaking/pbft_impl`, a block chain
platform in Go whose verifiers agree on blocks by a variant of PBFT; TLC
configurations that check them on small instances; and proofs, checked by TLAPS,
that hold for every value of the constants.

## 1. The system

A node is one process. Its parts run in goroutines of their own and share the
world state `ws` (height, hash of the highest block, view) by pointer.

| Part | Source | State | Operations | Talks to |
|---|---|---|---|---|
| Consensus engine | `consensus/states.go`, `pbft.go` | `sm.state`, `sm.receivedBlock`, three timers, `StopFlag`, the queue `Msgs` | `Daemon`: handle a message, poll, time out, ask for a proposal; `Start`, `Stop` | log, broadcast routine, pool, vm, `ws` |
| Message log | `consensus/log_msg.go` | `StateMsgs`, `BlockMsg` by (height, view) | `AppendMsg`, `addMsg`, `addBlock`, searches, garbage collection | engine |
| Broadcast routine | `consensus/broadcast.go` | `broadcastSig`, `curBroadcastMsg` | broadcast a log entry once; every 4 s repeat a ViewChange | log, network |
| Blocks | `consensus/block.go`, `verify.go` | none of their own | `packageBlock`, `TryApplyBlock`, `CommitBlock`, signatures | pool, vm, `ws` |
| Transaction pool | `transaction/pool.go`, `tx.go` | a linked list with a reading cursor | `AddTx`, `GetTx`, `RemoveTx` | network, blocks |
| Virtual machine | `cvm` | accounts through the cache | `Eval` on a snapshot, `Exec` on the store | cache |
| World state, cache, store | `storage` | `ws`, LRU caches over leveldb | insert, read, recover (`GetBlockMeta`) | all |
| Blockchain module | `blockchain` | heights of peers, downloaded blocks, requests | ask for heights, stop the engine, download, commit, start the engine | engine, network |
| Networks | `network` | the book of peers, streams with two goroutines each | dial, accept, broadcast, send to a peer, remove a peer, call the module a message is for | all |
| Node | `node/run.go` | | make the genesis block, load accounts, read back the world state, start the rest | all |
| APIs, commands | `api`, `cmd`, ... | | queries, wiring | |

How a block is made: each verifier's `tryProposalTimer` sends a NewBlockProposal
for its slot (height + 1, view). The primary of the slot, verifier
(height + 1 + view) mod n, packs a block and broadcasts it in a PrePrepare. A
replica signs the block, passes it on in its Prepare, and waits for a quorum of
Prepares (Preparing), for a block with enough signatures (Checking) and for a
quorum of Commits (Committing); then it executes and stores the block (Finished).
Ten seconds without progress, or a block that does not execute, lead to
ViewChanging, where a quorum of ViewChange messages starts the next view. A node
that hears of a greater height stops its engine, downloads blocks and starts it
again.

What makes this hard to get right and to test:

- a message reaches the daemon through a goroutine of its own, so the messages of
  one peer overtake each other; each is broadcast once;
- votes name a slot, not a block, and signatures are merged by slot;
- the view change carries nothing over;
- a crash keeps the chain and the last block's view and forgets log and votes;
- the blockchain module stops, starts and overtakes the engine at any moment;
- the pool is used by the network, the packer and the executor at once;
- a block is stored in a dozen writes without a transaction around them, and two
  goroutines commit blocks, with no lock between them;
- an account read from the cache is the cached object, one read from the store a copy;
- the book has one entry for a peer however many streams there are to it.

`PROJECT.json` lists these hazards line by line with the properties that cover
them, and what no property covers yet.

## 2. The modules

| Module | What it is |
|---|---|
| `PbftBase` | verifiers, quorum size, primary, blocks |
| `PbftProtocol` | the abstract specification: what replicas may sign and commit, without queues and logs |
| `Pbft` | the engine as it is built: FIFO queue, log, block store, broadcast tasks, timers, network, Stop/Start, restart; implements `PbftProtocol` |
| `PbftProtocol_proofs` | theorems about `PbftProtocol` |
| `TxQueue` | the abstract specification of the pool: a queue, with its two holes |
| `TxPool` | the pool as it is built, and the packer, the executor and the network that use it; implements `TxQueue` |
| `BlockSync` | the blockchain module: learning heights, downloading, filing and committing blocks, stopping and starting the engine |
| `BlockSync_proofs` | theorems about `BlockSync` |
| `Ledger` | one node's databases, account cache and world state, written one value at a time by the two goroutines that commit blocks, with crashes |
| `Ledger_proofs` | theorems about `Ledger` |
| `PeerBook` | libp2p's book of peers: streams, their goroutines, dialing, sending, removing |
| `Pbft_proofs`, `TxPool_proofs`, `PeerBook_proofs` | theorems about these modules, the last of `TxPool_proofs` that the pool implements `TxQueue` |
| `PbftRefinement_proofs` | that the engine implements `PbftProtocol`, and agrees |
| `InductionFacts` | induction over numbers and finite sets, recursive functions, sums: what the proofs about `TxPool` and `Ledger` rest on |
| `MCPbftProtocol`, `MCPbft`, `MCTxPool`, `MCLedger` | instances for TLC: symmetry, a view, accounts and payments |

### PbftProtocol

One set each of signed proposals (`proposals`), signatures on blocks (`sigs`) and
signed votes (`msgs`); nothing is ever removed, and a replica may act on any part
of it at any time. That covers every delay, loss and reordering: a message that
is lost is one that nobody acts on. Each action is one state of `StateMigrate`
with one outcome. `Holdings` says when `receivedBlock` may become the slot's
block: when enough verifiers have signed *some* block of the slot, because
`addBlock` merges signatures by slot.

### Pbft

One iteration of the daemon's `select` is one action: `HandleOwn` (the next
message of its own queue), `HandleNet` (a message of a peer; `msgOnRecv` runs in a
goroutine per message, so there is no order to keep), `Poll`, `Timeout`,
`TryProposal`. All but the last two go through `StateMigrate`, one operator per
state, each with the whole of what the code does in that state: searches, merging,
the broadcast task, the queued vote, the timer. `Broadcast` and `Rebroadcast` are
the broadcast routine, `Stop` and `Start` what the blockchain module calls,
`Restart` a crash followed by `GetBlockMeta`, after which the engine waits for the
blockchain module to start it, as it does at first. `VerfifyMsg` judges a message
before it is filed, also one the replica has made itself: signatures of verifiers
hold, and a block is evaluated on the receiver's own ledger. It is sure to pass, and
later to commit, only if it `Executes`: it is the next one, its body is not one that
`MayFail` (a transaction packed without a receipt, finding 3), and no commit has
failed half way before (`halfExecuted`); otherwise both outcomes are steps. What
happens to the ledger itself is in `Ledger`.

`proposed` and `voted` are history: the blocks and votes that replicas have signed
(`Sign`, wherever a message is made). Nothing reads them but the refinement mapping:
a message that its own maker refuses has been signed all the same.

Abstractions, besides the bounds:

- A block is its header; `Body` stands for the roots and the time stamp, so two
  packagings of a slot may differ. A hash is what it covers, a signature its
  signer: messages that do not verify are not modelled.
- `received` is a flag: `receivedBlock` always points into `mm.BlockMsg`, so the
  block is the stored one, with what is merged into it later.
- A second task for a log entry, a second copy of a queued message and a message
  about a slot already left change nothing that is read again; they are left out
  where they arise.
- The queues are unbounded (10000 and 100 in the code, which drops what does not
  fit). Garbage collection, at least ten heights back, is left out.
- `Unsteady` names the replicas that may be stopped, restarted or started late.
- `Stop` happens between two iterations of the daemon. In the code it may happen
  inside one, which `Ledger` has.

### TxPool

`next`, `prev`, `tail`, `cursor` and `length` are the fields of the Go structs;
`addValue`, `scanValue` and `delValue` are atomic, as the pool's mutex makes them,
and everything else interleaves between their calls. `packageBlock` reads
batches until one is empty or does not fit (`GetTx`), then evaluates one transaction
at a time (`Eval`). `StartApplying` and `Exec` are `ApplyBlock` for a block that
verifiers have accepted. An evaluation fails when the transaction exists already;
the other errors of `Eval` are those `VerifyTx` has ruled out before.

### BlockSync

One step per stretch of code between two points where a goroutine may wait or
another one may see what it did: the three steps of `SetPeerHight`, which takes a
lock for the last one only; `DownloadBlock`'s rounds and each routine's start,
retry and end; `AddBlock` before and after its block is taken; `Routine` with its
unbuffered hand-over and its search for the block that follows; `Start`. A block
is its number, `0` none. A request and its answer are one token, of which the
network may lose any; which peer answers makes no difference. Two handlers with
the same report, or the same block, at once count as one, and a report that
changes nothing is left out. `EngineCommit` stands for the daemon finishing a
block: any time while `StopFlag` is not set. `CommitBlock` is one step and does not
fail for the next block; what happens inside it is in `Ledger`. `crashed` is the
process ending on the nil peer that `pickPeer` returns
when it finds no other one.

### Ledger

The verifiers have decided `chain`, a sequence of blocks, of which the node
commits each one once: by its daemon, from Committing through Finished, or by the
blockchain module, from the downloaded blocks. A step is a stretch of code that
touches the store, the cache or a variable of the other goroutine once. So the
daemon reads its state (`Poll`), enters Finished, takes the block out of
`receivedBlock`, and `CommitStep` then goes through `CommitBlock` and `ApplyBlock`:
sender read, recipient read and changed, sender, recipient and transaction
inserted, for each transaction; rows of the SQL table; `IncreaseBlockNum`;
`SetValue`; block, number and `block_meta` stored. `TryApplyBlock`, which writes
nothing, is one step. `Eval` and `Exec` are two programs in the code and are two
here: `Eval` works on a snapshot of balances, `Exec` on accounts that are `shared`
with the cache or are copies. `Insert` into a full cache
evicts any account but the other one of the payment (the code: the least recently
used, which the two just read are not). `Crash` ends the process before any
step; what it leaves in the databases stays. `Restart` is `GetGenesisBlock`: without
a genesis it makes one, write by write, then loads the configured accounts one by
one; with one it goes straight to `Run`, which reads `block_meta` and its block and
ends the process (`fatal`) when one is missing. `panicked` is the nil block in
Finished. `overlapped` records that the blockchain module stopped the engine or
began to commit while the daemon was in an iteration or between its vote and its
commit, or the other way round; `selfPaid` adds up what accounts have paid to
themselves. Nothing in the model reads them but properties.

`Evaluation` is the loop over a block's transactions, `Replays` the one over the
blocks, both as recursive functions. There are finitely many accounts; `Money`
adds up their balances.

Left out: errors of the disk; the caches of blocks, transactions and receipts,
which hold immutable values; the loss of writes the operating system has not
flushed. A block is named by its height, for the verifiers have decided it. The
statuses of its receipts are those of its evaluation on the replay of the blocks
before; once an account has paid itself, verifiers with different caches may have
different balances and reckon differently, and a node then refuses the block here
(`TryApplyBlock`) as it does there.

### PeerBook

One node and one peer. `conn[s]` is the connection of stream `s`; streams to a peer
share one. `dataStreamRecv` is `Loop`, `Receive`, `ReceiveFails`, `ReaderForgets`,
`TellsWriter`; `dataStreamSend` is `Write`, `WriterStops`, `WriterForgets`. The writer has
no way out but a token: `packageData` cannot fail, and the `break` after a failed
write leaves the `select` only. A token is seen by a reader between two frames and
by a writer in its select. `Find`, `Dial` and `DialFails` are `SpecialNodeConnect` and
the discovery, which looks in the book, dials, and enters what it gets whatever has
come in since. `PeerDials` and `streamHandler` are an incoming stream.
`BroadcastToPeer`'s goroutine keeps the stream it found and waits at most a minute.
`RemovePeer`'s goroutine looks the peer up when it runs. `Drop` and `Spoilt` are
faults. Messages received and the DHT behind the discovery are left out.

## 3. What is checked

| Run | Instance | Properties | Shows |
|---|---|---|---|
| `protocol3` | N=3, two bodies, heights 1-2, views 0-1 | `TypeOK`, `SlotAgreement`, `Agreement`, `CommittedIsCertified`, `ChainIsLinked`, `NoCommitAfterGivingUp` | the protocol is safe when a quorum is everybody |
| `protocol4_fork` | N=4, one body, height 1, views 0-1 | `Agreement` (violated) | **finding**: two views commit different blocks |
| `pbft2` | N=2, two bodies, heights 1-2, views 0-1, any block refused or failing | `TypeOK`, `VoteIsOnItsWay`, `Agreement`, `ImplementsProtocol` | the engine agrees and implements the protocol across heights, view changes, refused blocks and failing commits |
| `pbft2_live` | N=2, two bodies of which one may fail, height 1, one Stop or restart, fairness | `VoteIsOnItsWay`, `EveryReplicaCommits` | every order of arrival ends in a commit; no vote is waited for that is not cast, also after a Stop or restart |
| `pbft2_restart` | N=2, one body, height 1, views 0-1, one Stop or restart | `Agreement` (violated) | **finding**: a restart leads back into a view given up, and to a fork |
| `pbft3_restart` | N=3, two bodies, one Stop or restart | `ReceivedIsSigned` (violated) | **finding**: signatures on another block are counted |
| `txpool3` | 3 transactions, blocks of 2 | `TypeOK`, `ListIsSound`, `ImplementsQueue` | the list is sound and reads like a queue |
| `txpool_block` | 2 transactions | `PackedBlockIsAccepted` (violated) | **finding**: a repeated transaction spoils the block |
| `sync3` | one peer, 3 blocks, all in one window, fairness | `TypeOK`, `DoneIsKept`, `CatchesUp` | no block is lost; the node catches up, or a retry ends it |
| `sync2_stuck` | 2 peers, 2 blocks, windows of 1, fairness | `CatchesUp` (violated) | **finding**: a routine is never told that its block is there |
| `ledger` | 3 accounts, 3 payments of which one to oneself, 2 blocks of up to 2, cache of 2, one crash | `TypeOK`, `LedgerIsReplay`, `MoneyIsNeverCreated`, `StoredHeightHasItsBlock`, `StartsAgain`, `OneBlockIsHalfDone` | the databases are the replay of the decided blocks; a crash costs no more than the properties say |
| `peerbook` | 4 streams, 3 connections, one fault, one message, fairness | `TypeOK`, `LosesPlaceToAnother`, `StreamsEnd`, `StaysReachable` | goroutines of dead streams end, and the peer is reachable in the end |

**Bounds.** Two heights are the least at which a chain can have a hole and
messages of another height are about; two views the least at which a slot can be
given up; three verifiers the least at which signatures are merged, and the most
for which a quorum is everybody; four the least for which it is not. Two bodies
are as many as agreement can tell apart, and one is enough where the blocks of two
views are to differ. In `pbft2` one verifier's
proposal timer fires: any NewBlockProposal sets every replica going, and the
others' are refused or change nothing once a replica has left NotStarted;
`pbft2_live` lets all fire. No passing run has three engines: with a view change
they are out of TLC's reach, without one the slot has one block and nothing can go
wrong with its signatures; the theorems of section 5 are for any number. `pbft2_live`
has no view change, for a timer that fires lets the property go, and its Stop or
restart is there for `VoteIsOnItsWay` (`EveryReplicaCommits` lets go of it).
`pbft2_restart` looks for one behaviour among those in which one replica's own
messages wait at a time (`OneBusy`), which is enough to find it. Three transactions are enough to
remove the last of a list and to add behind the rest. Replicas stop at `MaxNum`,
so runs of the consensus modules do not check for deadlock; nor do those of
`BlockSync`, whose process may end. There three blocks are the least for one to
come two early, which is when `Start` may receive it too soon and leave it; the
second peer of `sync2_stuck` lets a routine ask again and live. In `ledger` the
second payment has no sender before the first and the third cannot be paid before
the second, so their order, the account made on the way and a payment refused all
occur; the third is to its own sender, whose account is cached or not; a cache of
two of three accounts evicts; two blocks are the least for the
daemon to commit one while the blockchain module commits the other. In `peerbook` three streams are the least for one to end,
delete the entry of another, and have the node dial a third.

**Symmetry and view.** Bodies and transactions are symmetric. Verifiers are not:
the primary depends on the index. The restart runs use the view `StateView`, which
forgets log entries, blocks and copies of messages that no step can read again;
the definition says why. `pbft2` uses `HistoryView`, which keeps what the refinement
mapping reads besides.

**Refinement.** `Pbft!P` maps the engine to `PbftProtocol`: the signed proposals and
votes are the history, the signatures on blocks are those in the store of the one
who signed. Most iterations are stuttering steps. A message that is refused, by its
maker too, is one that nobody acts on; a late start is only late, and the timer it
may lose is `LoseTimer` of the protocol. Stops and restarts make a replica sign twice
and are no steps of the protocol, so `ImplementsProtocol` is checked without.

**Fairness.** `EveryReplicaCommits` assumes that the daemon keeps taking from its
channel and polling, that the broadcast routine runs, that the proposal timer,
which is reset each time it fires, keeps firing, and that each message on its way
is handled. The last holds for connected peers: a message is queued and the
daemon serves the queue. Nothing is assumed about `Timeout`, `Stop`, `Start` and
`Restart`, and the property lets
go of a behaviour in which a replica is or was stopped or comes to
ViewChanging, where a vote may be lost for good, or in which a block is packed that a
ledger may fail to execute: one with a repeated transaction is refused by all,
its packer included (finding 3). With two heights it does not hold:
`AppendMsg` compares a block's packer with the primary of the receiver's own slot,
and `verfifyBlock` evaluates a block on the receiver's own ledger, so a PrePrepare
that comes a height early leaves its message without its block, or is refused, and
is not sent again; the slot then ends in a timeout.

`CatchesUp` assumes that goroutines keep running and tickers firing, that a peer
keeps telling its height (it is asked every second), and that one that is asked
again and again answers at last, which is the one strong fairness. The conditions
are on groups of steps, weaker than what Go gives each goroutine. Nothing is
assumed about losses, the engine, or how soon a token to stop it is taken.

`PeerBook!FairSpec` assumes that goroutines go on, that a token waiting in a select
is chosen in the end, that the dialer keeps looking and, the one strong fairness,
that dialing a peer that is there succeeds in the end. Nothing is assumed of the
peer, the network or the arrival of a frame. `StaysReachable` lets go of behaviours
that use up the bound on streams.

**Exceptions of the ledger's properties.** `overlapped`, `metaDB = None`, `selfPaid` and,
in `LedgerIsReplay`, `crashes = 0` name what the code does wrong: without any one
of them the property that states it is violated (see 4).

## 4. What is found

1. **Fork across views (N >= 4).** In `protocol4_fork`, replicas commit in view 0
   on the Commits of three; two of the three time out before they see the quorum,
   ask with the fourth for view 1, and commit another block of the same height.
   `SmallGroupsAgree` proves that this needs four verifiers.
2. **Fork after a restart.** In `pbft2_restart`, two verifiers vote in view 0, time
   out and go on to view 1, where one commits. The other restarts: the stored view is
   that of the last block, so it is back in view 0, and votes of that view that come
   late, or once more, make it commit there. PBFT keeps its log over a restart; the
   model has votes delayed past it, as an asynchronous network may.
3. **Repeated transaction.** A transaction that fails its evaluation gets no receipt
   but stays in the block, and `TryApplyBlock` rejects the block, at its packer too.
4. **Merged signatures.** `addBlock` merges SignPairs by signer. After a Stop and Start,
   or a restart, the primary packs its slot again; a replica that holds one block
   merges a signature on the other, and holds on to, and votes for, a block its peers
   would refuse to download (`VerfifyMostBlock`); run `pbft3_restart`.
5. **Stuck download.** `AddBlock` returns without a signal when the block has been
   committed while it was asked for, by the engine or, when a round began early, by
   `Start`. The routine asks for ever, `DownloadBlock` waits for it, and the node
   never asks for another block.

`CatchesUp` states one more as its alternative `crashed`: a retry excludes the peer
asked last, so a node with one peer ahead of it ends on a nil pointer at the first
answer that takes five seconds.

`TxQueue` states two more as alternatives without which `ImplementsQueue` fails:
`delValue` of the last node sets `tail` to nil though other nodes remain, so the
next transaction is not linked to them and is never read; and the batch that
does not fit into a block is read and lost.

The properties of `Ledger` name what they cannot hold without:

- `crashes = 0`: a crash between the first transaction's insert and `block_meta`
  leaves a node that executes the block again, fails with "transaction exists", and
  never moves on; one that dies while configured accounts are loaded never loads
  the rest. `OneBlockIsHalfDone` says that this is all: nothing beyond the next block
  has been executed.
- `overlapped`: `Stop`, or a block committed by the blockchain module, between the
  daemon's decision to commit and the commit gives it a nil block to commit, or
  lets both execute one block and increase the height twice.
- `metaDB = None`: a node that dies between its first genesis write and `block_meta`
  finds a number without a block, or a genesis without a height, and ends at every
  start.
- `selfPaid`: in a payment to oneself `Exec` works on one object when the account is
  cached and on two copies when it is read from the store, of which the recipient's
  is stored last; then the payment creates money, and verifiers with different
  caches differ. `MoneyIsNeverCreated` says that it creates no more than its amount.

The pool sends every valid transaction on to all peers but its sender, known or
not, so that three connected nodes pass it round until it expires; no module has
this gossip.

## 5. What is proved

Every invariant, action property and refinement that a passing run checks is also
proved, each for all values of the constants, some under hypotheses that are part
of the theorem and are explained below. The assumptions on the constants are the `ASSUME`s of the
modules: the bounds are numbers, there is a verifier, a cache holds the two
accounts of a payment, and the like.

### The protocol

`PbftProtocol_proofs` proves, for every `N`, `Bodies`, `MaxNum` and `MaxView`:

| Theorem | States |
|---|---|
| `TypeCorrect` | `Spec => []TypeOK` |
| `Invariance` | `Spec => []IInv` |
| `OneBlockPerSlot` | `Spec => []SlotAgreement` |
| `CommittedAreCertified` | `Spec => []CommittedIsCertified` |
| `ChainsAreLinked` | `Spec => []ChainIsLinked` |
| `ViewChangeIsAPromise` | `Spec => []NoCommitAfterGivingUp` |
| `SmallGroupsAgree` | `Spec => []Agreement`, assuming `N <= 3` |

None of the properties is inductive. `IInv` adds, in layers of which each rests
on those before:

- `ProposalInv`: a slot has one proposal, made by its primary, which has moved on
  from NotStarted or from the slot. A primary that could propose again would
  break everything after it.
- `BlockInv`: signatures are on proposed blocks, so the signers of a slot sign
  its only block, and merging by slot does no harm (`SlotSignersSignTheBlock`,
  `HoldingsAreSigned`).
- `StateInv`: what a replica holds and what has been voted, by state: one in
  Finished holds a block and has seen quorums prepare and commit.
- `ChainInv`: blocks are linked and `blockID` is the hash of the highest one.
- `GivenUpInv`: a replica that asked to leave a slot is in ViewChanging or gone.
- `ViewInv`: a view is entered only after a quorum asked to leave the one before.

For `N <= 3` a quorum is everybody, so `ViewInv` says that *each* replica gave up
the earlier view, and `GivenUpInv` that none of them committed there: the two
blocks of a fork would have to be of one slot, which `SlotAgreement` excludes
(`CommitAgrees`). From four verifiers on the argument breaks, and so does the
property.

### The engine

`Pbft_proofs` proves, for any number of verifiers, bodies and bounds:

| Theorem | States |
|---|---|
| `TypeCorrect` | `Spec => []TypeOK` |
| `VoteIsCast` | `Spec => []VoteIsOnItsWay` |
| `ReceivedBlockIsSigned` | `Spec => []ReceivedIsSigned`, assuming `MaxFaults = 0` |

The first two hold under any stops, starts and restarts. `TypeInv` says more than
`TypeOK`: log, store and queue hold messages and blocks of the slots they are filed
under, and signatures are of verifiers. `VoteInv` adds to `VoteIsOnItsWay` that a
timer runs in every state but NotStarted and ViewChanging, so that who enters
ViewChanging without a vote enters with a timer, and that votes carry no block, so
their sender cannot refuse them.

`ReceivedIsSigned` is false after a Stop or a restart (finding 4), whence `MaxFaults = 0`.
Without one, `CalmBlockInv` says of *all* blocks that are anywhere, in stores,
logs, queues and on the network (`Held`), that those of one slot are the same block,
that the primary of a block's slot has left NotStarted there (`Begun`), so it packs no
other, and that each signature is on the block it stands under. So merging by
slot is sound, and a received block keeps its signers.

`PbftRefinement_proofs` proves, for any bodies, heights and views, and whatever
blocks are refused or fail:

| Theorem | States |
|---|---|
| `EngineImplementsProtocol` | `Spec => ImplementsProtocol`, the refinement mapping of section 3, assuming `MaxFaults = 0` |
| `EngineAgrees` | `Spec => []Agreement`, assuming `MaxFaults = 0` and `N <= 3` |

The hypotheses are needed: `PbftProtocol` has no stops or restarts, after which a
replica signs again and a fork is possible (finding 2), and four verifiers fork
without (finding 1). `EngineImplementsProtocol` is for any number of verifiers; its
invariant `EngineInv` is `CalmBlockInv` and

- `LogInv`, `OwnInv`, `NetInv`: what is logged, queued or sent in a replica's name has
  been signed by it, so a quorum of entries in one log is a quorum of the protocol;
- `ReplicaInv`: proposal, Prepare, signature and state of a replica come in the code's
  order;
- `ProposedInv`, `SignerInv`: a block anywhere was proposed, and a signature anywhere
  is one its signer holds in its own store.

`EngineAgrees` carries `EngineInv` together with the protocol's `IInv` and `Agreement`
under the mapping, so that `SmallGroupsAgree` applies.

Filing a message is a stuttering step; each state of `StateMigrate` is one lemma
that names the action of the protocol it takes.

### The pool

`TxPool_proofs` proves, for any set of transactions, capacity and batch size:

| Theorem | States |
|---|---|
| `TypeCorrect` | `Spec => []TypeOK` |
| `ListStaysSound` | `Spec => []ListIsSound` |
| `PoolIsAQueue` | `Spec => ImplementsQueue` |

`ListInv` adds to `ListIsSound` that the list has no cycle (`Ordered`: its nodes can be
numbered so that `next` leads to a larger number); without it, removing the node
between could make a node point to itself. For the refinement the abstract
queue is what `scanned`, a recursive function, reads from the cursor on; the lemmas
say what adding behind the tail, removing and moving the cursor do to it.
`delValue` of the last node is a step with which the queue loses what is added
after, as `TxQueue` says.

### Downloads, ledger, peers

`BlockSync_proofs` proves, for any peers, heights and window (`SyncAssumption`):

| Theorem | States |
|---|---|
| `SyncTypeCorrect` | `Spec => []TypeOK` |
| `FinishedDownloadsAreKept` | `Spec => []DoneIsKept` |

`DoneIsKept` is inductive together with `OnItsWay`: what `Routine` offers first is
at most the next block, and stays so, because heights only grow; what it offers
after that is filed. So when `Start` drops a block it is committed or still filed.

`Ledger_proofs` proves, for any finite set of accounts, payments, chain, cache size,
number of blocks and of crashes (`LedgerAssumption`):

| Theorem | States |
|---|---|
| `Invariance` | `Spec => []IInv` |
| `StoredHeightHasItsBlockHolds` | `Spec => []StoredHeightHasItsBlock` |
| `StartsAgainHolds` | `Spec => []StartsAgain` |
| `TypeInvariance`, `TypeCorrect` | `Spec => []TypeInv`, `Spec => []TypeOK` |
| `LedgerInvariance`, `ReplayCorrect` | `Spec => []LedgerInv`, `Spec => []LedgerIsReplay` |
| `HalfDoneCorrect` | `Spec => []OneBlockIsHalfDone` |
| `MoneyCorrect` | `Spec => []MoneyIsNeverCreated`, assuming `ConfiguredOnce` |

`ConfiguredOnce`, no address is configured twice, is needed: the genesis counts an
address once, with its last amount, but a node that is still loading its accounts,
or died doing so, may have stored a greater one.

`IInv` is `Values`, the ranges the argument needs; `NotRunning`, a dead process has
no goroutine at work; and, while the committers have not been at work at once,
`Ordered`: what each phase of the start has stored (`GenesisOrder`), what each
statement of a commit has stored (`CommitOrder`), that between blocks the height is
`block_meta`'s (`Settled`), that the daemon is not about to commit while the
blockchain module does (`Apart`), that it has its block in hand (`InHand`), and that
`block_meta`'s block is stored (`Stored`). Neither property is inductive: that
`block_meta` may be written follows from where the writer stands, that the writer
stands alone from `Apart`, and that a restart finds what it needs from all of them.

`TypeInv` holds even when the committers meet: `WorkInv`, a committer in a payment has
that payment; `BoundInv`, two that execute one block at once can take the height past the
chain by one, and no further; `AccountInv`, an object that
is shared with the cache is in it, whatever is evicted.

`LedgerInv` is what `Exec` and the cache do, seen from the decided blocks:

- `CacheInv`: a cached balance is the stored one, unless a committer is between
  changing the object and storing it;
- `HeightInv`: height and hash agree but for the two statements that set them;
- `HandInv`: what the committer has in hand, shared or copied, is the balance before
  its payment or after it, by statement, or at most that when an account pays itself;
- `BootInv`: what a starting process has stored;
- `ReplayInv`: at each statement the databases are so many transactions into the
  replay of the blocks, so that between blocks they are the replay.

That `Exec` finds what `Eval` found needs that no evaluation of a decided block
fails (`NothingFails`), which goes back from the block's end: a failure stays.
`MoneyInv` says that an amount is missing while its sender has been stored and its
recipient has not, and that there is never more than was issued and accounts have
paid themselves; crashes keep it missing.

`PeerBook_proofs` proves, for any bounds:

| Theorem | States |
|---|---|
| `TypeCorrect` | `Spec => []TypeOK` |
| `PlaceIsLostToAnother` | `Spec => LosesPlaceToAnother`, an action property |

The invariant is `TypeOK` with `ToldInv`, a removal that tells has one to tell, and
`ClosedInv`: connections are numbered as they come, and a goroutine that is about to
look into the book has closed its stream's connection, so only another stream
takes the place of one that is open.

**Induction over data.** `Evaluation`, `Replays`, the pool's list and `Money` are
recursive functions. `InductionFacts` states induction as a fact about sets, e.g.
that a set with 0 which is closed under successor holds every number, and derives
what a recursive function on `0 .. n` and a sum over a finite set are; the
proofs cite it.

**Only model-checked:** liveness (`EveryReplicaCommits`, `CatchesUp`, `StreamsEnd`,
`StaysReachable`), which TLAPS cannot prove, and the findings, which are
counterexamples.

## 6. What is not modelled, and the plan

1. *(done)* `PbftBase`, `PbftProtocol`, `Pbft`, `PbftProtocol_proofs`, `TxQueue`, `TxPool`,
   `BlockSync`, `BlockSync_proofs`, `Ledger` (with the race of the two committers),
   `Ledger_proofs`, `PeerBook`, `PeerBook_proofs`, `TxPool_proofs`, `Pbft_proofs`,
   `PbftRefinement_proofs`, `InductionFacts`.
2. Next: a gossip module for transactions; liveness of several heights, which needs
   timeouts and the blockchain module beside `Pbft`; queues that are full.

Not modelled: cryptography, encodings and generated code; errors of the disk;
`garbageCollection` of the log, ten heights back; the HTTP network, which keeps no
streams, and whose queue that drops what does not fit is, to consensus, the network
of `Pbft`; the DHT; a node that is no verifier; the HTTP APIs, configuration and
command-line tools, which hold no state the rest depends on; the front end. The
generated `model/*.pb.go` are a quarter of the repository's lines: only the types in
them are mapped.

## 7. Running

    tlc -workers 2 -config Protocol3.cfg MCPbftProtocol
    tlc -workers 2 -config Pbft2.cfg MCPbft
    tlc -workers 2 -config TxPool3.cfg MCTxPool
    tlc -workers 2 -config Sync3.cfg BlockSync
    tlc -workers 2 -config Ledger.cfg MCLedger
    tlc -workers 2 -config PeerBook.cfg PeerBook
    tlapm PbftProtocol_proofs.tla
    tlapm Pbft_proofs.tla
    tlapm PbftRefinement_proofs.tla
    tlapm TxPool_proofs.tla
    tlapm BlockSync_proofs.tla
    tlapm InductionFacts.tla
    tlapm Ledger_proofs.tla
    tlapm PeerBook_proofs.tla

`PROJECT.json` names the module and configuration of each run, the mutants that
show each property to be about the code, and the source lines of each definition.
