---------------------------- MODULE PbftProtocol ----------------------------
(***************************************************************************)
(* What package consensus promises, told without its machinery: no message *)
(* queue, no message log, no broadcast routine, no polling.  A replica     *)
(* acts on what the verifiers have signed so far.  Module Pbft models the  *)
(* daemon that does this with queues and logs, and implements this one.    *)
(*                                                                         *)
(* Signed messages never disappear here and each replica may act on any    *)
(* part of them at any time, which stands for every delay, loss and        *)
(* reordering by the network.  Replicas neither restart nor are stopped.   *)
(***************************************************************************)
EXTENDS PbftBase

CONSTANTS
    MaxNum,   \* bound: the height at which a replica stops taking steps
    MaxView   \* bound: the view from which no timer fires

ASSUME BoundAssumption == MaxNum \in Nat /\ MaxView \in Nat

VARIABLES
    blockNum,    \* ws.BlockNum of each replica
    blockID,     \* ws.BlockID: the hash of its highest block
    view,        \* ws.View
    committed,   \* the blocks it has stored by CommitBlock
    state,       \* sm.state
    received,    \* sm.receivedBlock: {} for nil, else the one block
    timer,       \* is stateTimeout armed?
    proposals,   \* the blocks packed into a signed PrePrepare
    sigs,        \* SignPairs: who has signed which block, besides the packer
    msgs         \* the Prepare, Commit and ViewChange messages signed

vars == <<blockNum, blockID, view, committed, state, received, timer,
          proposals, sigs, msgs>>

States == {"NotStarted", "PrePreparing", "Preparing", "Checking",
           "Committing", "Finished", "ViewChanging"}

MsgTypes == {"Prepare", "Commit", "ViewChange"}

Message == [type : MsgTypes, num : Nat, view : Nat, from : Node]

TypeOK ==
    /\ blockNum \in [Node -> Nat]
    /\ blockID \in [Node -> Nat \X Nat \X (Bodies \cup {0})]
    /\ view \in [Node -> Nat]
    /\ committed \in [Node -> SUBSET Block]
    /\ state \in [Node -> States]
    /\ received \in [Node -> SUBSET Block]
    /\ timer \in [Node -> BOOLEAN]
    /\ proposals \subseteq Block
    /\ sigs \subseteq [block : Block, by : Node]
    /\ msgs \subseteq Message

\* The timer is armed at start-up, before the first proposal.
Init ==
    /\ blockNum = [n \in Node |-> 0]
    /\ blockID = [n \in Node |-> GenesisHash]
    /\ view = [n \in Node |-> 0]
    /\ committed = [n \in Node |-> {}]
    /\ state = [n \in Node |-> "NotStarted"]
    /\ received = [n \in Node |-> {}]
    /\ timer = [n \in Node |-> TRUE]
    /\ proposals = {}
    /\ sigs = {}
    /\ msgs = {}

-----------------------------------------------------------------------------

Active(n) == blockNum[n] < MaxNum

IsPrimary(n) == n = Primary(blockNum[n] + 1, view[n])

Msg(n, type) == [type |-> type, num |-> blockNum[n] + 1, view |-> view[n], from |-> n]

\* The verifiers whose message of this type for the slot has been signed.
Senders(num, v, type) ==
    {p \in Node : [type |-> type, num |-> num, view |-> v, from |-> p] \in msgs}

HasQuorum(num, v, type) ==
    Cardinality(Senders(num, v, type)) >= minNodeNum

\* Enough verifiers besides the packer have put a signature on a block of this
\* slot.  The message log merges SignPairs by slot and does not look at the
\* block they sign.
SignedSlot(num, v) ==
    Cardinality({p \in Node : \E s \in sigs :
                    s.by = p /\ s.block.num = num /\ s.block.view = v}) + 1 >= minNodeNum

\* The block proposed for a replica's slot.
Proposed(n) == {b \in proposals : b.num = blockNum[n] + 1 /\ b.view = view[n]}

UnsignedHoldings(n) == {received[n]} \cup {{b} : b \in Proposed(n)}

\* What receivedBlock may hold after the replica has looked for the block of
\* its slot: what it held, or, if nothing, the block once enough have signed.
Holdings(n) ==
    {received[n]} \cup
    (IF received[n] = {} /\ SignedSlot(blockNum[n] + 1, view[n])
     THEN {{b} : b \in Proposed(n)}
     ELSE {})

\* ChangeState: states other than NotStarted and ViewChanging restart the
\* timer; NotStarted stops it and, like ViewChanging, forgets the block.
Enter(n, s) ==
    /\ state' = [state EXCEPT ![n] = s]
    /\ timer' = [timer EXCEPT ![n] = s # "NotStarted"]

-----------------------------------------------------------------------------

\* A primary that proposes and stays where it may propose again.
ProposeAndStay(n) ==
    /\ Active(n)
    /\ state[n] = "NotStarted"
    /\ IsPrimary(n)
    /\ Cardinality(Proposed(n)) < 2
    /\ \E body \in Bodies :
          proposals' = proposals \cup
              {[num |-> blockNum[n] + 1, view |-> view[n],
                prev |-> blockID[n], body |-> body]}
    /\ \/ Enter(n, "Preparing")
       \/ UNCHANGED <<state, timer>>
    /\ UNCHANGED <<blockNum, blockID, view, committed, received, sigs, msgs>>

\* The primary packs a block on its highest one and proposes it.
Propose(n) ==
    /\ Active(n)
    /\ state[n] = "NotStarted"
    /\ IsPrimary(n)
    /\ \E body \in Bodies :
          proposals' = proposals \cup
              {[num |-> blockNum[n] + 1, view |-> view[n],
                prev |-> blockID[n], body |-> body]}
    /\ Enter(n, "Preparing")
    /\ UNCHANGED <<blockNum, blockID, view, committed, received, sigs, msgs>>

\* A replica that enters the state named like the message it waits for.
AwaitInWrongState(n) ==
    /\ Active(n)
    /\ state[n] = "NotStarted"
    /\ ~ IsPrimary(n)
    /\ Enter(n, "PrePrepare")
    /\ UNCHANGED <<blockNum, blockID, view, committed, received, proposals,
                   sigs, msgs>>

\* Any other replica starts waiting for the primary's PrePrepare.
AwaitPrePrepare(n) ==
    /\ Active(n)
    /\ state[n] = "NotStarted"
    /\ ~ IsPrimary(n)
    /\ Enter(n, "PrePreparing")
    /\ UNCHANGED <<blockNum, blockID, view, committed, received, proposals,
                   sigs, msgs>>

\* The PrePrepare is there: sign its block, unless the message log dropped
\* the block when the message came, and sign a Prepare.
AcceptPrePrepare(n) ==
    /\ Active(n)
    /\ state[n] = "PrePreparing"
    /\ \E b \in Proposed(n) : sigs' \in {sigs, sigs \cup {[block |-> b, by |-> n]}}
    /\ msgs' = msgs \cup {Msg(n, "Prepare")}
    /\ Enter(n, "Preparing")
    /\ UNCHANGED <<blockNum, blockID, view, committed, received, proposals>>

\* The primary has entered Preparing without a Prepare of its own.
SendPrepare(n) ==
    /\ Active(n)
    /\ state[n] = "Preparing"
    /\ Msg(n, "Prepare") \notin msgs
    /\ msgs' = msgs \cup {Msg(n, "Prepare")}
    /\ UNCHANGED <<blockNum, blockID, view, committed, state, received, timer,
                   proposals, sigs>>

\* A look at the log that finds the block but not yet enough Prepares.
FindReceivedBlock(n) ==
    /\ Active(n)
    /\ state[n] = "Preparing"
    /\ Msg(n, "Prepare") \in msgs
    /\ \E held \in Holdings(n) : received' = [received EXCEPT ![n] = held]
    /\ UNCHANGED <<blockNum, blockID, view, committed, state, timer, proposals,
                   sigs, msgs>>

CheckPrepared(n) ==
    /\ Active(n)
    /\ state[n] = "Preparing"
    /\ Msg(n, "Prepare") \in msgs
    /\ HasQuorum(blockNum[n] + 1, view[n], "Prepare")
    /\ \E held \in Holdings(n) : received' = [received EXCEPT ![n] = held]
    /\ Enter(n, "Checking")
    /\ UNCHANGED <<blockNum, blockID, view, committed, proposals, sigs, msgs>>

\* With a block in hand the replica votes to commit the slot.
SendCommit(n) ==
    /\ Active(n)
    /\ state[n] = "Checking"
    /\ \E held \in Holdings(n) :
          /\ held # {}
          /\ received' = [received EXCEPT ![n] = held]
    /\ msgs' = msgs \cup {Msg(n, "Commit")}
    /\ Enter(n, "Committing")
    /\ UNCHANGED <<blockNum, blockID, view, committed, proposals, sigs>>

Finish(n) ==
    /\ Active(n)
    /\ state[n] = "Committing"
    /\ HasQuorum(blockNum[n] + 1, view[n], "Commit")
    /\ Enter(n, "Finished")
    /\ UNCHANGED <<blockNum, blockID, view, committed, received, proposals,
                   sigs, msgs>>

\* A CommitBlock that counts the height up and leaves ws.BlockID alone.
CommitBlockKeepingID(n) ==
    /\ Active(n)
    /\ state[n] = "Finished"
    /\ \E b \in received[n] :
          /\ b.num = blockNum[n] + 1
          /\ blockNum' = [blockNum EXCEPT ![n] = @ + 1]
          /\ view' = [view EXCEPT ![n] = b.view]
          /\ committed' = [committed EXCEPT ![n] = @ \cup {b}]
    /\ received' = [received EXCEPT ![n] = {}]
    /\ Enter(n, "NotStarted")
    /\ UNCHANGED <<blockID, proposals, sigs, msgs>>

\* CommitBlock succeeds: the block extends the replica's chain.
CommitBlock(n) ==
    /\ Active(n)
    /\ state[n] = "Finished"
    /\ \E b \in received[n] :
          /\ b.num = blockNum[n] + 1
          /\ b.prev = blockID[n]
          /\ blockNum' = [blockNum EXCEPT ![n] = @ + 1]
          /\ blockID' = [blockID EXCEPT ![n] = Hash(b)]
          /\ view' = [view EXCEPT ![n] = b.view]
          /\ committed' = [committed EXCEPT ![n] = @ \cup {b}]
    /\ received' = [received EXCEPT ![n] = {}]
    /\ Enter(n, "NotStarted")
    /\ UNCHANGED <<proposals, sigs, msgs>>

\* CommitBlock fails: the block does not extend the chain, or executing its
\* transactions returns an error.  The timer keeps running.
CommitFails(n) ==
    /\ Active(n)
    /\ state[n] = "Finished"
    /\ received' = [received EXCEPT ![n] = {}]
    /\ state' = [state EXCEPT ![n] = "ViewChanging"]
    /\ UNCHANGED <<blockNum, blockID, view, committed, timer, proposals, sigs,
                   msgs>>

\* A timeout that asks for a new view and goes on in the old one.
TimeoutInPlace(n) ==
    /\ Active(n)
    /\ timer[n]
    /\ view[n] < MaxView
    /\ timer' = [timer EXCEPT ![n] = FALSE]
    /\ msgs' = msgs \cup {Msg(n, "ViewChange")}
    /\ UNCHANGED <<blockNum, blockID, view, committed, state, received,
                   proposals, sigs>>

\* stateTimeout fires: the replica gives up the slot and asks for a new view.
Timeout(n) ==
    /\ Active(n)
    /\ timer[n]
    /\ view[n] < MaxView
    /\ timer' = [timer EXCEPT ![n] = FALSE]
    /\ state' = [state EXCEPT ![n] = "ViewChanging"]
    /\ received' = [received EXCEPT ![n] = {}]
    /\ msgs' = msgs \cup {Msg(n, "ViewChange")}
    /\ UNCHANGED <<blockNum, blockID, view, committed, proposals, sigs>>

\* stateTimeout fires before the engine has been started.
LoseTimer(n) ==
    /\ Active(n)
    /\ state[n] = "NotStarted"
    /\ timer[n]
    /\ timer' = [timer EXCEPT ![n] = FALSE]
    /\ UNCHANGED <<blockNum, blockID, view, committed, state, received,
                   proposals, sigs, msgs>>

ChangeView(n) ==
    /\ Active(n)
    /\ state[n] = "ViewChanging"
    /\ HasQuorum(blockNum[n] + 1, view[n], "ViewChange")
    /\ view' = [view EXCEPT ![n] = @ + 1]
    /\ received' = [received EXCEPT ![n] = {}]
    /\ Enter(n, "NotStarted")
    /\ UNCHANGED <<blockNum, blockID, committed, proposals, sigs, msgs>>

Step(n) ==
    \/ Propose(n)
    \/ AwaitPrePrepare(n)
    \/ AcceptPrePrepare(n)
    \/ SendPrepare(n)
    \/ FindReceivedBlock(n)
    \/ CheckPrepared(n)
    \/ SendCommit(n)
    \/ Finish(n)
    \/ CommitBlock(n)
    \/ CommitFails(n)
    \/ Timeout(n)
    \/ LoseTimer(n)
    \/ ChangeView(n)

Next == \E n \in Node : Step(n)

Spec == Init /\ [][Next]_vars

-----------------------------------------------------------------------------

(***************************************************************************)
(* Properties.                                                             *)
(***************************************************************************)

\* Two replicas that commit a block of the same slot commit the same block:
\* Commit messages name a slot and no block (states.go:305-311), so this rests
\* on the primary packing one block per slot and on nothing else.
SlotAgreement ==
    \A a, b \in Node : \A x \in committed[a], y \in committed[b] :
        x.num = y.num /\ x.view = y.view => x = y

\* Two replicas never commit different blocks at one height, in whatever views
\* they commit them (CommitBlock, block.go:70-97).
Agreement ==
    \A a, b \in Node : \A x \in committed[a], y \in committed[b] :
        x.num = y.num => x = y

\* The verifiers whose signature is one on this very block, the only ones
\* VerfifyMostBlock counts.
Verifiable(b) ==
    Cardinality({p \in Node : [block |-> b, by |-> p] \in sigs}) + 1 >= minNodeNum

\* A committed block is one that a peer accepts when it downloads the chain:
\* though signatures are merged by slot, enough of them sign this very block
\* (VerfifyMostBlock, verify.go:198-215); and quorums prepared and committed.
CommittedIsCertified ==
    \A n \in Node : \A b \in committed[n] :
        /\ b \in proposals
        /\ Verifiable(b)
        /\ HasQuorum(b.num, b.view, "Prepare")
        /\ HasQuorum(b.num, b.view, "Commit")

\* A replica's blocks form a chain from genesis to ws.BlockID without holes,
\* whatever errors CommitBlock returned on the way.
ChainIsLinked ==
    \A n \in Node :
        /\ {b.num : b \in committed[n]} = 1 .. blockNum[n]
        /\ \A b \in committed[n] :
              /\ b.num = 1 => b.prev = GenesisHash
              /\ b.num = blockNum[n] => blockID[n] = Hash(b)
              /\ \A c \in committed[n] : c.num + 1 = b.num => b.prev = Hash(c)

\* A replica that has asked to leave a slot never commits a block of it, even
\* when the Commit messages of the others arrive after its timer has fired.
NoCommitAfterGivingUp ==
    \A m \in msgs : m.type = "ViewChange" =>
        \A b \in committed[m.from] : b.num # m.num \/ b.view # m.view

=============================================================================
