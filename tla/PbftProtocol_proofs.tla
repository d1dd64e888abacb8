------------------------- MODULE PbftProtocol_proofs -------------------------
(***************************************************************************)
(* What holds of PbftProtocol for every number of verifiers, heights and   *)
(* views.  The argument has three layers: what one step may change, an     *)
(* inductive invariant IInv made of one part per idea, and agreement       *)
(* across views, which needs every verifier in every quorum.               *)
(***************************************************************************)
EXTENDS PbftProtocol, TLAPS, FiniteSetTheorems

(***************************************************************************)
(* Facts about the operators the model is built from.                      *)
(***************************************************************************)

\* The verifiers are a finite set of N elements.
LEMMA NodeIsFinite == IsFiniteSet(Node) /\ Cardinality(Node) = N
BY NAssumption, FS_Interval DEF Node

\* A quorum is a natural number, and not zero (minNodeNum, states.go:380-389).
LEMMA QuorumIsPositive == minNodeNum \in Nat /\ minNodeNum > 0
BY NAssumption DEF minNodeNum

\* With at most three verifiers a quorum is all of them.
LEMMA QuorumOfAll == ASSUME N <= 3 PROVE minNodeNum = N
BY NAssumption DEF minNodeNum

\* The primary of a slot is one of the verifiers (verify.go:412-418).
LEMMA PrimaryIsNode ==
    ASSUME NEW num \in Nat, NEW v \in Nat PROVE Primary(num, v) \in Node
BY NAssumption DEF Primary, Node

\* More verifiers, no fewer: what counts senders and signers is monotone.
LEMMA CountIsMonotone ==
    ASSUME NEW S \in SUBSET Node, NEW T \in SUBSET Node, S \subseteq T
    PROVE  /\ Cardinality(S) \in Nat /\ Cardinality(T) \in Nat
           /\ Cardinality(S) <= Cardinality(T)
<1>1. IsFiniteSet(T)
    BY NodeIsFinite, FS_Subset
<1>2. IsFiniteSet(S) /\ Cardinality(S) <= Cardinality(T)
    BY <1>1, FS_Subset
<1> QED BY <1>1, <1>2, FS_CardinalityType

\* A quorum of messages stays a quorum: no message is ever unsigned.
LEMMA QuorumStays ==
    ASSUME NEW num, NEW v, NEW t, msgs \subseteq msgs', HasQuorum(num, v, t)
    PROVE  HasQuorum(num, v, t)'
<1>1. Senders(num, v, t) \in SUBSET Node /\ Senders(num, v, t)' \in SUBSET Node
    BY DEF Senders
<1>2. Senders(num, v, t) \subseteq Senders(num, v, t)'
    BY DEF Senders
<1>3. Cardinality(Senders(num, v, t)) <= Cardinality(Senders(num, v, t)')
    BY <1>1, <1>2, CountIsMonotone
<1> QED BY <1>1, <1>2, <1>3, CountIsMonotone, QuorumIsPositive DEF HasQuorum

\* With at most three verifiers every one of them is in every quorum.
LEMMA EveryoneIsInIt ==
    ASSUME N <= 3, NEW num, NEW v, NEW t, HasQuorum(num, v, t), NEW n \in Node
    PROVE  [type |-> t, num |-> num, view |-> v, from |-> n] \in msgs
<1>1. Senders(num, v, t) \in SUBSET Node
    BY DEF Senders
<1>2. Cardinality(Senders(num, v, t)) = Cardinality(Node)
    <2>1. Cardinality(Senders(num, v, t)) >= N
        BY QuorumOfAll DEF HasQuorum
    <2> QED BY <1>1, <2>1, CountIsMonotone, NodeIsFinite
<1>3. Senders(num, v, t) = Node
    BY <1>1, <1>2, NodeIsFinite, FS_Subset
<1> QED BY <1>3 DEF Senders

(***************************************************************************)
(* Type correctness.                                                       *)
(***************************************************************************)

\* Types are preserved by every step.
LEMMA TypeStep == ASSUME TypeOK, [Next]_vars PROVE TypeOK'
<1> USE DEF TypeOK
<1>1. CASE UNCHANGED vars
    BY <1>1 DEF vars
<1>2. ASSUME NEW n \in Node, Propose(n) PROVE TypeOK'
    BY <1>2 DEF Propose, Enter, States, Block
<1>3. ASSUME NEW n \in Node, AwaitPrePrepare(n) PROVE TypeOK'
    BY <1>3 DEF AwaitPrePrepare, Enter, States
<1>4. ASSUME NEW n \in Node, AcceptPrePrepare(n) PROVE TypeOK'
    BY <1>4 DEF AcceptPrePrepare, Enter, States, Proposed, Msg, Message, MsgTypes
<1>5. ASSUME NEW n \in Node, SendPrepare(n) PROVE TypeOK'
    BY <1>5 DEF SendPrepare, Msg, Message, MsgTypes
<1>6. ASSUME NEW n \in Node, FindReceivedBlock(n) PROVE TypeOK'
    BY <1>6 DEF FindReceivedBlock, Holdings, Proposed
<1>7. ASSUME NEW n \in Node, CheckPrepared(n) PROVE TypeOK'
    BY <1>7 DEF CheckPrepared, Holdings, Proposed, Enter, States
<1>8. ASSUME NEW n \in Node, SendCommit(n) PROVE TypeOK'
    BY <1>8 DEF SendCommit, Holdings, Proposed, Enter, States, Msg, Message, MsgTypes
<1>9. ASSUME NEW n \in Node, Finish(n) PROVE TypeOK'
    BY <1>9 DEF Finish, Enter, States
<1>10. ASSUME NEW n \in Node, CommitBlock(n) PROVE TypeOK'
    BY <1>10 DEF CommitBlock, Enter, States, Block, Hash
<1>11. ASSUME NEW n \in Node, CommitFails(n) PROVE TypeOK'
    BY <1>11 DEF CommitFails, States
<1>12. ASSUME NEW n \in Node, Timeout(n) PROVE TypeOK'
    BY <1>12 DEF Timeout, States, Msg, Message, MsgTypes
<1>13. ASSUME NEW n \in Node, ChangeView(n) PROVE TypeOK'
    BY <1>13 DEF ChangeView, Enter, States
<1>14. ASSUME NEW n \in Node, LoseTimer(n) PROVE TypeOK'
    BY <1>14 DEF LoseTimer
<1> QED
    BY <1>1, <1>2, <1>3, <1>4, <1>5, <1>6, <1>7, <1>8, <1>9, <1>10, <1>11,
       <1>12, <1>13, <1>14 DEF Next, Step

\* Every value the consensus engine keeps has its type in every reachable
\* state, for every number of verifiers.
THEOREM TypeCorrect == Spec => []TypeOK
<1>1. Init => TypeOK
    BY DEF Init, TypeOK, States, GenesisHash
<1>2. TypeOK /\ [Next]_vars => TypeOK'
    BY TypeStep
<1> QED BY <1>1, <1>2, PTL DEF Spec

(***************************************************************************)
(* The inductive invariant: why no quorum can be fooled.                   *)
(***************************************************************************)

\* A slot has one proposal, and its primary has moved past NotStarted there.
ProposalInv ==
    /\ \A b, c \in proposals : b.num = c.num /\ b.view = c.view => b = c
    /\ \A b \in proposals :
          LET p == Primary(b.num, b.view)
          IN  \/ b.num <= blockNum[p]
              \/ /\ b.num = blockNum[p] + 1
                 /\ \/ b.view < view[p]
                    \/ b.view = view[p] /\ state[p] # "NotStarted"

\* Only proposals are signed, and the block in hand is the proposal of the
\* replica's slot with enough signatures in the slot.
BlockInv ==
    /\ \A s \in sigs : s.block \in proposals
    /\ \A n \in Node : \A b \in received[n] :
          /\ b \in Proposed(n)
          /\ SignedSlot(b.num, b.view)

\* A state stands for the quorums that led to it.
StateInv ==
    \A n \in Node :
        /\ state[n] \in {"Checking", "Committing", "Finished"}
              => HasQuorum(blockNum[n] + 1, view[n], "Prepare")
        /\ state[n] = "Finished"
              => HasQuorum(blockNum[n] + 1, view[n], "Commit")

\* Committed heights are 1 to blockNum, and below 1 there is genesis.
ChainInv ==
    /\ \A n \in Node : \A b \in committed[n] : b.num >= 1 /\ b.num <= blockNum[n]
    /\ \A n \in Node : blockNum[n] = 0 => blockID[n] = GenesisHash
    /\ ChainIsLinked

\* Whoever signed a ViewChange waits in ViewChanging or has left the slot.
GivenUpInv ==
    /\ \A m \in msgs : m.type = "ViewChange" =>
          \/ m.num <= blockNum[m.from]
          \/ /\ m.num = blockNum[m.from] + 1
             /\ \/ m.view < view[m.from]
                \/ m.view = view[m.from] /\ state[m.from] = "ViewChanging"
    /\ NoCommitAfterGivingUp

\* A quorum has given up every view between that of the last block and the
\* replica's own, and those between any committed block and the one before.
ViewInv ==
    /\ \A n \in Node : \A w \in Nat :
          blockID[n][2] <= w /\ w < view[n] => HasQuorum(blockNum[n] + 1, w, "ViewChange")
    /\ \A n \in Node : blockID[n][2] <= view[n]
    /\ \A n \in Node : \A b \in committed[n] :
          /\ b.prev[2] <= b.view
          /\ \A w \in Nat :
                b.prev[2] <= w /\ w < b.view => HasQuorum(b.num, w, "ViewChange")

IInv ==
    /\ TypeOK
    /\ ProposalInv
    /\ BlockInv
    /\ StateInv
    /\ CommittedIsCertified
    /\ ChainInv
    /\ GivenUpInv
    /\ ViewInv

(***************************************************************************)
(* What every step does and does not do.                                   *)
(***************************************************************************)

\* What has been signed stays signed.
LEMMA NothingIsUnsigned ==
    ASSUME [Next]_vars
    PROVE  msgs \subseteq msgs' /\ sigs \subseteq sigs' /\ proposals \subseteq proposals'
BY DEF Next, Step, vars, Propose, AwaitPrePrepare, AcceptPrePrepare, SendPrepare,
       FindReceivedBlock, CheckPrepared, SendCommit, Finish, CommitBlock,
       CommitFails, Timeout, LoseTimer, ChangeView

\* A replica goes on to the next height, to the next view, or stays in its
\* slot, where it does not return to NotStarted and cannot leave ViewChanging.
Onward(n) ==
    \/ blockNum'[n] = blockNum[n] + 1
    \/ blockNum'[n] = blockNum[n] /\ view'[n] = view[n] + 1
    \/ /\ blockNum'[n] = blockNum[n] /\ view'[n] = view[n]
       /\ state[n] # "NotStarted" => state'[n] # "NotStarted"
       /\ state[n] = "ViewChanging" => state'[n] = "ViewChanging"

\* No step of the state machine takes any replica back.
LEMMA ReplicasGoOnward ==
    ASSUME TypeOK, [Next]_vars, NEW p \in Node PROVE Onward(p)
<1> USE DEF TypeOK, Onward, Enter
<1>1. CASE UNCHANGED vars
    BY <1>1 DEF vars
<1>2. ASSUME NEW n \in Node, Propose(n) PROVE Onward(p)
    BY <1>2 DEF Propose
<1>3. ASSUME NEW n \in Node, AwaitPrePrepare(n) PROVE Onward(p)
    BY <1>3 DEF AwaitPrePrepare
<1>4. ASSUME NEW n \in Node, AcceptPrePrepare(n) PROVE Onward(p)
    BY <1>4 DEF AcceptPrePrepare
<1>5. ASSUME NEW n \in Node, SendPrepare(n) PROVE Onward(p)
    BY <1>5 DEF SendPrepare
<1>6. ASSUME NEW n \in Node, FindReceivedBlock(n) PROVE Onward(p)
    BY <1>6 DEF FindReceivedBlock
<1>7. ASSUME NEW n \in Node, CheckPrepared(n) PROVE Onward(p)
    BY <1>7 DEF CheckPrepared
<1>8. ASSUME NEW n \in Node, SendCommit(n) PROVE Onward(p)
    BY <1>8 DEF SendCommit
<1>9. ASSUME NEW n \in Node, Finish(n) PROVE Onward(p)
    BY <1>9 DEF Finish
<1>10. ASSUME NEW n \in Node, CommitBlock(n) PROVE Onward(p)
    BY <1>10 DEF CommitBlock
<1>11. ASSUME NEW n \in Node, CommitFails(n) PROVE Onward(p)
    BY <1>11 DEF CommitFails
<1>12. ASSUME NEW n \in Node, Timeout(n) PROVE Onward(p)
    BY <1>12 DEF Timeout
<1>13. ASSUME NEW n \in Node, ChangeView(n) PROVE Onward(p)
    BY <1>13 DEF ChangeView
<1>14. ASSUME NEW n \in Node, LoseTimer(n) PROVE Onward(p)
    BY <1>14 DEF LoseTimer
<1> QED
    BY <1>1, <1>2, <1>3, <1>4, <1>5, <1>6, <1>7, <1>8, <1>9, <1>10, <1>11,
       <1>12, <1>13, <1>14 DEF Next, Step

\* Enough signers of a slot stay enough.
LEMMA SignedSlotStays ==
    ASSUME NEW num, NEW v, sigs \subseteq sigs', SignedSlot(num, v)
    PROVE  SignedSlot(num, v)'
<1> DEFINE S == {p \in Node : \E s \in sigs : s.by = p /\ s.block.num = num /\ s.block.view = v}
           T == {p \in Node : \E s \in sigs' : s.by = p /\ s.block.num = num /\ s.block.view = v}
<1>1. Cardinality(S) \in Nat /\ Cardinality(T) \in Nat /\ Cardinality(S) <= Cardinality(T)
    BY CountIsMonotone
<1>2. Cardinality(S) + 1 >= minNodeNum
    BY DEF SignedSlot
<1>3. Cardinality(T) + 1 >= minNodeNum
    BY <1>1, <1>2, QuorumIsPositive
<1> QED BY <1>3 DEF SignedSlot

\* And so do enough signers of a block.
LEMMA VerifiableStays ==
    ASSUME NEW b, sigs \subseteq sigs', Verifiable(b) PROVE Verifiable(b)'
<1> DEFINE S == {p \in Node : [block |-> b, by |-> p] \in sigs}
           T == {p \in Node : [block |-> b, by |-> p] \in sigs'}
<1>1. Cardinality(S) \in Nat /\ Cardinality(T) \in Nat /\ Cardinality(S) <= Cardinality(T)
    BY CountIsMonotone
<1>2. Cardinality(S) + 1 >= minNodeNum
    BY DEF Verifiable
<1>3. Cardinality(T) + 1 >= minNodeNum
    BY <1>1, <1>2, QuorumIsPositive
<1> QED BY <1>3 DEF Verifiable

\* Signatures are merged by slot alone, but a slot has one proposal: enough
\* signers of the slot are enough signers of the block.
LEMMA SlotSignersSignTheBlock ==
    ASSUME TypeOK, ProposalInv, BlockInv, NEW b \in proposals, SignedSlot(b.num, b.view)
    PROVE  Verifiable(b)
<1> DEFINE S == {p \in Node : \E s \in sigs : s.by = p /\ s.block.num = b.num /\ s.block.view = b.view}
           T == {p \in Node : [block |-> b, by |-> p] \in sigs}
<1>1. S \subseteq T
    <2> SUFFICES ASSUME NEW s \in sigs, s.block.num = b.num, s.block.view = b.view
                 PROVE  [block |-> b, by |-> s.by] \in sigs
        OBVIOUS
    <2>1. s.block = b
        BY DEF ProposalInv, BlockInv
    <2>2. s = [block |-> s.block, by |-> s.by]
        BY DEF TypeOK
    <2> QED BY <2>1, <2>2
<1>2. Cardinality(S) \in Nat /\ Cardinality(T) \in Nat /\ Cardinality(S) <= Cardinality(T)
    BY <1>1, CountIsMonotone
<1>3. Cardinality(S) + 1 >= minNodeNum
    BY DEF SignedSlot
<1>4. Cardinality(T) + 1 >= minNodeNum
    BY <1>2, <1>3, QuorumIsPositive
<1> QED BY <1>4 DEF Verifiable

(***************************************************************************)
(* Each part of the invariant is preserved.                                *)
(***************************************************************************)

\* The primary cannot propose twice for a slot: proposing leaves NotStarted, and
\* NotStarted is entered only with a new slot (states.go:97-144, 357, 374-375).
LEMMA ProposalStep == ASSUME TypeOK, ProposalInv, [Next]_vars PROVE ProposalInv'
<1> DEFINE Past(b) ==
              LET p == Primary(b.num, b.view)
              IN  \/ b.num <= blockNum[p]
                  \/ /\ b.num = blockNum[p] + 1
                     /\ \/ b.view < view[p]
                        \/ b.view = view[p] /\ state[p] # "NotStarted"
<1>1. ASSUME NEW b \in proposals PROVE Past(b)'
    <2> DEFINE p == Primary(b.num, b.view)
    <2>1. b.num \in Nat /\ b.view \in Nat /\ p \in Node
        BY PrimaryIsNode DEF TypeOK, Block
    <2>2. Past(b) /\ Onward(p)
        BY <2>1, ReplicasGoOnward DEF ProposalInv
    <2>3. blockNum[p] \in Nat /\ view[p] \in Nat
        BY <2>1 DEF TypeOK
    <2> HIDE DEF p
    <2>4. QED
        BY <2>1, <2>2, <2>3 DEF Onward, p
<1>2. CASE proposals' = proposals
    BY <1>1, <1>2 DEF ProposalInv
<1>3. ASSUME NEW n \in Node, Propose(n) PROVE ProposalInv'
    <2>1. PICK body \in Bodies :
              proposals' = proposals \cup
                  {[num |-> blockNum[n] + 1, view |-> view[n],
                    prev |-> blockID[n], body |-> body]}
        BY <1>3 DEF Propose
    <2> DEFINE new == [num |-> blockNum[n] + 1, view |-> view[n],
                       prev |-> blockID[n], body |-> body]
    <2>2. blockNum[n] \in Nat /\ view[n] \in Nat
        BY DEF TypeOK
    <2>3. Primary(new.num, new.view) = n
        BY <1>3 DEF Propose, IsPrimary
    <2>4. state[n] = "NotStarted"
        BY <1>3 DEF Propose
    <2>5. \A b \in proposals : ~ (b.num = new.num /\ b.view = new.view)
        BY <2>2, <2>3, <2>4 DEF ProposalInv
    <2>6. ASSUME NEW b \in proposals' PROVE Past(b)'
        <3>1. CASE b \in proposals
            BY <1>1, <3>1
        <3>2. CASE b = new
            BY <1>3, <2>2, <2>3, <3>2 DEF Propose, Enter, TypeOK
        <3> QED BY <2>1, <3>1, <3>2
    <2>7. \A b, c \in proposals' : b.num = c.num /\ b.view = c.view => b = c
        BY <2>1, <2>5 DEF ProposalInv
    <2> QED BY <2>6, <2>7 DEF ProposalInv
<1> QED
    BY <1>2, <1>3 DEF Next, Step, vars, AwaitPrePrepare, AcceptPrePrepare, SendPrepare,
       FindReceivedBlock, CheckPrepared, SendCommit, Finish, CommitBlock,
       CommitFails, Timeout, LoseTimer, ChangeView

\* What a look at the log may find: a proposal of the slot, signed by enough.
LEMMA HoldingsAreSigned ==
    ASSUME TypeOK, BlockInv, NEW n \in Node, NEW held \in Holdings(n), NEW b \in held
    PROVE  b \in Proposed(n) /\ SignedSlot(b.num, b.view)
BY DEF Holdings, BlockInv, Proposed

\* receivedBlock is set only from a block with enough signers, and reset when
\* the replica leaves the slot (states.go:25-26, 273-278, 295-301).
LEMMA BlockStep == ASSUME TypeOK, BlockInv, [Next]_vars PROVE BlockInv'
<1>1. proposals \subseteq proposals' /\ sigs \subseteq sigs'
    BY NothingIsUnsigned
<1>2. \A s \in sigs' : s.block \in proposals'
    <2>1. CASE sigs' = sigs
        BY <1>1, <2>1 DEF BlockInv
    <2>2. ASSUME NEW n \in Node, AcceptPrePrepare(n) PROVE \A s \in sigs' : s.block \in proposals'
        BY <1>1, <2>2 DEF AcceptPrePrepare, BlockInv, Proposed
    <2> QED
        BY <2>1, <2>2 DEF Next, Step, vars, Propose, AwaitPrePrepare, SendPrepare,
           FindReceivedBlock, CheckPrepared, SendCommit, Finish, CommitBlock,
           CommitFails, Timeout, LoseTimer, ChangeView
<1>3. ASSUME NEW p \in Node, NEW b \in received'[p]
      PROVE  /\ b \in proposals /\ SignedSlot(b.num, b.view)
             /\ b.num = blockNum'[p] + 1 /\ b.view = view'[p]
    <2> USE DEF TypeOK
    <2>1. CASE received' = received /\ blockNum' = blockNum /\ view' = view
        BY <2>1 DEF BlockInv, Proposed
    <2>2. ASSUME NEW n \in Node, NEW held \in Holdings(n),
                 received' = [received EXCEPT ![n] = held],
                 blockNum' = blockNum, view' = view
          PROVE  /\ b \in proposals /\ SignedSlot(b.num, b.view)
                 /\ b.num = blockNum'[p] + 1 /\ b.view = view'[p]
        BY <2>2, HoldingsAreSigned DEF BlockInv, Proposed
    <2>3. ASSUME NEW n \in Node, received' = [received EXCEPT ![n] = {}],
                 p # n => blockNum'[p] = blockNum[p] /\ view'[p] = view[p]
          PROVE  /\ b \in proposals /\ SignedSlot(b.num, b.view)
                 /\ b.num = blockNum'[p] + 1 /\ b.view = view'[p]
        BY <2>3 DEF BlockInv, Proposed
    <2>4. CASE \E n \in Node : FindReceivedBlock(n) \/ CheckPrepared(n) \/ SendCommit(n)
        BY <2>2, <2>4 DEF FindReceivedBlock, CheckPrepared, SendCommit
    <2>5. CASE \E n \in Node : CommitBlock(n)
        BY <2>3, <2>5 DEF CommitBlock
    <2>6. CASE \E n \in Node : CommitFails(n) \/ Timeout(n) \/ ChangeView(n)
        BY <2>3, <2>6 DEF CommitFails, Timeout, ChangeView
    <2> QED
        BY <2>1, <2>4, <2>5, <2>6 DEF Next, Step, vars, Propose, AwaitPrePrepare,
           AcceptPrePrepare, SendPrepare, Finish, LoseTimer
<1>4. \A p \in Node : \A b \in received'[p] : SignedSlot(b.num, b.view)'
    BY <1>1, <1>3, SignedSlotStays
<1> QED BY <1>1, <1>2, <1>3, <1>4 DEF BlockInv, Proposed

\* Checking and Finished are entered on a quorum (states.go:279-282, 339-341),
\* and quorums do not go away.
LEMMA StateStep == ASSUME TypeOK, StateInv, [Next]_vars PROVE StateInv'
<1>1. msgs \subseteq msgs'
    BY NothingIsUnsigned
<1> DEFINE
      Prepared(p) == HasQuorum(blockNum[p] + 1, view[p], "Prepare")
      Committable(p) == HasQuorum(blockNum[p] + 1, view[p], "Commit")
<1>2. ASSUME NEW p \in Node, blockNum'[p] = blockNum[p], view'[p] = view[p]
      PROVE  (Prepared(p) => Prepared(p)') /\ (Committable(p) => Committable(p)')
    BY <1>1, <1>2, QuorumStays
<1>3. ASSUME NEW p \in Node, state'[p] \in {"Checking", "Committing", "Finished"}
      PROVE  Prepared(p) /\ blockNum'[p] = blockNum[p] /\ view'[p] = view[p]
    BY <1>3 DEF TypeOK, StateInv, Enter, Next, Step, vars, Propose, AwaitPrePrepare,
       AcceptPrePrepare, SendPrepare, FindReceivedBlock, CheckPrepared, SendCommit,
       Finish, CommitBlock, CommitFails, Timeout, LoseTimer, ChangeView
<1>4. ASSUME NEW p \in Node, state'[p] = "Finished"
      PROVE  Committable(p) /\ blockNum'[p] = blockNum[p] /\ view'[p] = view[p]
    BY <1>4 DEF TypeOK, StateInv, Enter, Next, Step, vars, Propose, AwaitPrePrepare,
       AcceptPrePrepare, SendPrepare, FindReceivedBlock, CheckPrepared, SendCommit,
       Finish, CommitBlock, CommitFails, Timeout, LoseTimer, ChangeView
<1> QED BY <1>2, <1>3, <1>4 DEF StateInv

\* Only CommitBlock adds a block, and it adds the one in hand.
LEMMA CommitAddsHeldBlock ==
    ASSUME TypeOK, BlockInv, [Next]_vars, NEW p \in Node, NEW b \in committed'[p], b \notin committed[p]
    PROVE  /\ b \in received[p] /\ state[p] = "Finished"
           /\ b \in proposals /\ SignedSlot(b.num, b.view)
           /\ b.num = blockNum[p] + 1 /\ b.view = view[p] /\ b.prev = blockID[p]
           /\ blockNum' = [blockNum EXCEPT ![p] = b.num]
           /\ blockID' = [blockID EXCEPT ![p] = Hash(b)]
           /\ view' = view
           /\ committed' = [committed EXCEPT ![p] = @ \cup {b}]
           /\ msgs' = msgs
<1>1. PICK n \in Node : CommitBlock(n)
    BY DEF Next, Step, vars, Propose, AwaitPrePrepare, AcceptPrePrepare, SendPrepare,
       FindReceivedBlock, CheckPrepared, SendCommit, Finish, CommitFails, Timeout, LoseTimer,
       ChangeView
<1>2. PICK c \in received[n] :
          /\ c.num = blockNum[n] + 1
          /\ c.prev = blockID[n]
          /\ blockNum' = [blockNum EXCEPT ![n] = @ + 1]
          /\ blockID' = [blockID EXCEPT ![n] = Hash(c)]
          /\ view' = [view EXCEPT ![n] = c.view]
          /\ committed' = [committed EXCEPT ![n] = @ \cup {c}]
    BY <1>1 DEF CommitBlock
<1>3. n = p /\ b = c
    BY <1>2 DEF TypeOK
<1>4. b \in proposals /\ SignedSlot(b.num, b.view) /\ b.view = view[p]
    BY <1>2, <1>3 DEF BlockInv, Proposed
<1>5. view' = view
    BY <1>2, <1>3, <1>4 DEF TypeOK
<1> QED
    BY <1>1, <1>2, <1>3, <1>4, <1>5 DEF CommitBlock

\* The block CommitBlock adds is signed and voted for by quorums.
LEMMA CertifiedStep ==
    ASSUME TypeOK, ProposalInv, BlockInv, StateInv, CommittedIsCertified, [Next]_vars
    PROVE  CommittedIsCertified'
<1>1. msgs \subseteq msgs' /\ sigs \subseteq sigs' /\ proposals \subseteq proposals'
    BY NothingIsUnsigned
<1> SUFFICES ASSUME NEW n \in Node, NEW b \in committed'[n]
             PROVE  /\ b \in proposals /\ Verifiable(b)
                    /\ HasQuorum(b.num, b.view, "Prepare")
                    /\ HasQuorum(b.num, b.view, "Commit")
    BY <1>1, VerifiableStays, QuorumStays DEF CommittedIsCertified
<1>2. CASE b \in committed[n]
    BY <1>2 DEF CommittedIsCertified
<1>3. CASE b \notin committed[n]
    BY <1>3, CommitAddsHeldBlock, SlotSignersSignTheBlock DEF StateInv
<1> QED BY <1>2, <1>3

\* CommitBlock adds the block on top of the replica's chain (block.go:71-77).
LEMMA ChainStep == ASSUME TypeOK, BlockInv, ChainInv, [Next]_vars PROVE ChainInv'
<1> DEFINE Nums(n) == {b.num : b \in committed[n]}
<1>1. CASE committed' = committed /\ blockNum' = blockNum /\ blockID' = blockID
    BY <1>1 DEF ChainInv, ChainIsLinked
<1>2. ASSUME NEW p \in Node, NEW b \in committed'[p], b \notin committed[p]
      PROVE  ChainInv'
    <2>1. /\ b.num = blockNum[p] + 1 /\ b.prev = blockID[p]
          /\ blockNum' = [blockNum EXCEPT ![p] = b.num]
          /\ blockID' = [blockID EXCEPT ![p] = Hash(b)]
          /\ committed' = [committed EXCEPT ![p] = @ \cup {b}]
        BY <1>2, CommitAddsHeldBlock
    <2>2. blockNum[p] \in Nat
        BY DEF TypeOK
    <2>3. ASSUME NEW n \in Node, n # p
          PROVE  committed'[n] = committed[n] /\ blockNum'[n] = blockNum[n] /\ blockID'[n] = blockID[n]
        BY <2>1, <2>3 DEF TypeOK
    <2>4. /\ committed'[p] = committed[p] \cup {b}
          /\ blockNum'[p] = blockNum[p] + 1 /\ blockID'[p] = Hash(b)
        BY <2>1 DEF TypeOK
    <2>5. \A c \in committed[p] : c.num \in Nat /\ c.num >= 1 /\ c.num <= blockNum[p]
        BY DEF ChainInv, TypeOK, Block
    <2>6. Nums(p)' = 1 .. blockNum'[p]
        <3>1. Nums(p) = 1 .. blockNum[p]
            BY DEF ChainInv, ChainIsLinked
        <3>2. Nums(p)' = Nums(p) \cup {blockNum[p] + 1}
            BY <2>1, <2>4
        <3> QED BY <2>2, <2>4, <3>1, <3>2
    <2>7. b.num = 1 => b.prev = GenesisHash
        BY <2>1, <2>2 DEF ChainInv
    <2>8. \A c \in committed[p] : c.num + 1 = b.num => b.prev = Hash(c)
        BY <2>1, <2>2, <2>5 DEF ChainInv, ChainIsLinked
    <2>9. \A c \in committed'[p] :
              /\ c.num >= 1 /\ c.num <= blockNum'[p]
              /\ c.num = 1 => c.prev = GenesisHash
              /\ c.num = blockNum'[p] => blockID'[p] = Hash(c)
              /\ \A d \in committed'[p] : d.num + 1 = c.num => c.prev = Hash(d)
        BY <2>1, <2>2, <2>4, <2>5, <2>7, <2>8 DEF ChainInv, ChainIsLinked
    <2>10. blockNum'[p] # 0
        BY <2>2, <2>4
    <2> QED
        BY <2>3, <2>6, <2>9, <2>10 DEF ChainInv, ChainIsLinked
<1> QED
    <2>1. ASSUME NEW n \in Node, CommitBlock(n) PROVE \E b \in committed'[n] : b \notin committed[n]
        BY <2>1 DEF CommitBlock, TypeOK, ChainInv
    <2>2. CASE \E n \in Node : CommitBlock(n)
        BY <1>2, <2>1, <2>2
    <2> QED
        BY <1>1, <2>2 DEF Next, Step, vars, Propose, AwaitPrePrepare, AcceptPrePrepare,
           SendPrepare, FindReceivedBlock, CheckPrepared, SendCommit, Finish, CommitFails,
           Timeout, LoseTimer, ChangeView

\* A replica in ViewChanging never commits its slot, and every other state is
\* one of a slot it has not given up.
LEMMA GivenUpStep ==
    ASSUME TypeOK, BlockInv, ChainInv, GivenUpInv, [Next]_vars PROVE GivenUpInv'
<1> DEFINE
      GivenUp(m) ==
          \/ m.num <= blockNum[m.from]
          \/ /\ m.num = blockNum[m.from] + 1
             /\ \/ m.view < view[m.from]
                \/ m.view = view[m.from] /\ state[m.from] = "ViewChanging"
      NotCommitted(m) == \A b \in committed[m.from] : b.num # m.num \/ b.view # m.view
<1>1. ASSUME NEW m \in msgs, m.type = "ViewChange" PROVE GivenUp(m)'
    <2>1. m.num \in Nat /\ m.view \in Nat /\ m.from \in Node
        BY DEF TypeOK, Message
    <2>2. GivenUp(m) /\ Onward(m.from)
        BY <1>1, <2>1, ReplicasGoOnward DEF GivenUpInv
    <2>3. blockNum[m.from] \in Nat /\ view[m.from] \in Nat
        BY <2>1 DEF TypeOK
    <2> QED BY <2>1, <2>2, <2>3 DEF Onward
<1>2. ASSUME NEW m \in msgs, m.type = "ViewChange" PROVE NotCommitted(m)'
    <2>1. m.num \in Nat /\ m.view \in Nat /\ m.from \in Node
        BY DEF TypeOK, Message
    <2>2. GivenUp(m) /\ NotCommitted(m)
        BY <1>2 DEF GivenUpInv, NoCommitAfterGivingUp
    <2>3. blockNum[m.from] \in Nat /\ view[m.from] \in Nat
        BY <2>1 DEF TypeOK
    <2>4. ASSUME NEW b \in committed'[m.from], b \notin committed[m.from]
          PROVE  b.num # m.num \/ b.view # m.view
        <3>1. /\ b.num = blockNum[m.from] + 1 /\ b.view = view[m.from]
              /\ state[m.from] = "Finished"
            BY <2>1, <2>4, CommitAddsHeldBlock
        <3> QED BY <2>1, <2>2, <2>3, <3>1
    <2> QED BY <2>2, <2>4
<1>3. ASSUME NEW m \in msgs', m \notin msgs, m.type = "ViewChange"
      PROVE  GivenUp(m)' /\ NotCommitted(m)'
    <2>1. PICK n \in Node : Timeout(n)
        <3>1. ASSUME NEW n \in Node, AcceptPrePrepare(n) \/ SendPrepare(n) \/ SendCommit(n)
              PROVE  FALSE
            BY <1>3, <3>1 DEF AcceptPrePrepare, SendPrepare, SendCommit, Msg
        <3> QED
            BY <1>3, <3>1 DEF Next, Step, vars, Propose, AwaitPrePrepare,
               FindReceivedBlock, CheckPrepared, Finish, CommitBlock, CommitFails,
               LoseTimer, ChangeView
    <2>2. m = Msg(n, "ViewChange")
        BY <1>3, <2>1 DEF Timeout
    <2>3. m.from = n /\ m.num = blockNum[n] + 1 /\ m.view = view[n]
        BY <2>2 DEF Msg
    <2>4. GivenUp(m)'
        BY <2>1, <2>3 DEF Timeout, TypeOK
    <2>5. \A b \in committed[n] : b.num <= blockNum[n] /\ b.num \in Nat
        BY DEF ChainInv, TypeOK, Block
    <2>6. NotCommitted(m)'
        BY <2>1, <2>3, <2>5 DEF Timeout, TypeOK
    <2> QED BY <2>4, <2>6
<1> QED BY <1>1, <1>2, <1>3 DEF GivenUpInv, NoCommitAfterGivingUp

\* IncreaseView is called on a quorum of ViewChanges for the view (states.go:372-374),
\* and CommitBlock sets the view to that of the new BlockID (block.go:88-92).
LEMMA ViewStep ==
    ASSUME TypeOK, BlockInv, ViewInv, [Next]_vars PROVE ViewInv'
<1>1. msgs \subseteq msgs'
    BY NothingIsUnsigned
<1> DEFINE OwnViews(n) ==
              /\ \A w \in Nat : blockID[n][2] <= w /\ w < view[n]
                    => HasQuorum(blockNum[n] + 1, w, "ViewChange")
              /\ blockID[n][2] <= view[n]
<1>2. ASSUME NEW n \in Node
      PROVE  OwnViews(n) /\ blockID[n][2] \in Nat /\ view[n] \in Nat
    BY DEF ViewInv, TypeOK
<1>3. ASSUME NEW n \in Node, NEW b \in committed'[n]
      PROVE  /\ b.prev[2] <= b.view
             /\ \A w \in Nat :
                   b.prev[2] <= w /\ w < b.view => HasQuorum(b.num, w, "ViewChange")'
    <2>1. CASE b \in committed[n]
        BY <1>1, <2>1, QuorumStays DEF ViewInv
    <2>2. CASE b \notin committed[n]
        <3>1. b.num = blockNum[n] + 1 /\ b.view = view[n] /\ b.prev = blockID[n]
            BY <2>2, CommitAddsHeldBlock
        <3> QED BY <1>1, <1>2, <3>1, QuorumStays
    <2> QED BY <2>1, <2>2
<1>4. ASSUME NEW n \in Node PROVE OwnViews(n)'
    <2>1. CASE blockNum'[n] = blockNum[n] /\ blockID'[n] = blockID[n] /\ view'[n] = view[n]
        BY <1>1, <1>2, <2>1, QuorumStays
    <2>2. CASE ChangeView(n)
        <3>1. /\ HasQuorum(blockNum[n] + 1, view[n], "ViewChange")
              /\ blockNum'[n] = blockNum[n] /\ blockID'[n] = blockID[n]
              /\ view'[n] = view[n] + 1
            BY <2>2 DEF ChangeView, TypeOK
        <3>2. ASSUME NEW w \in Nat, blockID[n][2] <= w, w < view[n] + 1
              PROVE  HasQuorum(blockNum[n] + 1, w, "ViewChange")
            <4>1. w < view[n] \/ w = view[n]
                BY <1>2, <3>2
            <4> QED BY <1>2, <3>1, <3>2, <4>1
        <3> QED BY <1>1, <1>2, <3>1, <3>2, QuorumStays
    <2>3. CASE CommitBlock(n)
        <3>1. PICK b \in received[n] :
                  /\ blockID' = [blockID EXCEPT ![n] = Hash(b)]
                  /\ view' = [view EXCEPT ![n] = b.view]
            BY <2>3 DEF CommitBlock
        <3>2. blockID'[n][2] = view'[n] /\ view'[n] \in Nat
            BY <3>1 DEF TypeOK, Hash, Block
        <3> QED BY <3>2
    <2>4. ASSUME NEW m \in Node, m # n, ChangeView(m) \/ CommitBlock(m)
          PROVE  blockNum'[n] = blockNum[n] /\ blockID'[n] = blockID[n] /\ view'[n] = view[n]
        BY <2>4 DEF ChangeView, CommitBlock, TypeOK
    <2> QED
        BY <2>1, <2>2, <2>3, <2>4 DEF Next, Step, vars, Propose, AwaitPrePrepare,
           AcceptPrePrepare, SendPrepare, FindReceivedBlock, CheckPrepared, SendCommit,
           Finish, CommitFails, Timeout, LoseTimer
<1> QED BY <1>3, <1>4 DEF ViewInv

(***************************************************************************)
(* The theorems.                                                           *)
(***************************************************************************)

LEMMA InvInit == Init => IInv
<1> SUFFICES ASSUME Init PROVE IInv
    OBVIOUS
<1>1. TypeOK
    BY DEF Init, TypeOK, States, GenesisHash
<1>2. ProposalInv /\ BlockInv /\ StateInv /\ CommittedIsCertified
    BY DEF Init, ProposalInv, BlockInv, StateInv, CommittedIsCertified
<1>3. ChainInv /\ GivenUpInv
    BY DEF Init, ChainInv, ChainIsLinked, GivenUpInv, NoCommitAfterGivingUp
<1>4. ViewInv
    BY DEF Init, ViewInv, GenesisHash
<1> QED BY <1>1, <1>2, <1>3, <1>4 DEF IInv

LEMMA InvStep == ASSUME IInv, [Next]_vars PROVE IInv'
<1>1. TypeOK'
    BY TypeStep DEF IInv
<1> QED
    BY <1>1, ProposalStep, BlockStep, StateStep, CertifiedStep, ChainStep,
       GivenUpStep, ViewStep DEF IInv

\* The invariant holds in every reachable state, for every number of verifiers.
THEOREM Invariance == Spec => []IInv
<1>1. IInv /\ [Next]_vars => IInv'
    BY InvStep
<1> QED BY <1>1, InvInit, PTL DEF Spec

\* The Commit messages of a slot name no block (states.go:305-311); still no
\* two replicas commit different blocks of one slot.
THEOREM OneBlockPerSlot == Spec => []SlotAgreement
<1>1. IInv => SlotAgreement
    BY DEF IInv, ProposalInv, CommittedIsCertified, SlotAgreement
<1> QED BY <1>1, Invariance, PTL

\* What a replica commits, its peers accept when they download it
\* (VerfifyMostBlock, verify.go:150-216).
THEOREM CommittedAreCertified == Spec => []CommittedIsCertified
<1>1. IInv => CommittedIsCertified
    BY DEF IInv
<1> QED BY <1>1, Invariance, PTL

\* CommitBlock (block.go:70-97) keeps the chain linked from genesis to BlockID.
THEOREM ChainsAreLinked == Spec => []ChainIsLinked
<1>1. IInv => ChainIsLinked
    BY DEF IInv, ChainInv
<1> QED BY <1>1, Invariance, PTL

\* A ViewChange (pbft.go:196-209) is a promise not to commit the slot.
THEOREM ViewChangeIsAPromise == Spec => []NoCommitAfterGivingUp
<1>1. IInv => NoCommitAfterGivingUp
    BY DEF IInv, GivenUpInv
<1> QED BY <1>1, Invariance, PTL

(***************************************************************************)
(* Agreement across views.  A view change carries no evidence of what was  *)
(* prepared (states.go:359-377), so agreement needs every verifier in      *)
(* every quorum, which is so up to three verifiers and not beyond.         *)
(***************************************************************************)

\* A block about to be committed is the one any other replica has committed at
\* that height.  Both extend the same block, by agreement one height below.  If
\* they were of different views, everyone would have given up the lower view:
\* the replica that commits there has not, or the one that did never commits.
LEMMA CommitAgrees ==
    ASSUME N <= 3, IInv, Agreement, [Next]_vars,
           NEW n \in Node, NEW b \in committed'[n], b \notin committed[n],
           NEW m \in Node, NEW y \in committed[m], y.num = b.num
    PROVE  y = b
<1> USE DEF IInv
<1>1. /\ state[n] = "Finished" /\ b \in proposals
      /\ b.num = blockNum[n] + 1 /\ b.view = view[n] /\ b.prev = blockID[n]
    BY CommitAddsHeldBlock
<1>2. /\ blockNum[n] \in Nat /\ blockNum[m] \in Nat
      /\ b.view \in Nat /\ y.view \in Nat /\ y \in proposals
    BY <1>1 DEF TypeOK, Block, CommittedIsCertified
<1>3. y.prev = b.prev
    <2>1. CASE blockNum[n] = 0
        BY <1>1, <2>1 DEF ChainInv, ChainIsLinked
    <2>2. CASE blockNum[n] # 0
        <3>1. blockNum[n] \in 1 .. blockNum[n] /\ blockNum[n] \in 1 .. blockNum[m]
            BY <1>1, <1>2, <2>2 DEF ChainInv
        <3>2. PICK c \in committed[n] : c.num = blockNum[n]
            BY <3>1 DEF ChainInv, ChainIsLinked
        <3>3. PICK d \in committed[m] : d.num = blockNum[n]
            BY <3>1 DEF ChainInv, ChainIsLinked
        <3>4. c = d
            BY <3>2, <3>3 DEF Agreement
        <3>5. b.prev = Hash(c)
            BY <1>1, <3>2 DEF ChainInv, ChainIsLinked
        <3>6. y.prev = Hash(d)
            BY <1>1, <3>3 DEF ChainInv, ChainIsLinked
        <3> QED BY <3>4, <3>5, <3>6
    <2> QED BY <2>1, <2>2
<1>4. blockID[n][2] \in Nat /\ blockID[n][2] <= view[n] /\ view[n] \in Nat
    BY DEF TypeOK, ViewInv
<1>5. ~ (b.view < y.view)
    <2> SUFFICES ASSUME b.view < y.view PROVE FALSE
        OBVIOUS
    <2>1. HasQuorum(b.num, b.view, "ViewChange")
        BY <1>1, <1>2, <1>3, <1>4 DEF ViewInv
    <2>2. [type |-> "ViewChange", num |-> b.num, view |-> b.view, from |-> n] \in msgs
        BY <2>1, EveryoneIsInIt
    <2>3. state[n] = "ViewChanging"
        BY <1>1, <1>2, <1>4, <2>2 DEF GivenUpInv
    <2> QED BY <1>1, <2>3
<1>6. ~ (y.view < b.view)
    <2> SUFFICES ASSUME y.view < b.view PROVE FALSE
        OBVIOUS
    <2>1. y.prev[2] <= y.view
        BY DEF ViewInv
    <2>2. HasQuorum(y.num, y.view, "ViewChange")
        BY <1>1, <1>2, <1>3, <1>4, <2>1 DEF ViewInv
    <2>3. [type |-> "ViewChange", num |-> y.num, view |-> y.view, from |-> m] \in msgs
        BY <2>2, EveryoneIsInIt
    <2> QED BY <2>3 DEF GivenUpInv, NoCommitAfterGivingUp
<1>7. y.view = b.view
    BY <1>2, <1>5, <1>6
<1> QED BY <1>1, <1>2, <1>7 DEF ProposalInv

LEMMA AgreementStep == ASSUME N <= 3, IInv, Agreement, [Next]_vars PROVE Agreement'
<1> SUFFICES ASSUME NEW a \in Node, NEW b \in Node,
                    NEW x \in committed'[a], NEW y \in committed'[b], x.num = y.num
             PROVE  x = y
    BY DEF Agreement
<1>1. CASE x \in committed[a] /\ y \in committed[b]
    BY <1>1 DEF Agreement
<1>2. CASE x \in committed[a] /\ y \notin committed[b]
    BY <1>2, CommitAgrees
<1>3. CASE x \notin committed[a] /\ y \in committed[b]
    BY <1>3, CommitAgrees
<1>4. CASE x \notin committed[a] /\ y \notin committed[b]
    <2>1. /\ committed' = [committed EXCEPT ![a] = @ \cup {x}]
          /\ committed' = [committed EXCEPT ![b] = @ \cup {y}]
        BY <1>4, CommitAddsHeldBlock DEF IInv
    <2>2. a = b
        BY <1>4, <2>1 DEF IInv, TypeOK
    <2> QED BY <1>4, <2>1, <2>2 DEF IInv, TypeOK
<1> QED BY <1>1, <1>2, <1>3, <1>4

\* Up to three verifiers no two replicas commit different blocks at a height,
\* through any number of heights and view changes (block.go:70-97).
THEOREM SmallGroupsAgree == ASSUME N <= 3 PROVE Spec => []Agreement
<1>1. Init => Agreement
    BY DEF Init, Agreement
<1>2. IInv /\ Agreement /\ [Next]_vars => Agreement'
    BY AgreementStep
<1> QED BY <1>1, <1>2, Invariance, PTL DEF Spec

=============================================================================
