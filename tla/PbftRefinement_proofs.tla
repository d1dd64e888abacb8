------------------------ MODULE PbftRefinement_proofs ------------------------
(***************************************************************************)
(* Replicas that are neither stopped nor restarted implement PbftProtocol  *)
(* with their queues, logs and stores, however many they are and whatever  *)
(* blocks they refuse; so up to three of them agree.                       *)
(*                                                                         *)
(* Filing a message changes nothing the protocol speaks of; what           *)
(* StateMigrate then does is a step of the protocol.                       *)
(***************************************************************************)
EXTENDS Pbft_proofs

\* The protocol with its theorems, by the mapping of Pbft!P.
PP == INSTANCE PbftProtocol_proofs WITH
        committed <- committedBlocks,
        received  <- receivedBlock,
        proposals <- proposed,
        sigs      <- signedBlocks,
        msgs      <- voted

Votes == {"Prepare", "Commit", "ViewChange"}

Signs(n, b) == \E p \in b.pairs : p.by = n

IsSignature(n, bl, y) ==
    \E s \in DOMAIN bl : Signs(n, bl[s]) /\ y = [block |-> bl[s].blk, by |-> n]

LEMMA SignaturesMean ==
    \A y : y \in signedBlocks <=> \E n \in Node : IsSignature(n, blocks[n], y)
<1> SUFFICES ASSUME NEW y PROVE y \in signedBlocks <=> \E n \in Node : IsSignature(n, blocks[n], y)
    OBVIOUS
<1> DEFINE S(n) == {[block |-> blocks[n][s].blk, by |-> n] :
                       s \in {t \in DOMAIN blocks[n] : \E p \in blocks[n][t].pairs : p.by = n}}
<1>1. ASSUME NEW n \in Node PROVE y \in S(n) <=> IsSignature(n, blocks[n], y)
    BY DEF IsSignature, Signs
<1>2. signedBlocks = UNION {S(n) : n \in Node}
    BY DEF signedBlocks
<1> HIDE DEF S
<1> QED BY <1>1, <1>2

(***************************************************************************)
(* What holds of the messages and the blocks anywhere.                     *)
(***************************************************************************)

\* addMsg keeps one entry for each type, slot and sender.
Unique(lg) == \A e, f \in lg : e.key = f.key => e = f

\* A PrePrepare comes with a block.
Offers(m) == m.key.type = "PrePrepare" => m.block # {}

\* A vote that is anywhere has been signed by the verifier it names.
Cast(k) == k.type \in Votes => k \in voted

Known(m) == Cast(m.key) /\ Offers(m)

SoundLog(lg) == Unique(lg) /\ \A e \in lg : Known(e)

LogInv == \A n \in Node : SoundLog(log[n])

OwnInv == \A n \in Node : \A m \in ToSet(queue[n]) : Known(m)

NetInv ==
    /\ \A c \in net : Known(c.msg)
    /\ \A n \in Node : \A k \in current[n] : Cast(k) /\ k.type = "ViewChange"

ProposedInv == \A b \in Held : b.blk \in proposed

\* Replica p has put its signature in the slot of block x.
SignedBy(p, x) ==
    /\ <<x.num, x.view>> \in DOMAIN blocks[p]
    /\ Signs(p, blocks[p][<<x.num, x.view>>])

SignerInv == \A b \in Held : \A p \in b.pairs : SignedBy(p.by, b.blk)

\* What PP takes from PbftBase is what this module takes from it.
LEMMA SameBase ==
    /\ PP!Node = Node /\ PP!Block = Block /\ PP!minNodeNum = minNodeNum
    /\ \A S : PP!Cardinality(S) = Cardinality(S)
<1>1. \A S : PP!Cardinality(S) = Cardinality(S)
    BY DEF PP!Cardinality, Cardinality
<1> QED BY <1>1 DEF PP!Node, Node, PP!minNodeNum, minNodeNum, PP!Block, Block

LEMMA VotesCount ==
    ASSUME NEW n \in Node, NEW lg \in SUBSET SoundEntry, SoundLog(lg),
           NEW type \in Votes, HasQuorum(n, lg, type)
    PROVE  PP!HasQuorum(blockNum[n] + 1, view[n], type)
<1> DEFINE S == FindStateMsg(n, lg, type)
           T == PP!Senders(blockNum[n] + 1, view[n], type)
           f == [e \in S |-> e.key.from]
<1>1. T \subseteq Node
    BY SameBase DEF PP!Senders
<1>2. ASSUME NEW e \in S
      PROVE  /\ e.key.from \in T
             /\ e.key = [type |-> type, num |-> blockNum[n] + 1, view |-> view[n], from |-> e.key.from]
    <2>1. /\ e \in lg /\ e.key \in Key /\ e.key.type = type
          /\ e.key.num = blockNum[n] + 1 /\ e.key.view = view[n]
        BY DEF FindStateMsg, SoundEntry, SoundKey
    <2>2. e.key = [type |-> type, num |-> blockNum[n] + 1, view |-> view[n], from |-> e.key.from]
          /\ e.key.from \in Node
        BY <2>1 DEF Key
    <2>3. e.key \in voted
        BY <2>1 DEF SoundLog, Known, Cast
    <2> QED BY <2>2, <2>3, SameBase DEF PP!Senders
<1>3. \A a, b \in S : a.key.from = b.key.from => a = b
    BY <1>2 DEF FindStateMsg, SoundLog, Unique
<1> HIDE DEF S, T
<1>4. f \in Injection(S, T)
    BY <1>2, <1>3 DEF Injection, IsInjective
<1>5. IsFiniteSet(T)
    BY <1>1, QuorumFacts, FS_Subset
<1> HIDE DEF f
<1>6. Cardinality(S) <= Cardinality(T) /\ IsFiniteSet(S)
    BY <1>4, <1>5, FS_Injection
<1>7. Cardinality(S) >= minNodeNum
    BY DEF HasQuorum, S
<1>8. Cardinality(T) >= minNodeNum
    BY <1>5, <1>6, <1>7, FS_CardinalityType, QuorumFacts
<1> QED BY <1>8, SameBase DEF PP!HasQuorum, T

LEMMA SignersCount ==
    ASSUME TypeInv, SignerInv, NEW n \in Node, NEW b \in SignedBlock, Kin(b),
           b.blk.num = blockNum[n] + 1, b.blk.view = view[n], EnoughSigners(b)
    PROVE  PP!SignedSlot(blockNum[n] + 1, view[n])
<1> DEFINE S == {p.by : p \in b.pairs}
           T == {p \in Node : \E s \in signedBlocks :
                    s.by = p /\ s.block.num = blockNum[n] + 1 /\ s.block.view = view[n]}
           s == <<b.blk.num, b.blk.view>>
<1>1. ASSUME NEW p \in b.pairs PROVE p.by \in T
    <2>1. p.by \in Node
        BY DEF SignedBlock, Pair
    <2>2. SignedBy(p.by, b.blk)
        BY DEF Kin, SignerInv
    <2> DEFINE y == [block |-> blocks[p.by][s].blk, by |-> p.by]
    <2>3. IsSignature(p.by, blocks[p.by], y)
        BY <2>2 DEF SignedBy, IsSignature
    <2>4. y \in signedBlocks
        BY <2>1, <2>3, SignaturesMean
    <2>5. blocks[p.by][s].blk.num = s[1] /\ blocks[p.by][s].blk.view = s[2]
        BY <2>1, <2>2 DEF SignedBy, TypeInv, StoreType, SoundStore
    <2>6. y.by = p.by /\ y.block.num = blockNum[n] + 1 /\ y.block.view = view[n]
        BY <2>5
    <2> HIDE DEF y
    <2> QED BY <2>1, <2>4, <2>6
<1>2. S \subseteq T /\ T \subseteq Node
    BY <1>1
<1>3. Cardinality(S) + 1 >= minNodeNum
    BY DEF EnoughSigners
<1> HIDE DEF S
<1>4. Cardinality(S) \in Nat /\ Cardinality(T) \in Nat /\ Cardinality(S) <= Cardinality(T)
    <2> HIDE DEF T
    <2> QED BY <1>2, CountIsMonotone
<1> HIDE DEF T
<1>5. Cardinality(T) + 1 >= minNodeNum
    BY <1>3, <1>4, QuorumFacts
<1> QED BY <1>5, SameBase DEF PP!SignedSlot, T

(***************************************************************************)
(* What holds of one replica.                                              *)
(***************************************************************************)

\* The Prepare of slot s.
PrepareOf(n, s) == [type |-> "Prepare", num |-> s[1], view |-> s[2], from |-> n]

\* Prepare, signature, state and block in hand come in this order.
Consistent(n, bl) ==
    /\ \A k \in voted : k.type = "Prepare" /\ k.from = n =>
          \/ k.num <= blockNum[n]
          \/ k.num = blockNum[n] + 1 /\ k.view <= view[n]
    /\ state[n] \in {"NotStarted", "PrePreparing"} => KeyOf(n, "Prepare") \notin voted
    /\ \A s \in DOMAIN bl : Signs(n, bl[s]) => PrepareOf(n, s) \in voted
    /\ state[n] \in {"Committing", "Finished"} => received[n]

ReplicaInv == \A n \in Node : Consistent(n, blocks[n])

LEMMA FilingSignature ==
    ASSUME TypeInv, BlockInv, SignerInv, NEW n \in Node, NEW lg, NEW bl, NEW q,
           Filing(n, lg, bl, q), NEW s \in DOMAIN bl, Signs(n, bl[s])
    PROVE  s \in DOMAIN blocks[n] /\ Signs(n, blocks[n][s]) /\ blocks[n][s].blk = bl[s].blk
<1>1. SoundStore(bl) /\ Grows(blocks[n], bl) /\ Kin(bl[s])
    BY FilingFacts, InBlocksOf
<1>2. s = <<bl[s].blk.num, bl[s].blk.view>>
    BY <1>1 DEF SoundStore
<1>3. PICK p \in bl[s].pairs : p.by = n
    BY DEF Signs
<1>4. SignedBy(n, bl[s].blk)
    BY <1>1, <1>3 DEF Kin, SignerInv
<1>5. s \in DOMAIN blocks[n] /\ Signs(n, blocks[n][s])
    BY <1>2, <1>4 DEF SignedBy
<1> QED BY <1>1, <1>5 DEF Grows

LEMMA FiledLog ==
    ASSUME NEW lg, SoundLog(lg), NEW m, Known(m) PROVE SoundLog(addMsg(lg, m))
<1>1. CASE \E e \in lg : e.key = m.key
    BY <1>1 DEF addMsg
<1>2. CASE ~ (\E e \in lg : e.key = m.key)
    <2> DEFINE f == [key |-> m.key, block |-> m.block, sent |-> FALSE]
    <2>1. addMsg(lg, m) = lg \cup {f}
        BY <1>2 DEF addMsg
    <2>2. f.key = m.key /\ f.block = m.block
        OBVIOUS
    <2> HIDE DEF f
    <2>3. Known(f)
        BY <2>2 DEF Known, Offers
    <2> QED BY <1>2, <2>1, <2>2, <2>3 DEF SoundLog, Unique
<1> QED BY <1>1, <1>2

LEMMA FilingKeys ==
    ASSUME TypeInv, LogInv, OwnInv, NetInv, NEW n \in Node, NEW lg, NEW bl, NEW q,
           Filing(n, lg, bl, q)
    PROVE  SoundLog(lg) /\ \A m \in ToSet(q) : Known(m)
<1>0. /\ queue[n] \in Seq(SoundMsg) /\ SoundLog(log[n])
      /\ \A m \in ToSet(queue[n]) : Known(m)
    BY DEF TypeInv, MsgType, OwnType, LogInv, OwnInv
<1>1. CASE lg = log[n] /\ q = queue[n]
    BY <1>0, <1>1
<1>2. CASE queue[n] # <<>> /\ q = Tail(queue[n]) /\ lg = addMsg(log[n], Head(queue[n]))
    <2>1. ToSet(queue[n]) = {Head(queue[n])} \cup ToSet(q)
        BY <1>0, <1>2, HeadAndTail
    <2>2. Known(Head(queue[n])) /\ \A m \in ToSet(q) : Known(m)
        BY <1>0, <2>1
    <2> QED BY <1>0, <1>2, <2>2, FiledLog
<1>3. ASSUME NEW c \in net, q = queue[n], lg = addMsg(log[n], c.msg)
      PROVE  SoundLog(lg) /\ \A m \in ToSet(q) : Known(m)
    BY <1>0, <1>3, FiledLog DEF NetInv
<1> QED BY <1>1, <1>2, <1>3 DEF Filing

LEMMA FilingConsistent ==
    ASSUME TypeInv, BlockInv, SignerInv, ReplicaInv, NEW n \in Node, NEW lg, NEW bl, NEW q,
           Filing(n, lg, bl, q)
    PROVE  Consistent(n, bl)
<1>1. Consistent(n, blocks[n])
    BY DEF ReplicaInv
<1>2. \A s \in DOMAIN bl : Signs(n, bl[s]) => PrepareOf(n, s) \in voted
    BY <1>1, FilingSignature DEF Consistent
<1> QED BY <1>1, <1>2 DEF Consistent

(***************************************************************************)
(* StateMigrate keeps a replica consistent.                                *)
(***************************************************************************)

\* What making a message adds to the history.
LEMMA Signing ==
    ASSUME NEW n, NEW q, NEW type, NEW m, m.key = KeyOf(n, type), InsertMsg(n, q, m)
    PROVE  /\ type \in Votes => voted' = voted \cup {KeyOf(n, type)}
           /\ type \notin Votes => voted' = voted
           /\ type = "PrePrepare" => proposed' = proposed \cup {b.blk : b \in m.block}
           /\ type # "PrePrepare" => proposed' = proposed
<1>1. m.key.type = type
    BY DEF KeyOf
<1> QED BY <1>1 DEF InsertMsg, Sign, Votes

\* A replica that stays in its slot.
LEMMA StaysConsistent ==
    ASSUME TypeInv, NEW n \in Node, NEW bl, Consistent(n, bl),
           blockNum'[n] = blockNum[n], view'[n] = view[n],
           voted' = voted \/ \E type : voted' = voted \cup {KeyOf(n, type)},
           state'[n] \in {"NotStarted", "PrePreparing"} =>
               state[n] \in {"NotStarted", "PrePreparing"}
               /\ (KeyOf(n, "Prepare") \in voted' => KeyOf(n, "Prepare") \in voted),
           \A s \in DOMAIN blocks'[n] : Signs(n, blocks'[n][s]) =>
               \/ s \in DOMAIN bl /\ Signs(n, bl[s])
               \/ s = SlotOf(n) /\ KeyOf(n, "Prepare") \in voted',
           state'[n] \in {"Committing", "Finished"} => received'[n]
    PROVE  Consistent(n, blocks[n])'
<1>0. KeyOf(n, "Prepare")' = KeyOf(n, "Prepare") /\ blockNum[n] \in Nat /\ view[n] \in Nat
    BY OwnKeys DEF KeyOf
<1>1. ASSUME NEW k \in voted', k.type = "Prepare", k.from = n
      PROVE  \/ k.num <= blockNum'[n]
             \/ k.num = blockNum'[n] + 1 /\ k.view <= view'[n]
    <2>1. CASE k \in voted
        BY <1>1, <2>1 DEF Consistent
    <2>2. CASE \E type : k = KeyOf(n, type)
        BY <1>0, <2>2 DEF KeyOf
    <2> QED BY <1>1, <2>1, <2>2
<1>2. state'[n] \in {"NotStarted", "PrePreparing"} => KeyOf(n, "Prepare") \notin voted'
    BY DEF Consistent
<1>3. \A s \in DOMAIN blocks'[n] : Signs(n, blocks'[n][s]) => PrepareOf(n, s) \in voted'
    <2>1. PrepareOf(n, SlotOf(n)) = KeyOf(n, "Prepare")
        BY DEF PrepareOf, SlotOf, KeyOf
    <2> QED BY <2>1 DEF Consistent
<1> QED BY <1>0, <1>1, <1>2, <1>3 DEF Consistent, Signs, PrepareOf

\* A replica that enters a new slot.
LEMMA EntersConsistent ==
    ASSUME TypeInv, NEW n \in Node, NEW bl, Consistent(n, bl),
           \/ blockNum'[n] = blockNum[n] + 1
           \/ blockNum'[n] = blockNum[n] /\ view'[n] = view[n] + 1,
           view'[n] \in Nat, state'[n] = "NotStarted", voted' = voted, blocks'[n] = bl
    PROVE  Consistent(n, blocks[n])'
<1>0. blockNum[n] \in Nat /\ view[n] \in Nat
    BY OwnKeys
<1>1. \A k \in voted : k.type = "Prepare" /\ k.from = n =>
          /\ \/ k.num <= blockNum'[n]
             \/ k.num = blockNum'[n] + 1 /\ k.view <= view'[n]
          /\ k.num = blockNum'[n] + 1 => k.view # view'[n]
    <2> SUFFICES ASSUME NEW k \in voted, k.type = "Prepare", k.from = n
                 PROVE  /\ \/ k.num <= blockNum'[n]
                           \/ k.num = blockNum'[n] + 1 /\ k.view <= view'[n]
                        /\ k.num = blockNum'[n] + 1 => k.view # view'[n]
        OBVIOUS
    <2>1. \/ k.num <= blockNum[n]
          \/ k.num = blockNum[n] + 1 /\ k.view <= view[n]
        BY DEF Consistent
    <2>2. k.num \in Nat /\ k.view \in Nat
        BY DEF TypeInv, MsgType, OwnType, SoundKey, Key
    <2> QED BY <1>0, <2>1, <2>2
<1>2. KeyOf(n, "Prepare")' \notin voted
    <2>1. /\ KeyOf(n, "Prepare")'.type = "Prepare" /\ KeyOf(n, "Prepare")'.from = n
          /\ KeyOf(n, "Prepare")'.num = blockNum'[n] + 1 /\ KeyOf(n, "Prepare")'.view = view'[n]
        BY DEF KeyOf
    <2> QED BY <1>1, <2>1
<1>3. \A s \in DOMAIN bl : Signs(n, bl[s]) => PrepareOf(n, s) \in voted
    BY DEF Consistent
<1> QED BY <1>1, <1>2, <1>3 DEF Consistent, Signs, PrepareOf

(***************************************************************************)
(* What a step changes of what the replicas have signed, hold and have     *)
(* committed.                                                              *)
(***************************************************************************)

\* What the mapping means, to be primed.
Meanings ==
    /\ \A y : y \in signedBlocks <=> \E n \in Node : IsSignature(n, blocks[n], y)
    /\ \A n \in Node : receivedBlock[n] =
          IF received[n] /\ SlotOf(n) \in DOMAIN blocks[n]
          THEN {blocks[n][SlotOf(n)].blk} ELSE {}

LEMMA MeaningsHold == Meanings
<1>1. ASSUME NEW n \in Node
      PROVE  receivedBlock[n] = IF received[n] /\ SlotOf(n) \in DOMAIN blocks[n]
                                THEN {blocks[n][SlotOf(n)].blk} ELSE {}
    <2> DEFINE s == SlotOf(n)
               bl == blocks[n]
    <2>1. FindBlock(n, bl) = IF s \in DOMAIN bl THEN {bl[s]} ELSE {}
        BY DEF FindBlock
    <2>2. receivedBlock[n] = IF received[n] THEN {b.blk : b \in FindBlock(n, bl)} ELSE {}
        BY DEF receivedBlock
    <2> HIDE DEF s, bl
    <2>3. {b.blk : b \in {bl[s]}} = {bl[s].blk}
        OBVIOUS
    <2> QED BY <2>1, <2>2, <2>3 DEF s, bl
<1> QED BY <1>1, SignaturesMean DEF Meanings

LEMMA MeaningsAfter == Meanings'
BY MeaningsHold, PTL

OthersAre(n) == \A p \in Node : p # n => Alone(p)

LEMMA SignaturesAfter ==
    ASSUME NEW n \in Node, OthersAre(n), NEW S,
           \A y : IsSignature(n, blocks'[n], y) <=> IsSignature(n, blocks[n], y) \/ y \in S
    PROVE  signedBlocks' = signedBlocks \cup S
<1>1. ASSUME NEW y PROVE y \in signedBlocks' <=> y \in signedBlocks \/ y \in S
    <2>1. \A p \in Node : p # n => blocks'[p] = blocks[p]
        BY DEF OthersAre, Alone
    <2>2. y \in signedBlocks' <=> \E p \in Node : IsSignature(p, blocks'[p], y)
        BY MeaningsAfter DEF Meanings
    <2>3. y \in signedBlocks <=> \E p \in Node : IsSignature(p, blocks[p], y)
        BY MeaningsHold DEF Meanings
    <2> QED BY <2>1, <2>2, <2>3
<1> QED BY <1>1

(***************************************************************************)
(* The state machine run on what has been filed: each run is a step of the *)
(* protocol, or none, and leaves the replica consistent.                   *)
(***************************************************************************)

EngineInv ==
    /\ CalmBlockInv
    /\ LogInv /\ OwnInv /\ NetInv /\ ReplicaInv
    /\ ProposedInv /\ SignerInv

\* Replica n runs its state machine on log lg, store bl and queue q.
Runs(n, lg, bl, q) ==
    /\ EngineInv /\ OthersAre(n)
    /\ Filing(n, lg, bl, q) /\ Active(n)
    /\ StateMigrate(n, lg, bl, q)

\* What a run has to show.
Refines(n) == (PP!Step(n) \/ UNCHANGED PP!vars) /\ Consistent(n, blocks[n])'

LEMMA RunFacts ==
    ASSUME NEW n \in Node, NEW lg, NEW bl, NEW q, Runs(n, lg, bl, q)
    PROVE  /\ TypeInv /\ BlockInv /\ OthersAre(n)
           /\ lg \in SUBSET SoundEntry /\ SoundStore(bl) /\ q \in Seq(SoundMsg)
           /\ Grows(blocks[n], bl) /\ \A x \in BlocksOf(lg, bl, q) : Kin(x)
           /\ SoundLog(lg) /\ Consistent(n, bl)
           /\ state[n] \in States /\ received \in [Node -> BOOLEAN]
           /\ HoldsBlock(n)
           /\ blockNum[n] \in Nat /\ view[n] \in Nat
           /\ PP!Active(n)
<1>1. /\ TypeInv /\ BlockInv /\ ReceivedInv /\ OthersAre(n)
      /\ LogInv /\ OwnInv /\ NetInv /\ ReplicaInv /\ SignerInv /\ Filing(n, lg, bl, q)
    BY DEF Runs, EngineInv, CalmBlockInv
<1>2. /\ lg \in SUBSET SoundEntry /\ SoundStore(bl) /\ q \in Seq(SoundMsg)
      /\ Grows(blocks[n], bl) /\ \A x \in BlocksOf(lg, bl, q) : Kin(x)
    BY <1>1, FilingFacts
<1>3. SoundLog(lg)
    BY <1>1, FilingKeys
<1>4. Consistent(n, bl)
    BY <1>1, FilingConsistent
<1>5. state[n] \in States /\ received \in [Node -> BOOLEAN]
    BY <1>1 DEF TypeInv, EngineType
<1>6. HoldsBlock(n)
    BY <1>1 DEF HoldsBlock, ReceivedInv
<1>7. blockNum[n] \in Nat /\ view[n] \in Nat
    BY <1>1, OwnKeys
<1>8. PP!Active(n)
    BY DEF Runs, Active, PP!Active
<1> QED BY <1>1, <1>2, <1>3, <1>4, <1>5, <1>6, <1>7, <1>8

LEMMA RunSignatures ==
    ASSUME NEW n \in Node, NEW lg, NEW bl, NEW q, Runs(n, lg, bl, q), blocks'[n] = bl
    PROVE  signedBlocks' = signedBlocks
<1>0. /\ OthersAre(n) /\ Grows(blocks[n], bl)
      /\ TypeInv /\ BlockInv /\ SignerInv /\ Filing(n, lg, bl, q)
    BY RunFacts DEF Runs, EngineInv
<1>1. ASSUME NEW y PROVE IsSignature(n, blocks'[n], y) <=> IsSignature(n, blocks[n], y)
    <2>1. \A s \in DOMAIN bl : Signs(n, bl[s]) =>
              s \in DOMAIN blocks[n] /\ Signs(n, blocks[n][s]) /\ blocks[n][s].blk = bl[s].blk
        BY <1>0, FilingSignature
    <2>2. \A s \in DOMAIN blocks[n] : Signs(n, blocks[n][s]) =>
              s \in DOMAIN bl /\ Signs(n, bl[s]) /\ blocks[n][s].blk = bl[s].blk
        BY <1>0 DEF Grows, Signs
    <2> QED BY <2>1, <2>2 DEF IsSignature
<1>2. signedBlocks' = signedBlocks \cup {}
    BY <1>0, <1>1, SignaturesAfter
<1> QED BY <1>2

\* The block in hand after a run that stays in its slot.
LEMMA RunHand ==
    ASSUME NEW n \in Node, NEW lg, NEW bl, NEW q, Runs(n, lg, bl, q),
           blockNum'[n] = blockNum[n], view'[n] = view[n], blocks'[n] = bl
    PROVE  /\ received'[n] = received[n] => receivedBlock' = receivedBlock
           /\ ~ received'[n] => receivedBlock' = [receivedBlock EXCEPT ![n] = {}]
           /\ received[n] /\ received'[n] => receivedBlock' = receivedBlock
           /\ ~ received[n] /\ ~ received'[n] => receivedBlock' = receivedBlock
           /\ ~ received[n] => receivedBlock[n] = {}
           /\ received[n] => receivedBlock[n] # {}
           /\ received'[n] /\ SlotOf(n) \in DOMAIN bl
                 => receivedBlock' = [receivedBlock EXCEPT ![n] = {bl[SlotOf(n)].blk}]
<1> DEFINE s == SlotOf(n)
<1>0. /\ OthersAre(n) /\ Grows(blocks[n], bl) /\ HoldsBlock(n) /\ received \in [Node -> BOOLEAN]
    BY RunFacts
<1>1. SlotOf(n)' = s
    BY DEF SlotOf
<1>2. receivedBlock[n] = IF received[n] /\ s \in DOMAIN blocks[n] THEN {blocks[n][s].blk} ELSE {}
    BY MeaningsHold DEF Meanings
<1>3. receivedBlock'[n] = IF received'[n] /\ s \in DOMAIN bl THEN {bl[s].blk} ELSE {}
    BY <1>1, MeaningsAfter DEF Meanings
<1>4. ASSUME NEW p \in Node, p # n PROVE receivedBlock'[p] = receivedBlock[p]
    <2>1. /\ received'[p] = received[p] /\ blocks'[p] = blocks[p] /\ SlotOf(p)' = SlotOf(p)
        BY <1>0, <1>4 DEF OthersAre, Alone, SlotOf
    <2>2. receivedBlock[p] = IF received[p] /\ SlotOf(p) \in DOMAIN blocks[p]
                             THEN {blocks[p][SlotOf(p)].blk} ELSE {}
        BY MeaningsHold DEF Meanings
    <2>3. receivedBlock'[p] = IF received'[p] /\ SlotOf(p)' \in DOMAIN blocks'[p]
                              THEN {blocks'[p][SlotOf(p)'].blk} ELSE {}
        BY MeaningsAfter DEF Meanings
    <2> QED BY <2>1, <2>2, <2>3
<1>5. /\ receivedBlock = [p \in Node |-> receivedBlock[p]]
      /\ receivedBlock' = [p \in Node |-> receivedBlock'[p]]
    BY DEF receivedBlock
<1>6. ASSUME NEW X, receivedBlock'[n] = X PROVE receivedBlock' = [receivedBlock EXCEPT ![n] = X]
    BY <1>4, <1>5, <1>6
<1>7. receivedBlock'[n] = receivedBlock[n] => receivedBlock' = receivedBlock
    BY <1>4, <1>5
<1>8. received[n] => s \in DOMAIN blocks[n] /\ s \in DOMAIN bl /\ bl[s].blk = blocks[n][s].blk
    BY <1>0 DEF HoldsBlock, Grows
<1> HIDE DEF s
<1>9. received'[n] = received[n] => receivedBlock'[n] = receivedBlock[n]
    BY <1>2, <1>3, <1>8
<1>10. (received[n] /\ received'[n]) \/ (~ received[n] /\ ~ received'[n])
           => receivedBlock'[n] = receivedBlock[n]
    BY <1>2, <1>3, <1>8
<1>11. /\ ~ received[n] => receivedBlock[n] = {}
       /\ received[n] => receivedBlock[n] # {}
       /\ ~ received'[n] => receivedBlock'[n] = {}
       /\ received'[n] /\ s \in DOMAIN bl => receivedBlock'[n] = {bl[s].blk}
    BY <1>2, <1>3, <1>8
<1> QED BY <1>6, <1>7, <1>9, <1>10, <1>11 DEF s

\* The block of the slot is one that was proposed.
LEMMA RunProposed ==
    ASSUME NEW n \in Node, NEW lg, NEW bl, NEW q, Runs(n, lg, bl, q),
           NEW b \in BlocksOf(lg, bl, q), b.blk.num = blockNum[n] + 1, b.blk.view = view[n]
    PROVE  b.blk \in PP!Proposed(n)
<1>1. PICK y \in Held : y.blk = b.blk
    BY RunFacts DEF Kin
<1>2. b.blk \in proposed
    BY <1>1 DEF Runs, EngineInv, ProposedInv
<1> QED BY <1>2 DEF PP!Proposed

\* What Receive finds in the store is what the protocol lets a replica hold.
LEMMA RunReceive ==
    ASSUME NEW n \in Node, NEW lg, NEW bl, NEW q, Runs(n, lg, bl, q),
           blockNum'[n] = blockNum[n], view'[n] = view[n], blocks'[n] = bl, Receive(n, bl)
    PROVE  /\ \E held \in PP!Holdings(n) :
                 /\ receivedBlock' = [receivedBlock EXCEPT ![n] = held]
                 /\ received'[n] => held # {}
           /\ received[n] => received'[n]
<1> DEFINE s == SlotOf(n)
<1>0. /\ received \in [Node -> BOOLEAN] /\ SoundStore(bl) /\ TypeInv /\ SignerInv
      /\ \A x \in BlocksOf(lg, bl, q) : Kin(x)
    BY RunFacts DEF Runs, EngineInv
<1>1. received'[n] <=> received[n] \/ \E b \in FindBlock(n, bl) : EnoughSigners(b)
    BY <1>0 DEF Receive
<1>2. CASE ~ received[n] /\ received'[n]
    <2>1. PICK b \in FindBlock(n, bl) : EnoughSigners(b)
        BY <1>1, <1>2
    <2>2. /\ s \in DOMAIN bl /\ b = bl[s] /\ b \in SignedBlock
          /\ b.blk.num = blockNum[n] + 1 /\ b.blk.view = view[n]
        BY <1>0, FoundFits
    <2>3. b \in BlocksOf(lg, bl, q)
        BY <2>2, InBlocksOf
    <2>4. b.blk \in PP!Proposed(n)
        BY <2>2, <2>3, RunProposed
    <2>5. PP!SignedSlot(blockNum[n] + 1, view[n])
        BY <1>0, <2>1, <2>2, <2>3, SignersCount
    <2>6. receivedBlock[n] = {}
        BY <1>2, RunHand
    <2>7. {b.blk} \in PP!Holdings(n)
        BY <2>4, <2>5, <2>6 DEF PP!Holdings
    <2>8. receivedBlock' = [receivedBlock EXCEPT ![n] = {b.blk}]
        <3>1. SlotOf(n) \in DOMAIN bl /\ b = bl[SlotOf(n)] /\ received'[n]
            BY <1>2, <2>2
        <3>2. receivedBlock' = [receivedBlock EXCEPT ![n] = {bl[SlotOf(n)].blk}]
            BY <3>1, RunHand
        <3> QED BY <3>1, <3>2
    <2> QED BY <1>2, <2>7, <2>8
<1>3. CASE ~ (~ received[n] /\ received'[n])
    <2>1. receivedBlock[n] \in PP!Holdings(n)
        BY DEF PP!Holdings
    <2>2. receivedBlock' = receivedBlock
        <3>1. CASE received[n]
            BY <1>1, <3>1, RunHand
        <3>2. CASE ~ received[n]
            BY <1>3, <3>2, RunHand
        <3> QED BY <3>1, <3>2
    <2>3. receivedBlock' = [receivedBlock EXCEPT ![n] = receivedBlock[n]]
        BY <2>2 DEF receivedBlock
    <2>4. received'[n] => receivedBlock[n] # {}
        BY <1>3, RunHand
    <2> QED BY <1>1, <2>1, <2>3, <2>4
<1> QED BY <1>2, <1>3

\* A run that files what it was given and goes no further.
LEMMA RunIdle ==
    ASSUME NEW n \in Node, NEW lg, NEW bl, NEW q, Runs(n, lg, bl, q),
           UNCHANGED <<blockNum, blockID, committed, view, state, timer>>,
           blocks'[n] = bl, UNCHANGED signed,
           received'[n] = received[n] \/ (~ received[n] /\ ~ received'[n])
    PROVE  Refines(n)
<1>0. TypeInv /\ Consistent(n, bl) /\ UNCHANGED <<proposed, voted>>
    BY RunFacts DEF signed
<1>1. Consistent(n, blocks[n])'
    <2>1. state[n] \in {"Committing", "Finished"} => received'[n]
        BY <1>0 DEF Consistent
    <2> QED BY <1>0, <2>1, StaysConsistent
<1>2. signedBlocks' = signedBlocks
    BY RunSignatures
<1>3. receivedBlock' = receivedBlock
    BY RunHand
<1>4. committedBlocks' = committedBlocks
    BY DEF committedBlocks
<1> QED BY <1>0, <1>1, <1>2, <1>3, <1>4 DEF Refines, PP!vars

LEMMA EnterState ==
    ASSUME NEW n, NEW s, ChangeState(n, s), s # "ViewChanging" PROVE PP!Enter(n, s)
BY DEF ChangeState, PP!Enter

\* A run that changes no height and no view, and makes a vote without a block.
LEMMA RunInserts ==
    ASSUME NEW n \in Node, NEW lg, NEW bl, NEW q, Runs(n, lg, bl, q),
           UNCHANGED <<blockNum, blockID, committed, view>>, blocks'[n] = bl,
           NEW type \in Votes,
           InsertMsg(n, q, [key |-> KeyOf(n, type), block |-> {}])
    PROVE  /\ voted' = voted \cup {PP!Msg(n, type)} /\ KeyOf(n, type) = PP!Msg(n, type)
           /\ proposed' = proposed /\ signedBlocks' = signedBlocks
           /\ committedBlocks' = committedBlocks
<1> DEFINE m == [key |-> KeyOf(n, type), block |-> {}]
<1>1. InsertMsg(n, q, m) /\ m.key = KeyOf(n, type)
    OBVIOUS
<1> HIDE DEF m
<1>2. voted' = voted \cup {KeyOf(n, type)} /\ proposed' = proposed
    BY <1>1, Signing DEF Votes
<1>3. KeyOf(n, type) = PP!Msg(n, type)
    BY DEF KeyOf, PP!Msg
<1>4. signedBlocks' = signedBlocks
    BY RunSignatures
<1>5. committedBlocks' = committedBlocks
    BY DEF committedBlocks
<1> QED BY <1>2, <1>3, <1>4, <1>5

\* A run that changes no height and no view, and makes nothing.
LEMMA RunLeaves ==
    ASSUME NEW n \in Node, NEW lg, NEW bl, NEW q, Runs(n, lg, bl, q),
           UNCHANGED <<blockNum, blockID, committed, view>>, blocks'[n] = bl,
           Leave(n, q)
    PROVE  /\ voted' = voted
           /\ proposed' = proposed /\ signedBlocks' = signedBlocks
           /\ committedBlocks' = committedBlocks
<1>1. signedBlocks' = signedBlocks
    BY RunSignatures
<1> QED BY <1>1 DEF Leave, signed, committedBlocks

\* The primary's proposal (states.go:97-144).
LEMMA RunPropose ==
    ASSUME NEW n \in Node, NEW lg, NEW bl, NEW q, Runs(n, lg, bl, q),
           state[n] = "NotStarted", IsPrimaryVerfier(n), blocks'[n] = bl,
           UNCHANGED <<chainVars, view, received>>, ChangeState(n, "Preparing"),
           NEW body \in Bodies, NEW m,
           m = [key |-> KeyOf(n, "PrePrepare"),
                block |-> {[blk |-> packageBlock(n, body), pairs |-> {}]}],
           InsertMsg(n, q, m)
    PROVE  Refines(n)
<1> DEFINE x == packageBlock(n, body)
<1>0. /\ TypeInv /\ Consistent(n, bl)
      /\ UNCHANGED <<blockNum, blockID, committed, view>>
      /\ received \in [Node -> BOOLEAN] /\ state'[n] = "Preparing"
    <2>1. state'[n] = "Preparing"
        BY RunFacts DEF ChangeState, TypeInv, EngineType
    <2> QED BY <2>1, RunFacts DEF chainVars
<1>1. m.key = KeyOf(n, "PrePrepare") /\ {b.blk : b \in m.block} = {x}
    OBVIOUS
<1>2. x = [num |-> blockNum[n] + 1, view |-> view[n], prev |-> blockID[n], body |-> body]
    BY DEF packageBlock
<1> HIDE DEF x
<1>3. voted' = voted /\ proposed' = proposed \cup {x}
    BY <1>1, Signing DEF Votes
<1>4. Consistent(n, blocks[n])'
    BY <1>0, <1>3, StaysConsistent
<1>5. signedBlocks' = signedBlocks /\ committedBlocks' = committedBlocks
    BY <1>0, RunSignatures DEF committedBlocks
<1>6. receivedBlock' = receivedBlock
    BY <1>0, RunHand
<1>7. PP!Enter(n, "Preparing") /\ PP!Active(n) /\ PP!IsPrimary(n)
    BY EnterState, RunFacts DEF PP!IsPrimary, IsPrimaryVerfier, PP!Primary, Primary
<1>8. PP!Propose(n)
    BY <1>0, <1>2, <1>3, <1>5, <1>6, <1>7 DEF PP!Propose
<1> QED BY <1>4, <1>8 DEF Refines, PP!Step

\* What the pieces of a run do to the replica itself.
LEMMA RunEffects ==
    ASSUME NEW n \in Node, NEW lg, NEW bl, NEW q, Runs(n, lg, bl, q)
    PROVE  /\ \A new : blocks' = [blocks EXCEPT ![n] = new] => blocks'[n] = new
           /\ \A s : ChangeState(n, s) => state'[n] = s
<1>1. blocks = [m \in Node |-> blocks[m]] /\ state \in [Node -> States]
    BY RunFacts DEF TypeInv, StoreType, EngineType
<1> QED BY <1>1 DEF ChangeState

\* A replica finds its own message by its key.
LEMMA OwnEntry ==
    ASSUME NEW n, NEW lg \in SUBSET SoundEntry, NEW type, FindStateMsgBySinger(n, lg, type, n) # {}
    PROVE  KeyOf(n, type) \in KeysOf(lg)
<1>1. PICK e \in lg : /\ e.key.type = type /\ e.key.num = blockNum[n] + 1
                      /\ e.key.view = view[n] /\ e.key.from = n
    BY DEF FindStateMsgBySinger, FindStateMsg
<1>2. e.key \in Key
    BY DEF SoundEntry, SoundKey
<1>3. e.key = KeyOf(n, type)
    BY <1>1, <1>2 DEF Key, KeyOf
<1> QED BY <1>3 DEF KeysOf

\* A vote the replica has filed is one the protocol knows of.
LEMMA RunPrepared ==
    ASSUME NEW n \in Node, NEW lg, NEW bl, NEW q, Runs(n, lg, bl, q),
           FindStateMsgBySinger(n, lg, "Prepare", n) # {}
    PROVE  PP!Msg(n, "Prepare") \in voted
<1>1. PICK e \in lg : e.key = KeyOf(n, "Prepare")
    BY OwnEntry, RunFacts DEF KeysOf
<1>2. KeyOf(n, "Prepare") = PP!Msg(n, "Prepare") /\ KeyOf(n, "Prepare").type \in Votes
    BY DEF KeyOf, PP!Msg, Votes
<1>3. Cast(e.key)
    BY RunFacts DEF SoundLog, Known
<1> QED BY <1>1, <1>2, <1>3 DEF Cast

LEMMA RunQuorum ==
    ASSUME NEW n \in Node, NEW lg, NEW bl, NEW q, Runs(n, lg, bl, q),
           NEW type \in Votes, HasQuorum(n, lg, type)
    PROVE  PP!HasQuorum(blockNum[n] + 1, view[n], type)
BY RunFacts, VotesCount

\* An empty hand, whatever happens to the slot and the store.
LEMMA EmptyHand ==
    ASSUME NEW n \in Node, OthersAre(n), ~ received'[n]
    PROVE  /\ receivedBlock' = [receivedBlock EXCEPT ![n] = {}]
           /\ ~ received[n] => receivedBlock' = receivedBlock
<1>1. receivedBlock'[n] = {} /\ (~ received[n] => receivedBlock[n] = {})
    BY MeaningsHold, MeaningsAfter DEF Meanings
<1>2. ASSUME NEW p \in Node, p # n PROVE receivedBlock'[p] = receivedBlock[p]
    <2>1. /\ received'[p] = received[p] /\ blocks'[p] = blocks[p] /\ SlotOf(p)' = SlotOf(p)
        BY <1>2 DEF OthersAre, Alone, SlotOf
    <2>2. receivedBlock[p] = IF received[p] /\ SlotOf(p) \in DOMAIN blocks[p]
                             THEN {blocks[p][SlotOf(p)].blk} ELSE {}
        BY MeaningsHold DEF Meanings
    <2>3. receivedBlock'[p] = IF received'[p] /\ SlotOf(p)' \in DOMAIN blocks'[p]
                              THEN {blocks'[p][SlotOf(p)'].blk} ELSE {}
        BY MeaningsAfter DEF Meanings
    <2> QED BY <2>1, <2>2, <2>3
<1>3. /\ receivedBlock = [p \in Node |-> receivedBlock[p]]
      /\ receivedBlock' = [p \in Node |-> receivedBlock'[p]]
    BY DEF receivedBlock
<1> QED BY <1>1, <1>2, <1>3

\* A run that enters a new slot.
LEMMA RunEnters ==
    ASSUME NEW n \in Node, NEW lg, NEW bl, NEW q, Runs(n, lg, bl, q),
           blocks'[n] = bl, Leave(n, q), state'[n] = "NotStarted", ~ received'[n],
           \/ blockNum'[n] = blockNum[n] + 1 /\ view'[n] = view[n]
           \/ blockNum'[n] = blockNum[n] /\ view'[n] = view[n] + 1
    PROVE  /\ Consistent(n, blocks[n])'
           /\ voted' = voted
           /\ proposed' = proposed /\ signedBlocks' = signedBlocks
           /\ receivedBlock' = [receivedBlock EXCEPT ![n] = {}]
<1>0. /\ TypeInv /\ Consistent(n, bl) /\ OthersAre(n)
      /\ blockNum[n] \in Nat /\ view[n] \in Nat
      /\ voted' = voted /\ proposed' = proposed
    BY RunFacts DEF Leave, signed
<1>1. view'[n] \in Nat
    BY <1>0
<1>2. Consistent(n, blocks[n])'
    BY <1>0, <1>1, EntersConsistent
<1>3. signedBlocks' = signedBlocks
    BY RunSignatures
<1>4. receivedBlock' = [receivedBlock EXCEPT ![n] = {}]
    BY <1>0, EmptyHand
<1> QED BY <1>0, <1>2, <1>3, <1>4

\* Waiting for the primary (states.go:97-144).
LEMMA RunNotStarted ==
    ASSUME NEW n \in Node, NEW lg, NEW bl, NEW q, Runs(n, lg, bl, q),
           MigrateNotStarted(n, lg, bl, q)
    PROVE  Refines(n)
<1>1. /\ state[n] = "NotStarted" /\ blocks'[n] = bl
      /\ UNCHANGED <<chainVars, view, received>>
      /\ UNCHANGED <<blockNum, blockID, committed, view, received>>
    BY RunEffects DEF MigrateNotStarted, chainVars
<1>2. CASE Stay /\ Leave(n, q)
    BY <1>1, <1>2, RunIdle DEF Stay, Leave
<1>3. ASSUME IsPrimaryVerfier(n), ChangeState(n, "Preparing"), NEW body \in Bodies,
             InsertMsg(n, q, [key |-> KeyOf(n, "PrePrepare"),
                              block |-> {[blk |-> packageBlock(n, body), pairs |-> {}]}])
      PROVE  Refines(n)
    <2> DEFINE m == [key |-> KeyOf(n, "PrePrepare"),
                     block |-> {[blk |-> packageBlock(n, body), pairs |-> {}]}]
    <2>1. InsertMsg(n, q, m)
        BY <1>3
    <2>2. m = [key |-> KeyOf(n, "PrePrepare"),
               block |-> {[blk |-> packageBlock(n, body), pairs |-> {}]}]
        OBVIOUS
    <2> HIDE DEF m
    <2> QED BY <1>1, <1>3, <2>1, <2>2, RunPropose
<1>4. CASE ~ IsPrimaryVerfier(n) /\ ChangeState(n, "PrePreparing") /\ Leave(n, q)
    <2>1. state'[n] = "PrePreparing"
        BY <1>4, RunEffects
    <2>2. /\ voted' = voted
          /\ proposed' = proposed /\ signedBlocks' = signedBlocks
          /\ committedBlocks' = committedBlocks
        BY <1>1, <1>4, RunLeaves
    <2>3. Consistent(n, blocks[n])'
        <3>1. TypeInv /\ Consistent(n, bl)
            BY RunFacts
        <3> QED BY <1>1, <2>1, <2>2, <3>1, StaysConsistent
    <2>4. receivedBlock' = receivedBlock
        BY <1>1, RunHand
    <2>5. PP!Enter(n, "PrePreparing") /\ PP!Active(n) /\ ~ PP!IsPrimary(n)
        BY <1>4, EnterState, RunFacts DEF PP!IsPrimary, IsPrimaryVerfier, PP!Primary, Primary
    <2>6. PP!AwaitPrePrepare(n)
        BY <1>1, <2>2, <2>4, <2>5 DEF PP!AwaitPrePrepare
    <2> QED BY <2>3, <2>6 DEF Refines, PP!Step
<1> QED BY <1>2, <1>3, <1>4 DEF MigrateNotStarted

\* Preparing (states.go:233-282).
LEMMA RunPreparing ==
    ASSUME NEW n \in Node, NEW lg, NEW bl, NEW q, Runs(n, lg, bl, q),
           MigratePreparing(n, lg, bl, q)
    PROVE  Refines(n)
<1>0. TypeInv /\ Consistent(n, bl)
    BY RunFacts
<1>1. /\ state[n] = "Preparing" /\ blocks'[n] = bl
      /\ UNCHANGED <<blockNum, blockID, committed, view>>
    BY RunEffects DEF MigratePreparing, chainVars
<1>2. CASE /\ InsertMsg(n, q, [key |-> KeyOf(n, "Prepare"), block |-> {}])
           /\ Stay /\ received' = received
    <2>1. /\ voted' = voted \cup {PP!Msg(n, "Prepare")}
          /\ KeyOf(n, "Prepare") = PP!Msg(n, "Prepare")
          /\ proposed' = proposed /\ signedBlocks' = signedBlocks
          /\ committedBlocks' = committedBlocks /\ UNCHANGED <<state, timer>>
        BY <1>1, <1>2, RunInserts DEF Votes, Stay
    <2>2. Consistent(n, blocks[n])'
        BY <1>0, <1>1, <1>2, <2>1, StaysConsistent
    <2>3. receivedBlock' = receivedBlock
        BY <1>1, <1>2, RunHand
    <2>4. CASE PP!Msg(n, "Prepare") \in voted
        <3>1. voted' = voted
            BY <2>1, <2>4
        <3>2. UNCHANGED PP!vars
            BY <1>1, <2>1, <2>3, <3>1 DEF PP!vars
        <3> QED BY <2>2, <3>2 DEF Refines
    <2>5. CASE PP!Msg(n, "Prepare") \notin voted
        <3>1. PP!SendPrepare(n)
            BY <1>1, <2>1, <2>3, <2>5, RunFacts DEF PP!SendPrepare
        <3> QED BY <2>2, <3>1 DEF Refines, PP!Step
    <2> QED BY <2>4, <2>5
<1>3. CASE /\ FindStateMsgBySinger(n, lg, "Prepare", n) # {}
           /\ Leave(n, q) /\ Receive(n, bl)
           /\ IF HasQuorum(n, lg, "Prepare") THEN ChangeState(n, "Checking") ELSE Stay
    <2>1. PP!Msg(n, "Prepare") \in voted
        BY <1>3, RunPrepared
    <2>2. /\ voted' = voted
          /\ proposed' = proposed /\ signedBlocks' = signedBlocks
          /\ committedBlocks' = committedBlocks
        BY <1>1, <1>3, RunLeaves
    <2>3. \E held \in PP!Holdings(n) : receivedBlock' = [receivedBlock EXCEPT ![n] = held]
        BY <1>1, <1>3, RunReceive
    <2>4. state'[n] \in {"Preparing", "Checking"}
        BY <1>1, <1>3, RunEffects DEF Stay
    <2>5. Consistent(n, blocks[n])'
        BY <1>0, <1>1, <2>2, <2>4, StaysConsistent
    <2>6. CASE Stay
        <3>1. PP!FindReceivedBlock(n)
            BY <1>1, <2>1, <2>2, <2>3, <2>6, RunFacts DEF PP!FindReceivedBlock, Stay
        <3> QED BY <2>5, <3>1 DEF Refines, PP!Step
    <2>7. CASE HasQuorum(n, lg, "Prepare") /\ ChangeState(n, "Checking")
        <3>1. PP!HasQuorum(blockNum[n] + 1, view[n], "Prepare")
            BY <2>7, RunQuorum DEF Votes
        <3>2. PP!Enter(n, "Checking")
            BY <2>7, EnterState
        <3>3. PP!CheckPrepared(n)
            BY <1>1, <2>1, <2>2, <2>3, <3>1, <3>2, RunFacts DEF PP!CheckPrepared
        <3> QED BY <2>5, <3>3 DEF Refines, PP!Step
    <2> QED BY <1>3, <2>6, <2>7
<1> QED BY <1>2, <1>3 DEF MigratePreparing

\* Checking (states.go:284-321).
LEMMA RunChecking ==
    ASSUME NEW n \in Node, NEW lg, NEW bl, NEW q, Runs(n, lg, bl, q),
           MigrateChecking(n, lg, bl, q)
    PROVE  Refines(n)
<1>0. TypeInv /\ Consistent(n, bl) /\ received \in [Node -> BOOLEAN]
    BY RunFacts
<1>1. /\ state[n] = "Checking" /\ blocks'[n] = bl /\ Receive(n, bl)
      /\ UNCHANGED <<blockNum, blockID, committed, view>>
    BY RunEffects DEF MigrateChecking, chainVars
<1>2. PICK held \in PP!Holdings(n) :
          receivedBlock' = [receivedBlock EXCEPT ![n] = held] /\ (received'[n] => held # {})
    BY <1>1, RunReceive
<1>3. CASE /\ received'[n] /\ ChangeState(n, "Committing")
           /\ InsertMsg(n, q, [key |-> KeyOf(n, "Commit"), block |-> {}])
    <2>1. state'[n] = "Committing" /\ PP!Enter(n, "Committing")
        BY <1>3, RunEffects, EnterState
    <2>2. /\ voted' = voted \cup {PP!Msg(n, "Commit")}
          /\ KeyOf(n, "Commit") = PP!Msg(n, "Commit")
          /\ proposed' = proposed /\ signedBlocks' = signedBlocks
          /\ committedBlocks' = committedBlocks
        BY <1>1, <1>3, RunInserts DEF Votes
    <2>3. Consistent(n, blocks[n])'
        BY <1>0, <1>1, <1>3, <2>1, <2>2, StaysConsistent
    <2>4. PP!SendCommit(n)
        BY <1>1, <1>2, <1>3, <2>1, <2>2, RunFacts DEF PP!SendCommit
    <2> QED BY <2>3, <2>4 DEF Refines, PP!Step
<1>4. CASE ~ received'[n] /\ Stay /\ Leave(n, q)
    <2>1. UNCHANGED signed /\ UNCHANGED <<state, timer>> /\ ~ received[n]
        BY <1>1, <1>4, RunReceive DEF Stay, Leave
    <2> QED BY <1>1, <1>4, <2>1, RunIdle
<1> QED BY <1>3, <1>4 DEF MigrateChecking

\* Committing (states.go:323-346).
LEMMA RunCommitting ==
    ASSUME NEW n \in Node, NEW lg, NEW bl, NEW q, Runs(n, lg, bl, q),
           MigrateCommitting(n, lg, bl, q)
    PROVE  Refines(n)
<1>0. TypeInv /\ Consistent(n, bl)
    BY RunFacts
<1>1. /\ state[n] = "Committing" /\ blocks'[n] = bl /\ Leave(n, q)
      /\ UNCHANGED <<blockNum, blockID, committed, view, received>>
    BY RunEffects DEF MigrateCommitting, chainVars
<1>2. CASE Stay
    BY <1>1, <1>2, RunIdle DEF Stay, Leave
<1>3. CASE HasQuorum(n, lg, "Commit") /\ ChangeState(n, "Finished")
    <2>1. state'[n] = "Finished" /\ PP!Enter(n, "Finished")
        BY <1>3, RunEffects, EnterState
    <2>2. /\ voted' = voted
          /\ proposed' = proposed /\ signedBlocks' = signedBlocks
          /\ committedBlocks' = committedBlocks
        BY <1>1, RunLeaves
    <2>3. received'[n]
        BY <1>0, <1>1 DEF Consistent
    <2>4. Consistent(n, blocks[n])'
        BY <1>0, <1>1, <2>1, <2>2, <2>3, StaysConsistent
    <2>5. PP!HasQuorum(blockNum[n] + 1, view[n], "Commit")
        BY <1>3, RunQuorum DEF Votes
    <2>6. receivedBlock' = receivedBlock
        BY <1>1, RunHand
    <2>7. PP!Finish(n)
        BY <1>1, <2>1, <2>2, <2>5, <2>6, RunFacts DEF PP!Finish
    <2> QED BY <2>4, <2>7 DEF Refines, PP!Step
<1> QED BY <1>2, <1>3 DEF MigrateCommitting

\* ViewChanging (states.go:359-377).
LEMMA RunViewChanging ==
    ASSUME NEW n \in Node, NEW lg, NEW bl, NEW q, Runs(n, lg, bl, q),
           MigrateViewChanging(n, lg, bl, q)
    PROVE  Refines(n)
<1>0. TypeInv /\ HoldsBlock(n)
    BY RunFacts
<1>1. /\ state[n] = "ViewChanging" /\ blocks'[n] = bl /\ Leave(n, q)
      /\ UNCHANGED <<blockNum, blockID, committed, received>>
    BY RunEffects DEF MigrateViewChanging, chainVars
<1>2. CASE Stay /\ UNCHANGED view
    BY <1>1, <1>2, RunIdle DEF Stay, Leave
<1>3. CASE HasQuorum(n, lg, "ViewChange") /\ IncreaseView(n) /\ ChangeState(n, "NotStarted")
    <2>1. state'[n] = "NotStarted" /\ PP!Enter(n, "NotStarted")
        BY <1>3, RunEffects, EnterState
    <2>2. view'[n] = view[n] + 1 /\ view' = [view EXCEPT ![n] = @ + 1]
        BY <1>0, <1>3 DEF IncreaseView, TypeInv, ChainType
    <2>3. ~ received'[n]
        BY <1>0, <1>1 DEF HoldsBlock
    <2>4. /\ Consistent(n, blocks[n])'
          /\ voted' = voted
          /\ proposed' = proposed /\ signedBlocks' = signedBlocks
          /\ receivedBlock' = [receivedBlock EXCEPT ![n] = {}]
        BY <1>1, <2>1, <2>2, <2>3, RunEnters
    <2>5. PP!HasQuorum(blockNum[n] + 1, view[n], "ViewChange")
        BY <1>3, RunQuorum DEF Votes
    <2>6. committedBlocks' = committedBlocks
        BY <1>1 DEF committedBlocks
    <2>7. PP!ChangeView(n)
        BY <1>1, <2>1, <2>2, <2>4, <2>5, <2>6, RunFacts DEF PP!ChangeView
    <2> QED BY <2>4, <2>7 DEF Refines, PP!Step
<1> QED BY <1>2, <1>3 DEF MigrateViewChanging

\* Finished (states.go:348-357, block.go:70-97).
LEMMA RunFinished ==
    ASSUME NEW n \in Node, NEW lg, NEW bl, NEW q, Runs(n, lg, bl, q),
           MigrateFinished(n, lg, bl, q)
    PROVE  Refines(n)
<1>0. /\ TypeInv /\ Consistent(n, bl) /\ HoldsBlock(n) /\ SoundStore(bl)
      /\ Grows(blocks[n], bl) /\ received \in [Node -> BOOLEAN]
      /\ blockNum[n] \in Nat /\ view[n] \in Nat
    BY RunFacts
<1>1. state[n] = "Finished" /\ blocks'[n] = bl /\ Leave(n, q) /\ ~ received'[n]
    BY <1>0, RunEffects DEF MigrateFinished
<1>2. ASSUME NEW b \in FindBlock(n, bl), CommitBlock(n, b), ChangeState(n, "NotStarted")
      PROVE  Refines(n)
    <2> DEFINE s == SlotOf(n)
    <2>1. /\ s \in DOMAIN bl /\ b = bl[s]
          /\ b.blk.num = blockNum[n] + 1 /\ b.blk.view = view[n]
        BY <1>0, FoundFits
    <2>2. receivedBlock[n] = {b.blk}
        <3>1. received[n]
            BY <1>0, <1>1 DEF Consistent
        <3>2. s \in DOMAIN blocks[n] /\ blocks[n][s].blk = b.blk
            BY <1>0, <2>1, <3>1 DEF HoldsBlock, Grows
        <3> QED BY <3>1, <3>2, MeaningsHold DEF Meanings
    <2>3. /\ blockNum' = [blockNum EXCEPT ![n] = @ + 1]
          /\ blockID' = [blockID EXCEPT ![n] = Hash(b.blk)]
          /\ view' = [view EXCEPT ![n] = b.blk.view]
          /\ committed' = [committed EXCEPT ![n] = @ \cup {b}]
          /\ b.blk.prev = blockID[n]
        BY <1>2 DEF CommitBlock, Extends
    <2>4. blockNum'[n] = blockNum[n] + 1 /\ view'[n] = view[n]
        BY <1>0, <2>1, <2>3 DEF TypeInv, ChainType
    <2>5. state'[n] = "NotStarted" /\ PP!Enter(n, "NotStarted")
        BY <1>2, RunEffects, EnterState
    <2>6. /\ Consistent(n, blocks[n])'
          /\ voted' = voted
          /\ proposed' = proposed /\ signedBlocks' = signedBlocks
          /\ receivedBlock' = [receivedBlock EXCEPT ![n] = {}]
        BY <1>1, <2>4, <2>5, RunEnters
    <2>7. committedBlocks' = [committedBlocks EXCEPT ![n] = @ \cup {b.blk}]
        <3>1. committed \in [Node -> SUBSET SignedBlock]
            BY <1>0 DEF TypeInv, ChainType
        <3>2. /\ committed'[n] = committed[n] \cup {b}
              /\ \A p \in Node : p # n => committed'[p] = committed[p]
            BY <2>3, <3>1
        <3> HIDE DEF s
        <3>3. {c.blk : c \in committed[n] \cup {b}} = {c.blk : c \in committed[n]} \cup {b.blk}
            OBVIOUS
        <3> QED BY <3>2, <3>3 DEF committedBlocks
    <2>8. Hash(b.blk) = PP!Hash(b.blk)
        BY DEF Hash, PP!Hash
    <2>9. PP!CommitBlock(n)
        <3>1. PP!Active(n) /\ state[n] = "Finished"
            BY <1>1, RunFacts
        <3> HIDE DEF s
        <3> QED BY <2>1, <2>2, <2>3, <2>5, <2>6, <2>7, <2>8, <3>1 DEF PP!CommitBlock
    <2> QED BY <2>6, <2>9 DEF Refines, PP!Step
<1>3. CASE /\ ChangeState(n, "ViewChanging")
           /\ UNCHANGED <<blockNum, blockID, committed, view>>
    <2>1. /\ state'[n] = "ViewChanging"
          /\ state' = [state EXCEPT ![n] = "ViewChanging"] /\ timer' = timer
        <3>1. timer \in [Node -> BOOLEAN]
            BY <1>0 DEF TypeInv, EngineType
        <3> QED BY <1>3, <3>1, RunEffects DEF ChangeState
    <2>2. /\ voted' = voted
          /\ proposed' = proposed /\ signedBlocks' = signedBlocks
          /\ committedBlocks' = committedBlocks
        BY <1>1, <1>3, RunLeaves
    <2>3. Consistent(n, blocks[n])'
        BY <1>0, <1>1, <1>3, <2>1, <2>2, StaysConsistent
    <2>4. receivedBlock' = [receivedBlock EXCEPT ![n] = {}]
        BY <1>1, EmptyHand, RunFacts
    <2>5. PP!CommitFails(n)
        BY <1>1, <1>3, <2>1, <2>2, <2>4, RunFacts DEF PP!CommitFails
    <2> QED BY <2>3, <2>5 DEF Refines, PP!Step
<1> QED BY <1>2, <1>3 DEF MigrateFinished

\* A signature on a block of the store is one more pair.
LEMMA SigningTypes ==
    ASSUME NEW n \in Node, NEW b \in SignedBlock PROVE signBlock(n, b) \in SignedBlock
<1>1. b = [blk |-> b.blk, pairs |-> b.pairs] /\ b.blk \in Block /\ b.pairs \subseteq Pair
    BY DEF SignedBlock
<1>2. Hash(b.blk) \in Nat \X Nat \X (Bodies \cup {0})
    BY <1>1 DEF Hash, Block
<1>3. [by |-> n, of |-> Hash(b.blk)] \in Pair
    BY <1>2 DEF Pair
<1>4. \/ signBlock(n, b) = b
      \/ signBlock(n, b) = [blk |-> b.blk, pairs |-> b.pairs \cup {[by |-> n, of |-> Hash(b.blk)]}]
    BY <1>1 DEF signBlock
<1> QED BY <1>1, <1>3, <1>4 DEF SignedBlock

\* Signing the block of the slot (states.go:190-225).
LEMMA RunSigns ==
    ASSUME NEW n \in Node, NEW lg, NEW bl, NEW q, Runs(n, lg, bl, q),
           state[n] = "PrePreparing", UNCHANGED <<blockNum, blockID, committed, view>>,
           ChangeState(n, "Preparing"), SignsBlock(n, bl, q)
    PROVE  Refines(n)
<1> DEFINE s == SlotOf(n)
           c == signBlock(n, bl[s])
           x == bl[s].blk
           m == [key |-> KeyOf(n, "Prepare"), block |-> {c}]
<1>0. /\ TypeInv /\ BlockInv /\ SignerInv /\ Filing(n, lg, bl, q) /\ OthersAre(n)
      /\ Consistent(n, bl) /\ SoundStore(bl) /\ HoldsBlock(n) /\ Grows(blocks[n], bl)
    BY RunFacts DEF Runs, EngineInv
<1>1. /\ s \in DOMAIN bl /\ received' = received /\ blocks'[n] = [bl EXCEPT ![s] = c]
      /\ InsertMsg(n, q, m) /\ state'[n] = "Preparing"
    BY RunEffects DEF SignsBlock
<1>2. bl[s] \in SignedBlock /\ x.num = blockNum[n] + 1 /\ x.view = view[n]
    BY <1>0, <1>1 DEF SoundStore, SlotOf
<1>3. c \in SignedBlock /\ c.blk = x /\ Signs(n, c)
    BY <1>2, SigningTypes, SigningAdds DEF Signs
<1>4. bl[s] \in BlocksOf(lg, bl, q)
    BY <1>1, InBlocksOf
<1>5. x \in PP!Proposed(n)
    BY <1>2, <1>4, RunProposed
<1>6. m.key = KeyOf(n, "Prepare") /\ SlotOf(n) = s
    OBVIOUS
<1>7. bl[s].blk = x
    OBVIOUS
<1> HIDE DEF m, c, s, x
<1>8. voted' = voted \cup {KeyOf(n, "Prepare")} /\ proposed' = proposed
    BY <1>1, <1>6, Signing DEF Votes
<1>9. KeyOf(n, "Prepare") = PP!Msg(n, "Prepare")
    BY DEF KeyOf, PP!Msg
<1>10. /\ DOMAIN blocks'[n] = DOMAIN bl /\ blocks'[n][s] = c
       /\ \A t \in DOMAIN bl : t # s => blocks'[n][t] = bl[t]
    BY <1>0, <1>1 DEF SoundStore
<1>12. Consistent(n, blocks[n])'
    BY <1>0, <1>1, <1>6, <1>8, <1>10, StaysConsistent
<1>13. signedBlocks' = signedBlocks \cup {[block |-> x, by |-> n]}
    <2>1. \A t \in DOMAIN bl : Signs(n, bl[t]) =>
              t \in DOMAIN blocks[n] /\ Signs(n, blocks[n][t]) /\ blocks[n][t].blk = bl[t].blk
        BY <1>0, FilingSignature
    <2>2. \A t \in DOMAIN blocks[n] : Signs(n, blocks[n][t]) =>
              t \in DOMAIN bl /\ Signs(n, bl[t]) /\ blocks[n][t].blk = bl[t].blk
        BY <1>0 DEF Grows, Signs
    <2>3. ASSUME NEW y, IsSignature(n, blocks'[n], y)
          PROVE  IsSignature(n, blocks[n], y) \/ y \in {[block |-> x, by |-> n]}
        <3>1. PICK t \in DOMAIN bl : Signs(n, blocks'[n][t]) /\ y = [block |-> blocks'[n][t].blk, by |-> n]
            BY <1>10, <2>3 DEF IsSignature
        <3>2. CASE t = s
            BY <1>3, <1>10, <3>1, <3>2
        <3>3. CASE t # s
            <4>1. Signs(n, bl[t]) /\ y = [block |-> bl[t].blk, by |-> n]
                BY <1>10, <3>1, <3>3
            <4> QED BY <2>1, <4>1 DEF IsSignature
        <3> QED BY <3>2, <3>3
    <2>4. ASSUME NEW y, IsSignature(n, blocks[n], y) \/ y \in {[block |-> x, by |-> n]}
          PROVE  IsSignature(n, blocks'[n], y)
        <3>1. CASE y = [block |-> x, by |-> n]
            BY <1>1, <1>3, <1>10, <3>1 DEF IsSignature
        <3>2. ASSUME NEW t \in DOMAIN blocks[n], Signs(n, blocks[n][t]),
                     y = [block |-> blocks[n][t].blk, by |-> n]
              PROVE  IsSignature(n, blocks'[n], y)
            <4>1. t \in DOMAIN bl /\ Signs(n, bl[t]) /\ y = [block |-> bl[t].blk, by |-> n]
                BY <2>2, <3>2
            <4>2. Signs(n, blocks'[n][t]) /\ blocks'[n][t].blk = bl[t].blk
                BY <1>3, <1>7, <1>10, <4>1
            <4> QED BY <1>10, <4>1, <4>2 DEF IsSignature
        <3> QED BY <2>4, <3>1, <3>2 DEF IsSignature
    <2>5. \A y : IsSignature(n, blocks'[n], y)
                    <=> IsSignature(n, blocks[n], y) \/ y \in {[block |-> x, by |-> n]}
        BY <2>3, <2>4
    <2> QED BY <1>0, <2>5, SignaturesAfter
<1>16. receivedBlock' = receivedBlock
    <2>1. ~ received[n] /\ ~ received'[n]
        BY <1>0, <1>1 DEF HoldsBlock
    <2> QED BY <1>0, <2>1, EmptyHand
<1>17. committedBlocks' = committedBlocks
    BY DEF committedBlocks
<1>18. PP!Enter(n, "Preparing")
    BY EnterState
<1>19. PP!AcceptPrePrepare(n)
    BY <1>5, <1>8, <1>9, <1>13, <1>16, <1>17, <1>18, RunFacts DEF PP!AcceptPrePrepare
<1> QED BY <1>12, <1>19 DEF Refines, PP!Step

\* PrePreparing (states.go:147-231).
LEMMA RunPrePreparing ==
    ASSUME NEW n \in Node, NEW lg, NEW bl, NEW q, Runs(n, lg, bl, q),
           MigratePrePreparing(n, lg, bl, q)
    PROVE  Refines(n)
<1>0. /\ TypeInv /\ Consistent(n, bl) /\ SoundStore(bl) /\ SoundLog(lg)
      /\ lg \in SUBSET SoundEntry
    BY RunFacts
<1>1. /\ state[n] = "PrePreparing" /\ UNCHANGED <<blockNum, blockID, committed, view>>
      /\ \/ AwaitsPrimary(n, bl, q)
         \/ HasPrePrepare(n, lg) /\ FindsNoBlock(n, bl, q)
         \/ HasPrePrepare(n, lg) /\ FindsSignedBlock(n, bl, q)
         \/ HasPrePrepare(n, lg) /\ SignsBlock(n, bl, q)
    BY <1>0, PrePreparingCases DEF chainVars
<1>2. CASE AwaitsPrimary(n, bl, q)
    <2>1. /\ blocks'[n] = bl /\ UNCHANGED signed /\ UNCHANGED <<state, timer, received>>
        BY <1>2, RunEffects DEF AwaitsPrimary, Stay, Leave
    <2> QED BY <1>1, <2>1, RunIdle
<1>3. CASE HasPrePrepare(n, lg) /\ FindsNoBlock(n, bl, q)
    <2>1. /\ InsertMsg(n, q, [key |-> KeyOf(n, "Prepare"), block |-> {}])
          /\ state'[n] = "Preparing" /\ PP!Enter(n, "Preparing")
          /\ blocks'[n] = bl /\ received' = received
        BY <1>1, <1>3, RunEffects, EnterState DEF HasPrePrepare, FindsNoBlock
    <2>2. /\ voted' = voted \cup {PP!Msg(n, "Prepare")}
          /\ KeyOf(n, "Prepare") = PP!Msg(n, "Prepare")
          /\ proposed' = proposed /\ signedBlocks' = signedBlocks
          /\ committedBlocks' = committedBlocks
        BY <1>1, <2>1, RunInserts DEF Votes
    <2>3. Consistent(n, blocks[n])'
        BY <1>0, <1>1, <2>1, <2>2, StaysConsistent
    <2>4. receivedBlock' = receivedBlock
        BY <1>1, <2>1, RunHand
    <2>5. \E b : b \in PP!Proposed(n)
        <3>1. PICK e \in lg : /\ e.key.type = "PrePrepare" /\ e.key.num = blockNum[n] + 1
                              /\ e.key.view = view[n]
            BY <1>3 DEF HasPrePrepare, FindStateMsgBySinger, FindStateMsg
        <3>2. PICK b \in e.block : TRUE
            BY <1>0, <3>1 DEF SoundLog, Known, Offers
        <3>3. b \in BlocksOf(lg, bl, q) /\ b.blk.num = blockNum[n] + 1 /\ b.blk.view = view[n]
            BY <1>0, <3>1, InBlocksOf DEF SoundEntry, Fits
        <3> QED BY <3>3, RunProposed
    <2>6. PP!AcceptPrePrepare(n)
        BY <1>1, <2>1, <2>2, <2>4, <2>5, RunFacts DEF PP!AcceptPrePrepare
    <2> QED BY <2>3, <2>6 DEF Refines, PP!Step
\* It has signed nothing before its Prepare.
<1>4. ~ FindsSignedBlock(n, bl, q)
    <2>1. PrepareOf(n, SlotOf(n)) = KeyOf(n, "Prepare")
        BY DEF PrepareOf, SlotOf, KeyOf
    <2> QED BY <1>0, <1>1, <2>1 DEF FindsSignedBlock, Consistent, Signs
<1>5. CASE HasPrePrepare(n, lg) /\ SignsBlock(n, bl, q)
    <2>1. ChangeState(n, "Preparing")
        BY <1>5 DEF HasPrePrepare
    <2> QED BY <1>1, <1>5, <2>1, RunSigns
<1> QED BY <1>1, <1>2, <1>3, <1>4, <1>5

LEMMA RunsRefine ==
    ASSUME NEW n \in Node, NEW lg, NEW bl, NEW q, Runs(n, lg, bl, q) PROVE Refines(n)
BY RunNotStarted, RunPrePreparing, RunPreparing, RunChecking, RunCommitting,
   RunFinished, RunViewChanging DEF Runs, StateMigrate

(***************************************************************************)
(* The other steps.  None but Timeout is seen by the protocol.             *)
(***************************************************************************)

\* What a step that leaves slots, stores, hands and the history alone shows.
LEMMA UnseenStep ==
    ASSUME EngineInv, NEW n \in Node,
           UNCHANGED <<chainVars, view, state, received, timer, blocks>>,
           UNCHANGED <<proposed, voted>>
    PROVE  Refines(n)
<1>1. UNCHANGED <<blockNum, blockID, committed>>
    BY DEF chainVars
<1>2. Consistent(n, blocks[n])
    BY DEF EngineInv, ReplicaInv
<1>3. Consistent(n, blocks[n])'
    BY <1>1, <1>2 DEF Consistent, KeyOf, PrepareOf, Signs
<1>4. signedBlocks' = signedBlocks /\ receivedBlock' = receivedBlock
      /\ committedBlocks' = committedBlocks
    BY <1>1 DEF signedBlocks, receivedBlock, FindBlock, SlotOf, committedBlocks
<1> QED BY <1>1, <1>3, <1>4 DEF Refines, PP!vars

LEMMA TimeoutRefines ==
    ASSUME EngineInv, NEW n \in Node, OthersAre(n), Timeout(n)
    PROVE  Refines(n)
<1> DEFINE m == [key |-> KeyOf(n, "ViewChange"), block |-> {}]
<1>0. /\ TypeInv /\ CalmInv /\ Consistent(n, blocks[n])
      /\ received \in [Node -> BOOLEAN] /\ state \in [Node -> States]
    BY DEF EngineInv, CalmBlockInv, ReplicaInv, TypeInv, EngineType
<1>1. /\ UNCHANGED <<chainVars, blockNum, blockID, committed, view, blocks>>
      /\ timer[n] /\ view[n] < MaxView /\ timer' = [timer EXCEPT ![n] = FALSE]
      /\ PP!Active(n)
    BY <1>0 DEF Timeout, chainVars, mm, Active, PP!Active
<1>2. signedBlocks' = signedBlocks /\ committedBlocks' = committedBlocks
    BY <1>1 DEF signedBlocks, committedBlocks
\* The engine has not been started: the firing is lost.
<1>3. CASE stopped[n]
    <2>1. UNCHANGED <<state, received, proposed, voted>> /\ state[n] = "NotStarted"
        BY <1>0, <1>3 DEF Timeout, CalmInv, signed
    <2>2. Consistent(n, blocks[n])'
        BY <1>0, <1>1, <2>1 DEF Consistent, KeyOf, PrepareOf, Signs
    <2>3. receivedBlock' = receivedBlock
        BY <1>1, <2>1 DEF receivedBlock, FindBlock, SlotOf
    <2>4. PP!LoseTimer(n)
        BY <1>1, <1>2, <2>1, <2>3 DEF PP!LoseTimer
    <2> QED BY <2>2, <2>4 DEF Refines, PP!Step
<1>4. CASE ~ stopped[n]
    <2>1. /\ state' = [state EXCEPT ![n] = "ViewChanging"]
          /\ received' = [received EXCEPT ![n] = FALSE]
          /\ InsertMsg(n, queue[n], m)
        BY <1>4 DEF Timeout
    <2>2. m.key = KeyOf(n, "ViewChange")
        OBVIOUS
    <2> HIDE DEF m
    <2>3. voted' = voted \cup {KeyOf(n, "ViewChange")} /\ proposed' = proposed
        BY <2>1, <2>2, Signing DEF Votes
    <2>4. KeyOf(n, "ViewChange") = PP!Msg(n, "ViewChange")
        BY DEF KeyOf, PP!Msg
    <2>5. state'[n] = "ViewChanging" /\ ~ received'[n]
        BY <1>0, <2>1
    <2>6. Consistent(n, blocks[n])'
        BY <1>0, <1>1, <2>3, <2>5, StaysConsistent
    <2>7. receivedBlock' = [receivedBlock EXCEPT ![n] = {}]
        BY <2>5, EmptyHand
    <2>8. PP!Timeout(n)
        BY <1>1, <1>2, <2>1, <2>3, <2>4, <2>7 DEF PP!Timeout
    <2> QED BY <2>6, <2>8 DEF Refines, PP!Step
<1> QED BY <1>3, <1>4

LEMMA ProposalRefines ==
    ASSUME EngineInv, NEW n \in Node, TryProposal(n) PROVE Refines(n)
<1> DEFINE m == [key |-> KeyOf(n, "NewBlockProposal"), block |-> {}]
<1>1. /\ UNCHANGED <<chainVars, view, state, received, timer, blocks>>
      /\ InsertMsg(n, queue[n], m)
    BY DEF TryProposal, sm, mm
<1>2. m.key = KeyOf(n, "NewBlockProposal")
    OBVIOUS
<1> HIDE DEF m
<1>3. UNCHANGED <<proposed, voted>>
    BY <1>1, <1>2, Signing DEF Votes
<1> QED BY <1>1, <1>3, UnseenStep

LEMMA StepRefines ==
    ASSUME MaxFaults = 0, EngineInv, NEW n \in Node, Step(n)
    PROVE  OthersAre(n) /\ FoundOrPacked(n) /\ Refines(n)
<1>0. TypeInv /\ CalmInv /\ BlockInv
    BY DEF EngineInv, CalmBlockInv
<1>1. OthersAre(n) /\ FoundOrPacked(n)
    BY <1>0, OthersAlone, StepHeld DEF OthersAre
<1>2. CASE Migrate(n)
    <2>1. PICK lg, bl, q : Filing(n, lg, bl, q) /\ Active(n) /\ StateMigrate(n, lg, bl, q)
        BY <1>2 DEF Migrate
    <2>2. Runs(n, lg, bl, q)
        BY <1>1, <2>1 DEF Runs
    <2> QED BY <1>1, <2>2, RunsRefine
<1>3. CASE Refuse(n) \/ Broadcast(n) \/ Rebroadcast(n) \/ Start(n)
    <2>1. /\ UNCHANGED <<chainVars, view, state, received, timer, blocks>>
          /\ UNCHANGED <<proposed, voted>>
        BY <1>3 DEF Refuse, Broadcast, Rebroadcast, Start, sm, mm, signed
    <2> QED BY <1>1, <2>1, UnseenStep
<1> QED BY <1>0, <1>1, <1>2, <1>3, StepCases, TimeoutRefines, ProposalRefines

(***************************************************************************)
(* The messages made, filed and sent by a step.                            *)
(***************************************************************************)

\* What StepRefines and CalmBlockStep say of a step.
Stepped(n) ==
    /\ MaxFaults = 0 /\ EngineInv /\ Step(n)
    /\ OthersAre(n) /\ FoundOrPacked(n) /\ Refines(n)
    /\ CalmBlockInv'

LEMMA SteppedNext == ASSUME NEW n \in Node, Stepped(n) PROVE [PP!Next]_(PP!vars)
BY SameBase DEF Stepped, Refines, PP!Next

LEMMA NothingUnsigned ==
    ASSUME NEW n \in Node, Stepped(n)
    PROVE  /\ signedBlocks \subseteq signedBlocks'
           /\ proposed \subseteq proposed' /\ voted \subseteq voted'
BY SteppedNext, PP!NothingIsUnsigned, NAssumption, BoundAssumption

\* So what is known stays known.
LEMMA KnownStays ==
    ASSUME NEW n \in Node, Stepped(n)
    PROVE  /\ \A k : Cast(k) => Cast(k)'
           /\ \A m : Known(m) => Cast(m.key)' /\ Offers(m)
BY NothingUnsigned DEF Known, Cast

\* An entry that has been broadcast is the entry it was.
LEMMA SentLog ==
    ASSUME NEW lg, NEW e \in lg, NEW f, f.key = e.key, f.block = e.block, SoundLog(lg)
    PROVE  SoundLog((lg \ {e}) \cup {f})
<1> DEFINE new == (lg \ {e}) \cup {f}
<1>1. \A g \in new : \E h \in lg : g.key = h.key /\ g.block = h.block
    OBVIOUS
<1>2. \A g \in new : Known(g)
    BY <1>1 DEF SoundLog, Known, Cast, Offers
<1>3. Unique(new)
    BY DEF SoundLog, Unique
<1> QED BY <1>2, <1>3 DEF SoundLog

\* What a step makes of the log of the replica that takes it.
LEMMA LogCases ==
    ASSUME MaxFaults = 0, EngineInv, NEW n \in Node, Step(n)
    PROVE  \/ log'[n] = log[n]
           \/ \E lg, bl, q : Filing(n, lg, bl, q) /\ log'[n] = lg
           \/ \E e \in log[n] : \E f \in SoundEntry :
                 log'[n] = (log[n] \ {e}) \cup {f} /\ f.key = e.key /\ f.block = e.block
<1>0. TypeInv /\ CalmInv /\ log \in [Node -> SUBSET SoundEntry]
    BY DEF EngineInv, CalmBlockInv, TypeInv, MsgType
<1>1. CASE Migrate(n)
    <2>1. PICK lg, bl, q : Filing(n, lg, bl, q) /\ log' = [log EXCEPT ![n] = lg]
        BY <1>1 DEF Migrate, StateMigrate
    <2> QED BY <1>0, <2>1
<1>2. CASE Broadcast(n)
    <2>1. CASE log' = log
        BY <2>1
    <2>2. ASSUME NEW e \in log[n],
                 log' = [log EXCEPT ![n] = (@ \ {e}) \cup {[e EXCEPT !.sent = TRUE]}]
          PROVE  \E f \in SoundEntry :
                    log'[n] = (log[n] \ {e}) \cup {f} /\ f.key = e.key /\ f.block = e.block
        <3> DEFINE f == [e EXCEPT !.sent = TRUE]
        <3>1. f = [e EXCEPT !.sent = TRUE] /\ e \in SoundEntry /\ log'[n] = (log[n] \ {e}) \cup {f}
            BY <1>0, <2>2
        <3> HIDE DEF f
        <3>2. f \in SoundEntry /\ f.key = e.key /\ f.block = e.block
            BY <3>1, SentEntry
        <3> QED BY <3>1, <3>2
    <2> QED BY <1>2, <2>1, <2>2 DEF Broadcast
<1>3. Refuse(n) \/ Timeout(n) \/ TryProposal(n) \/ Rebroadcast(n) \/ Start(n) => log' = log
    BY DEF Refuse, Timeout, TryProposal, Rebroadcast, Start, mm
<1> QED BY <1>0, <1>1, <1>2, <1>3, StepCases

LEMMA LogStep == ASSUME NEW n \in Node, Stepped(n) PROVE LogInv'
<1>0. /\ TypeInv /\ LogInv /\ OwnInv /\ NetInv /\ EngineInv /\ MaxFaults = 0 /\ Step(n)
      /\ OthersAre(n)
    BY DEF Stepped, EngineInv, CalmBlockInv
<1>1. SoundLog(log'[n])
    <2>1. SoundLog(log[n])
        BY <1>0 DEF LogInv
    <2>2. ASSUME NEW lg, NEW bl, NEW q, Filing(n, lg, bl, q), log'[n] = lg
          PROVE  SoundLog(log'[n])
        BY <1>0, <2>2, FilingKeys
    <2>3. ASSUME NEW e \in log[n], NEW f, log'[n] = (log[n] \ {e}) \cup {f},
                 f.key = e.key, f.block = e.block
          PROVE  SoundLog(log'[n])
        BY <2>1, <2>3, SentLog
    <2> QED BY <1>0, <2>1, <2>2, <2>3, LogCases
<1>2. ASSUME NEW p \in Node PROVE SoundLog(log'[p])
    BY <1>0, <1>1 DEF OthersAre, Alone, LogInv
<1>3. ASSUME NEW p \in Node PROVE SoundLog(log[p])'
    <2>1. \A e \in log'[p] : Cast(e.key)' /\ Offers(e)
        BY <1>2, KnownStays DEF SoundLog
    <2>2. \A e \in log'[p] : (Known(e))'
        BY <2>1 DEF Known, Offers
    <2> QED BY <1>2, <2>2 DEF SoundLog, Unique
<1> QED BY <1>3 DEF LogInv

\* What a step sends: no vote, an entry of the log, or the last ViewChange again.
LEMMA NetCases ==
    ASSUME MaxFaults = 0, EngineInv, NEW n \in Node, Step(n), NEW c \in net', c \notin net
    PROVE  \/ c.msg.key.type \notin Votes /\ Offers(c.msg)
           \/ \E e \in log[n] : c.msg.key = e.key /\ c.msg.block \in Payloads(n, e)
           \/ c.msg.key \in current[n]
<1>0. TypeInv /\ CalmInv
    BY DEF EngineInv, CalmBlockInv
<1>1. CASE Migrate(n)
    <2>1. PICK lg, bl, q : StateMigrate(n, lg, bl, q)
        BY <1>1 DEF Migrate
    <2>2. MigrateNotStarted(n, lg, bl, q)
        BY <2>1 DEF StateMigrate, MigratePrePreparing, MigratePreparing, MigrateChecking,
           MigrateCommitting, MigrateFinished, MigrateViewChanging
    <2>3. PICK m, b : /\ m = [key |-> KeyOf(n, "PrePrepare"), block |-> {b}]
                      /\ net' = net \cup Copies(n, m)
        BY <2>2 DEF MigrateNotStarted
    <2>4. c.msg = m
        BY <2>3 DEF Copies
    <2>5. m.key.type = "PrePrepare" /\ m.block # {}
        BY <2>3 DEF KeyOf
    <2> QED BY <2>4, <2>5 DEF Votes, Offers
<1>2. CASE TryProposal(n)
    <2>1. PICK m : m.key = KeyOf(n, "NewBlockProposal") /\ net' = net \cup Copies(n, m)
        BY <1>2 DEF TryProposal
    <2>2. c.msg = m
        BY <2>1 DEF Copies
    <2>3. m.key.type = "NewBlockProposal"
        BY <2>1 DEF KeyOf
    <2> QED BY <2>2, <2>3 DEF Votes, Offers
<1>3. CASE Broadcast(n)
    <2>1. PICK e \in log[n] : \E b \in Payloads(n, e) :
             net' = net \cup Copies(n, [key |-> e.key, block |-> b])
        BY <1>3 DEF Broadcast
    <2>3. PICK b \in Payloads(n, e) : net' = net \cup Copies(n, [key |-> e.key, block |-> b])
        BY <2>1
    <2>2. c.msg = [key |-> e.key, block |-> b]
        BY <2>3 DEF Copies
    <2> QED BY <2>2
<1>4. CASE Rebroadcast(n)
    <2>1. PICK k \in current[n] : net' = net \cup Copies(n, [key |-> k, block |-> {}])
        BY <1>4 DEF Rebroadcast
    <2>2. c.msg = [key |-> k, block |-> {}]
        BY <2>1 DEF Copies
    <2> QED BY <2>1, <2>2
<1>5. ~ Refuse(n) /\ ~ Timeout(n) /\ ~ Start(n)
    BY DEF Refuse, Timeout, Start
<1> QED BY <1>0, <1>1, <1>2, <1>3, <1>4, <1>5, StepCases

LEMMA NetStep == ASSUME NEW n \in Node, Stepped(n) PROVE NetInv'
<1>0. /\ TypeInv /\ CalmInv /\ LogInv /\ NetInv /\ EngineInv /\ MaxFaults = 0 /\ Step(n)
      /\ OthersAre(n) /\ current \in [Node -> SUBSET SoundKey]
    BY DEF Stepped, EngineInv, CalmBlockInv, TypeInv, MsgType
<1>1. \A e \in log[n] : Known(e) /\ Cast(e.key)' /\ Offers(e)
    BY <1>0, KnownStays DEF LogInv, SoundLog
<1>2. \A p \in Node : \A k \in current[p] : Cast(k)' /\ k.type = "ViewChange"
    BY <1>0, KnownStays DEF NetInv
<1>3. ASSUME NEW c \in net' PROVE Cast(c.msg.key)' /\ Offers(c.msg)
    <2>1. CASE c \in net
        BY <1>0, <2>1, KnownStays DEF NetInv
    <2>2. CASE c.msg.key.type \notin Votes /\ Offers(c.msg)
        BY <2>2 DEF Cast
    <2>3. ASSUME NEW e \in log[n], c.msg.key = e.key, c.msg.block \in Payloads(n, e)
          PROVE  Cast(c.msg.key)' /\ Offers(c.msg)
        <3>1. c.msg.block = e.block \/ c.msg.block # {}
            BY <2>3 DEF Payloads
        <3> QED BY <1>1, <2>3, <3>1 DEF Offers
    <2>4. CASE c.msg.key \in current[n]
        BY <1>2, <2>4 DEF Offers
    <2> QED BY <1>0, <2>1, <2>2, <2>3, <2>4, NetCases
<1>4. ASSUME NEW p \in Node, NEW k \in current'[p]
      PROVE  k \in current[p] \/ (k.type = "ViewChange" /\ \E e \in log[n] : k = e.key)
    <2>1. CASE p # n
        BY <1>0, <2>1 DEF OthersAre, Alone
    <2>2. CASE p = n /\ Broadcast(n)
        <3>1. CASE current' = current
            BY <3>1
        <3>2. ASSUME NEW e \in log[n],
                     current' = [current EXCEPT ![n] =
                                   IF e.key.type = "ViewChange" THEN {e.key} ELSE {}]
              PROVE  k \in current[p] \/ (k.type = "ViewChange" /\ \E g \in log[n] : k = g.key)
            BY <1>0, <2>2, <3>2
        <3> QED BY <2>2, <3>1, <3>2 DEF Broadcast
    <2>3. CASE \/ Migrate(n) \/ Refuse(n) \/ Timeout(n)
               \/ TryProposal(n) \/ Rebroadcast(n) \/ Start(n)
        <3>1. current' = current
            BY <2>3 DEF Migrate, StateMigrate, Refuse, Timeout, TryProposal, Rebroadcast, Start
        <3> QED BY <3>1
    <2> QED BY <1>0, <2>1, <2>2, <2>3, StepCases
<1>5. \A p \in Node : \A k \in current'[p] : Cast(k)' /\ k.type = "ViewChange"
    BY <1>1, <1>2, <1>4
<1> QED BY <1>3, <1>5 DEF NetInv, Known, Offers

\* What StateMigrate does to the queue: a message goes in, or none.
LEMMA MigrateQueue ==
    ASSUME NEW n, NEW lg, NEW bl, NEW q, StateMigrate(n, lg, bl, q)
    PROVE  Leave(n, q) \/ \E m : InsertMsg(n, q, m) /\ Offers(m)
<1>1. ASSUME NEW type, NEW b, type # "PrePrepare",
             InsertMsg(n, q, [key |-> KeyOf(n, type), block |-> b])
      PROVE  \E m : InsertMsg(n, q, m) /\ Offers(m)
    <2> DEFINE m == [key |-> KeyOf(n, type), block |-> b]
    <2>1. InsertMsg(n, q, m) /\ m.key.type = type
        BY <1>1 DEF KeyOf
    <2> HIDE DEF m
    <2> QED BY <1>1, <2>1 DEF Offers
<1>2. CASE MigrateNotStarted(n, lg, bl, q)
    <2>1. ASSUME NEW body,
                 InsertMsg(n, q, [key |-> KeyOf(n, "PrePrepare"),
                                  block |-> {[blk |-> packageBlock(n, body), pairs |-> {}]}])
          PROVE  \E m : InsertMsg(n, q, m) /\ Offers(m)
        <3> DEFINE m == [key |-> KeyOf(n, "PrePrepare"),
                         block |-> {[blk |-> packageBlock(n, body), pairs |-> {}]}]
        <3>1. InsertMsg(n, q, m) /\ m.block # {}
            BY <2>1
        <3> HIDE DEF m
        <3> QED BY <3>1 DEF Offers
    <2> QED BY <1>2, <2>1 DEF MigrateNotStarted
<1>3. CASE MigratePrePreparing(n, lg, bl, q)
    BY <1>1, <1>3 DEF MigratePrePreparing
<1>4. CASE MigratePreparing(n, lg, bl, q)
    BY <1>1, <1>4 DEF MigratePreparing
<1>5. CASE MigrateChecking(n, lg, bl, q)
    BY <1>1, <1>5 DEF MigrateChecking
<1> QED
    BY <1>2, <1>3, <1>4, <1>5
       DEF StateMigrate, MigrateCommitting, MigrateFinished, MigrateViewChanging

LEMMA InsertedKnown ==
    ASSUME TypeInv, NEW n \in Node, NEW q \in Seq(SoundMsg), NEW m,
           \A r \in ToSet(q) : Cast(r.key)' /\ Offers(r), Offers(m), InsertMsg(n, q, m)
    PROVE  \A r \in ToSet(queue'[n]) : Cast(r.key)' /\ Offers(r)
<1>1. queue'[n] = q \/ queue'[n] = Append(q, m)
    BY DEF TypeInv, MsgType, OwnType, InsertMsg
<1>2. ToSet(Append(q, m)) = ToSet(q) \cup {m}
    <2> DEFINE S == SoundMsg \cup {m}
    <2>1. q \in Seq(S) /\ m \in S
        <3>1. Len(q) \in Nat /\ q = [i \in 1 .. Len(q) |-> q[i]]
              /\ \A i \in 1 .. Len(q) : q[i] \in SoundMsg
            BY LenProperties, ElementOfSeq
        <3> QED BY <3>1, IsASeq
    <2> HIDE DEF S
    <2> QED BY <2>1, Appended
<1>3. Cast(m.key)'
    <2>1. m.key.type \in Votes => m.key \in voted'
        BY DEF InsertMsg, Sign, Votes
    <2> QED BY <2>1 DEF Cast
<1> QED BY <1>1, <1>2, <1>3

LEMMA OwnStep == ASSUME NEW n \in Node, Stepped(n) PROVE OwnInv'
<1>0. /\ TypeInv /\ CalmInv /\ BlockInv /\ LogInv /\ OwnInv /\ NetInv
      /\ MaxFaults = 0 /\ Step(n) /\ OthersAre(n)
      /\ queue[n] \in Seq(SoundMsg) /\ queue \in [Node -> Seq(SoundMsg)]
    BY DEF Stepped, EngineInv, CalmBlockInv, TypeInv, MsgType, OwnType
<1>1. ASSUME NEW q \in Seq(SoundMsg), \A m \in ToSet(q) : Known(m),
             Leave(n, q) \/ \E m : InsertMsg(n, q, m) /\ Offers(m)
      PROVE  \A r \in ToSet(queue'[n]) : Cast(r.key)' /\ Offers(r)
    <2>1. \A r \in ToSet(q) : Cast(r.key)' /\ Offers(r)
        BY <1>1, KnownStays
    <2>2. CASE Leave(n, q)
        BY <1>0, <2>1, <2>2 DEF Leave
    <2> QED BY <1>0, <1>1, <2>1, <2>2, InsertedKnown
<1>2. \A m \in ToSet(queue[n]) : Known(m)
    BY <1>0 DEF OwnInv
<1>3. \A r \in ToSet(queue'[n]) : Cast(r.key)' /\ Offers(r)
    <2>1. CASE Migrate(n)
        <3>1. PICK lg, bl, q : Filing(n, lg, bl, q) /\ StateMigrate(n, lg, bl, q)
            BY <2>1 DEF Migrate
        <3>2. q \in Seq(SoundMsg) /\ \A m \in ToSet(q) : Known(m)
            BY <1>0, <3>1, FilingFacts, FilingKeys
        <3> QED BY <1>1, <3>1, <3>2, MigrateQueue
    <2>2. CASE UNCHANGED queue
        BY <1>2, <2>2, KnownStays
    <2>3. CASE queue[n] # <<>> /\ queue' = [queue EXCEPT ![n] = Tail(@)]
        <3>1. queue'[n] = Tail(queue[n])
            BY <1>0, <2>3
        <3>2. ToSet(Tail(queue[n])) \subseteq ToSet(queue[n])
            BY <1>0, <2>3, HeadAndTail
        <3> QED BY <1>2, <3>1, <3>2, KnownStays
    <2>4. ASSUME NEW type, type # "PrePrepare",
                 InsertMsg(n, queue[n], [key |-> KeyOf(n, type), block |-> {}])
          PROVE  \A r \in ToSet(queue'[n]) : Cast(r.key)' /\ Offers(r)
        <3> DEFINE m == [key |-> KeyOf(n, type), block |-> {}]
        <3>1. InsertMsg(n, queue[n], m) /\ m.key.type = type
            BY <2>4 DEF KeyOf
        <3> HIDE DEF m
        <3> QED BY <1>0, <1>1, <1>2, <2>4, <3>1 DEF Offers
    <2>5. CASE Timeout(n) \/ TryProposal(n)
        BY <2>2, <2>4, <2>5 DEF Timeout, TryProposal
    <2>6. CASE Refuse(n) \/ Broadcast(n) \/ Rebroadcast(n) \/ Start(n)
        BY <2>2, <2>3, <2>6 DEF Refuse, Broadcast, Rebroadcast, Start, mm
    <2> QED BY <1>0, <2>1, <2>5, <2>6, StepCases
<1>4. ASSUME NEW p \in Node PROVE \A r \in ToSet(queue'[p]) : Cast(r.key)' /\ Offers(r)
    <2>1. CASE p = n
        BY <1>3, <2>1
    <2>2. CASE p # n
        <3>1. queue'[p] = queue[p]
            BY <1>0, <2>2 DEF OthersAre, Alone
        <3> QED BY <1>0, <3>1, KnownStays DEF OwnInv
    <2> QED BY <2>1, <2>2
<1> QED BY <1>4 DEF OwnInv, Known, Offers, ToSet

(***************************************************************************)
(* Every step keeps the invariant of the engine.                           *)
(***************************************************************************)

LEMMA ProposedStep == ASSUME NEW n \in Node, Stepped(n) PROVE ProposedInv'
<1> SUFFICES ASSUME NEW x \in Held' PROVE x.blk \in proposed'
    BY DEF ProposedInv
<1>1. CASE Heir(n, x)
    <2>1. PICK y \in Held : y.blk = x.blk
        BY <1>1 DEF Heir
    <2> QED BY <2>1, NothingUnsigned DEF Stepped, EngineInv, ProposedInv
<1>2. ASSUME NEW body, packageBlock(n, body) \in proposed',
             x = [blk |-> packageBlock(n, body), pairs |-> {}]
      PROVE  x.blk \in proposed'
    BY <1>2
<1> QED BY <1>1, <1>2 DEF Stepped, FoundOrPacked

LEMMA SignerStep == ASSUME NEW n \in Node, Stepped(n) PROVE SignerInv'
<1>0. /\ TypeInv /\ SignerInv
      /\ \A q \in Node : \A s \in DOMAIN blocks'[q] :
            s \in Nat \X (0 .. MaxView)
            /\ blocks'[q][s].blk.num = s[1] /\ blocks'[q][s].blk.view = s[2]
    BY DEF Stepped, EngineInv, CalmBlockInv, TypeInv, StoreType, SoundStore
<1>1. \A q \in Node : \A s \in DOMAIN blocks'[q] :
          s = <<blocks'[q][s].blk.num, blocks'[q][s].blk.view>>
    BY <1>0
\* A signature in a slot's store stays.
<1>2. ASSUME NEW y \in Held, NEW p \in y.pairs
      PROVE  SignedBy(p.by, y.blk)'
    <2> DEFINE s == <<y.blk.num, y.blk.view>>
               z == [block |-> blocks[p.by][s].blk, by |-> p.by]
    <2>1. p.by \in Node
        BY <1>0, HeldTypes DEF SignedBlock, Pair
    <2>2. s \in DOMAIN blocks[p.by] /\ Signs(p.by, blocks[p.by][s])
        BY <1>0 DEF SignerInv, SignedBy
    <2>3. z \in signedBlocks
        BY <2>1, <2>2, MeaningsHold DEF Meanings, IsSignature
    <2>4. blocks[p.by][s].blk.num = s[1] /\ blocks[p.by][s].blk.view = s[2]
        BY <1>0, <2>1, <2>2 DEF TypeInv, StoreType, SoundStore
    <2>5. z \in signedBlocks' /\ z.by = p.by /\ <<z.block.num, z.block.view>> = s
        BY <2>3, <2>4, NothingUnsigned
    <2> HIDE DEF s, z
    <2>6. PICK q \in Node : IsSignature(q, blocks'[q], z)
        BY <2>5, MeaningsAfter DEF Meanings
    <2>7. PICK t \in DOMAIN blocks'[q] : Signs(q, blocks'[q][t])
                                         /\ z = [block |-> blocks'[q][t].blk, by |-> q]
        BY <2>6 DEF IsSignature
    <2>8. q = p.by /\ t = s
        BY <1>1, <2>5, <2>7
    <2> QED BY <2>7, <2>8 DEF SignedBy, Signs, s
<1>3. ASSUME NEW x \in Held', NEW p \in x.pairs, Heir(n, x) PROVE SignedBy(p.by, x.blk)'
    <2>1. CASE \E y \in Held : y.blk = x.blk /\ p \in y.pairs
        BY <1>2, <2>1
    <2>2. CASE /\ p = [by |-> n, of |-> Hash(x.blk)]
               /\ SlotOf(n) \in DOMAIN blocks'[n]
               /\ blocks'[n][SlotOf(n)].blk = x.blk /\ p \in blocks'[n][SlotOf(n)].pairs
        <3>1. p.by = n /\ SlotOf(n) = <<x.blk.num, x.blk.view>>
            BY <1>1, <2>2
        <3> QED BY <2>2, <3>1 DEF SignedBy, Signs
    <2> QED BY <1>3, <2>1, <2>2 DEF Heir
<1>4. ASSUME NEW x \in Held', NEW p \in x.pairs PROVE SignedBy(p.by, x.blk)'
    <2>1. CASE Heir(n, x)
        BY <1>3, <1>4, <2>1
    <2>2. CASE \E body : x = [blk |-> packageBlock(n, body), pairs |-> {}]
        BY <1>4, <2>2
    <2> QED BY <2>1, <2>2 DEF Stepped, FoundOrPacked
<1> QED BY <1>4 DEF SignerInv

\* A step adds votes of the replica that takes it only.
LEMMA OwnVotes ==
    ASSUME NEW n \in Node, Stepped(n) PROVE \A k \in voted' : k \in voted \/ k.from = n
<1>1. \A type : PP!Msg(n, type).from = n
    BY DEF PP!Msg
<1>2. PP!Step(n) \/ voted' = voted
    BY DEF Stepped, Refines, PP!vars
<1>3. PP!Step(n) => voted' = voted \/ \E type : voted' = voted \cup {PP!Msg(n, type)}
    BY DEF PP!Step, PP!Propose, PP!AwaitPrePrepare, PP!AcceptPrePrepare, PP!SendPrepare,
       PP!FindReceivedBlock, PP!CheckPrepared, PP!SendCommit, PP!Finish, PP!CommitBlock,
       PP!CommitFails, PP!Timeout, PP!LoseTimer, PP!ChangeView
<1> QED BY <1>1, <1>2, <1>3

LEMMA ReplicaStep == ASSUME NEW n \in Node, Stepped(n) PROVE ReplicaInv'
<1>1. ASSUME NEW p \in Node, p # n PROVE Consistent(p, blocks[p])'
    <2>1. Alone(p) /\ Consistent(p, blocks[p])
        BY <1>1 DEF Stepped, OthersAre, EngineInv, ReplicaInv
    <2>2. \A k : k.from = p => (k \in voted' <=> k \in voted)
        BY <1>1, OwnVotes, NothingUnsigned
    <2>3. KeyOf(p, "Prepare").from = p /\ \A s : PrepareOf(p, s).from = p
        BY DEF KeyOf, PrepareOf
    <2>4. KeyOf(p, "Prepare")' = KeyOf(p, "Prepare") /\ blocks'[p] = blocks[p]
        BY <2>1 DEF Alone, KeyOf
    <2>5. \A k \in voted' : k.type = "Prepare" /\ k.from = p =>
              \/ k.num <= blockNum'[p]
              \/ k.num = blockNum'[p] + 1 /\ k.view <= view'[p]
        BY <2>1, <2>2 DEF Alone, Consistent
    <2>6. state'[p] \in {"NotStarted", "PrePreparing"} => KeyOf(p, "Prepare")' \notin voted'
        BY <2>1, <2>2, <2>3, <2>4 DEF Alone, Consistent
    <2>7. \A s \in DOMAIN blocks'[p] : Signs(p, blocks'[p][s]) => PrepareOf(p, s) \in voted'
        BY <2>1, <2>2, <2>3, <2>4 DEF Consistent
    <2>8. state'[p] \in {"Committing", "Finished"} => received'[p]
        BY <2>1 DEF Alone, Consistent
    <2> QED BY <2>5, <2>6, <2>7, <2>8 DEF Consistent, Signs, PrepareOf
<1>2. Consistent(n, blocks[n])'
    BY DEF Stepped, Refines
<1> QED BY <1>1, <1>2 DEF ReplicaInv

LEMMA EngineStep == ASSUME NEW n \in Node, Stepped(n) PROVE EngineInv'
<1>1. CalmBlockInv'
    BY DEF Stepped
<1> QED
    BY <1>1, LogStep, OwnStep, NetStep, ReplicaStep, ProposedStep, SignerStep DEF EngineInv

(***************************************************************************)
(* The engine and the protocol together.                                   *)
(***************************************************************************)

LEMMA NothingBegun == ASSUME Init PROVE EngineInv /\ PP!Init
<1>0. /\ CalmBlockInv /\ Held = {}
      /\ \A n \in Node :
            /\ log[n] = {} /\ DOMAIN blocks[n] = {} /\ ToSet(queue[n]) = {}
            /\ state[n] = "NotStarted" /\ ~ received[n] /\ current[n] = {} /\ committed[n] = {}
      /\ net = {} /\ proposed = {} /\ voted = {}
    BY CalmBlockInit, NothingHeld, NothingIn DEF Init
<1>1. LogInv /\ OwnInv /\ NetInv /\ ProposedInv /\ SignerInv
    BY <1>0 DEF LogInv, OwnInv, SoundLog, Unique, NetInv, ProposedInv, SignerInv
<1>2. ReplicaInv
    BY <1>0 DEF ReplicaInv, Consistent
<1>3. signedBlocks = {}
    <2>1. \A y : y \notin signedBlocks
        BY <1>0, MeaningsHold DEF Meanings, IsSignature
    <2> QED BY <2>1
<1>4. receivedBlock = [n \in Node |-> {}]
    <2>1. \A n \in Node : receivedBlock[n] = {}
        BY <1>0, MeaningsHold DEF Meanings
    <2>2. receivedBlock = [n \in Node |-> receivedBlock[n]]
        BY DEF receivedBlock
    <2> QED BY <2>1, <2>2
<1>5. committedBlocks = [n \in Node |-> {}]
    BY <1>0 DEF committedBlocks
<1>6. PP!Init
    BY <1>0, <1>3, <1>4, <1>5, SameBase DEF Init, PP!Init, PP!GenesisHash, GenesisHash
<1> QED BY <1>0, <1>1, <1>2, <1>6 DEF EngineInv

\* Nothing the engine or the protocol knows changes with no variable.
LEMMA NothingMoves == ASSUME UNCHANGED vars PROVE UNCHANGED PP!vars
<1>1. UNCHANGED <<blockNum, blockID, committed, view, state, received, timer, blocks,
                  proposed, voted>>
    BY DEF vars, chainVars, sm, mm, signed
<1>2. committedBlocks' = committedBlocks
    BY <1>1 DEF committedBlocks
<1>3. receivedBlock' = receivedBlock
    BY <1>1 DEF receivedBlock, FindBlock, SlotOf
<1>4. signedBlocks' = signedBlocks
    BY <1>1 DEF signedBlocks
<1> QED BY <1>1, <1>2, <1>3, <1>4 DEF PP!vars

LEMMA EngineRests ==
    ASSUME MaxFaults = 0, EngineInv, UNCHANGED vars PROVE EngineInv'
<1>0. UNCHANGED <<blockNum, blockID, committed, view, state, received, timer, log, blocks,
                  queue, current, net, proposed, voted>>
    BY DEF vars, chainVars, sm, mm, signed
<1>1. CalmBlockInv'
    BY CalmBlockStep DEF EngineInv
<1>2. LogInv' /\ OwnInv' /\ NetInv'
    BY <1>0 DEF EngineInv, LogInv, OwnInv, NetInv, SoundLog, Known, Cast
<1>3. ReplicaInv'
    BY <1>0 DEF EngineInv, ReplicaInv, Consistent, KeyOf
<1>4. Held' = Held
    BY <1>0 DEF Held
<1>5. ProposedInv'
    BY <1>0, <1>4 DEF EngineInv, ProposedInv
<1>6. SignerInv'
    BY <1>0, <1>4 DEF EngineInv, SignerInv, SignedBy
<1> QED BY <1>1, <1>2, <1>3, <1>5, <1>6 DEF EngineInv

LEMMA CoreStep ==
    ASSUME MaxFaults = 0, EngineInv, [Next]_vars
    PROVE  EngineInv' /\ [PP!Next]_(PP!vars)
<1>1. ASSUME NEW n \in Node, Step(n) PROVE EngineInv' /\ [PP!Next]_(PP!vars)
    <2>1. OthersAre(n) /\ FoundOrPacked(n) /\ Refines(n)
        BY <1>1, StepRefines
    <2>2. CalmBlockInv'
        BY <1>1, CalmBlockStep DEF EngineInv, Next
    <2>3. Stepped(n)
        BY <1>1, <2>1, <2>2 DEF Stepped
    <2> QED BY <2>3, EngineStep, SteppedNext
<1>2. CASE UNCHANGED vars
    BY <1>2, EngineRests, NothingMoves
<1> QED BY <1>1, <1>2 DEF Next

(***************************************************************************)
(* The theorems.                                                           *)
(***************************************************************************)

LEMMA SameProtocol ==
    /\ PP!Init => P!Init
    /\ [PP!Next]_(PP!vars) => [P!Next]_(P!vars)
<1>1. PP!Init => P!Init
    BY DEF PP!Init, P!Init, PP!Node, P!Node, PP!GenesisHash, P!GenesisHash
<1> USE DEF PP!Active, P!Active, PP!IsPrimary, P!IsPrimary, PP!Primary, P!Primary,
            PP!Msg, P!Msg, PP!Enter, P!Enter, PP!Proposed, P!Proposed, PP!Hash, P!Hash
<1>2. PP!Node = P!Node /\ PP!vars = P!vars /\ PP!minNodeNum = P!minNodeNum
      /\ \A S : PP!Cardinality(S) = P!Cardinality(S)
    BY DEF PP!Node, P!Node, PP!vars, P!vars, PP!minNodeNum, P!minNodeNum,
       PP!Cardinality, P!Cardinality
<1>3. \A num, v, type : PP!HasQuorum(num, v, type) <=> P!HasQuorum(num, v, type)
    BY <1>2 DEF PP!HasQuorum, P!HasQuorum, PP!Senders, P!Senders
<1>4. \A num, v : PP!SignedSlot(num, v) <=> P!SignedSlot(num, v)
    BY <1>2 DEF PP!SignedSlot, P!SignedSlot
<1>5. \A n : PP!Holdings(n) = P!Holdings(n)
    BY <1>4 DEF PP!Holdings, P!Holdings
<1>6. ASSUME NEW n, PP!Step(n) PROVE P!Step(n)
    <2>1. PP!Propose(n) => P!Propose(n)
        BY DEF PP!Propose, P!Propose
    <2>2. PP!AwaitPrePrepare(n) => P!AwaitPrePrepare(n)
        BY DEF PP!AwaitPrePrepare, P!AwaitPrePrepare
    <2>3. PP!AcceptPrePrepare(n) => P!AcceptPrePrepare(n)
        BY DEF PP!AcceptPrePrepare, P!AcceptPrePrepare
    <2>4. PP!SendPrepare(n) => P!SendPrepare(n)
        BY DEF PP!SendPrepare, P!SendPrepare
    <2>5. PP!FindReceivedBlock(n) => P!FindReceivedBlock(n)
        BY <1>5 DEF PP!FindReceivedBlock, P!FindReceivedBlock
    <2>6. PP!CheckPrepared(n) => P!CheckPrepared(n)
        BY <1>3, <1>5 DEF PP!CheckPrepared, P!CheckPrepared
    <2>7. PP!SendCommit(n) => P!SendCommit(n)
        BY <1>5 DEF PP!SendCommit, P!SendCommit
    <2>8. PP!Finish(n) => P!Finish(n)
        BY <1>3 DEF PP!Finish, P!Finish
    <2>9. PP!CommitBlock(n) => P!CommitBlock(n)
        BY DEF PP!CommitBlock, P!CommitBlock
    <2>10. PP!CommitFails(n) => P!CommitFails(n)
        BY DEF PP!CommitFails, P!CommitFails
    <2>11. PP!Timeout(n) => P!Timeout(n)
        BY DEF PP!Timeout, P!Timeout
    <2>12. PP!ChangeView(n) => P!ChangeView(n)
        BY <1>3 DEF PP!ChangeView, P!ChangeView
    <2>13. PP!LoseTimer(n) => P!LoseTimer(n)
        BY DEF PP!LoseTimer, P!LoseTimer
    <2> QED
        BY <1>6, <2>1, <2>2, <2>3, <2>4, <2>5, <2>6, <2>7, <2>8, <2>9, <2>10, <2>11, <2>12,
           <2>13 DEF PP!Step, P!Step
<1>7. [PP!Next]_(PP!vars) => [P!Next]_(P!vars)
    <2>1. PP!Next => P!Next
        BY <1>2, <1>6 DEF PP!Next, P!Next
    <2>2. UNCHANGED PP!vars => UNCHANGED P!vars
        BY DEF PP!vars, P!vars
    <2> QED BY <2>1, <2>2
<1> QED BY <1>1, <1>7

\* Replicas that are not stopped or restarted implement the protocol, however many they
\* are: their queues, logs and stores, their polling, the blocks they refuse, their own
\* included, and the order in which messages come, add nothing to what PbftProtocol
\* lets them do (pbft.go:172-233, states.go:33-377, verify.go:92-130).
THEOREM EngineImplementsProtocol ==
    ASSUME MaxFaults = 0 PROVE Spec => ImplementsProtocol
<1>1. Init => EngineInv /\ P!Init
    BY NothingBegun, SameProtocol
<1>2. EngineInv /\ [Next]_vars => EngineInv' /\ [P!Next]_(P!vars)
    BY CoreStep, SameProtocol
<1> QED BY <1>1, <1>2, PTL DEF Spec, ImplementsProtocol, P!Spec

\* So up to three of them commit one block at a height: no replica's chain forks from
\* another's (CommitBlock, block.go:70-97).
THEOREM EngineAgrees == ASSUME N <= 3, MaxFaults = 0 PROVE Spec => []Agreement
<1> DEFINE CoreInv == EngineInv /\ PP!IInv /\ PP!Agreement
<1>1. Init => CoreInv
    <2> SUFFICES ASSUME Init PROVE CoreInv
        OBVIOUS
    <2>1. EngineInv /\ PP!Init
        BY NothingBegun
    <2>2. PP!IInv
        BY <2>1, PP!InvInit, NAssumption, BoundAssumption
    <2>3. PP!Agreement
        BY <2>1, SameBase DEF PP!Init, PP!Agreement
    <2> QED BY <2>1, <2>2, <2>3
<1>2. CoreInv /\ [Next]_vars => CoreInv'
    <2> SUFFICES ASSUME CoreInv, [Next]_vars PROVE CoreInv'
        OBVIOUS
    <2>1. EngineInv' /\ [PP!Next]_(PP!vars)
        BY CoreStep
    <2>2. PP!IInv'
        BY <2>1, PP!InvStep, NAssumption, BoundAssumption
    <2>3. PP!Agreement'
        BY <2>1, PP!AgreementStep, NAssumption, BoundAssumption
    <2> QED BY <2>1, <2>2, <2>3
<1>3. CoreInv => Agreement
    <2> SUFFICES ASSUME CoreInv, NEW a \in Node, NEW b \in Node,
                        NEW x \in committed[a], NEW y \in committed[b], x.blk.num = y.blk.num
                 PROVE  x.blk = y.blk
        BY DEF Agreement
    <2>1. x.blk \in committedBlocks[a] /\ y.blk \in committedBlocks[b]
        BY DEF committedBlocks
    <2> QED BY <2>1, SameBase DEF PP!Agreement
<1> QED BY <1>1, <1>2, <1>3, PTL DEF Spec

=============================================================================
