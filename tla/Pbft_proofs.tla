------------------------------ MODULE Pbft_proofs ------------------------------
(***************************************************************************)
(* What holds of the consensus engine, with its queues, logs and stores,   *)
(* for every number of verifiers, heights and views: its type and that a   *)
(* replica that waits for others has voted, under any stops and restarts;  *)
(* and, without them, that the received block is signed by enough.         *)
(***************************************************************************)
EXTENDS Pbft, TLAPS, FiniteSetTheorems, SequenceTheorems

(***************************************************************************)
(* Facts about sequences, quorums and the block store.                     *)
(***************************************************************************)

LEMMA HeadAndTail ==
    ASSUME NEW S, NEW q \in Seq(S), q # <<>>
    PROVE  /\ Head(q) \in S /\ Tail(q) \in Seq(S)
           /\ Len(q) \in Nat /\ Len(Tail(q)) = Len(q) - 1
           /\ \A i \in 1 .. Len(Tail(q)) : i + 1 \in 1 .. Len(q) /\ Tail(q)[i] = q[i + 1]
           /\ Head(q) = q[1] /\ 1 \in 1 .. Len(q)
           /\ ToSet(q) = {Head(q)} \cup ToSet(Tail(q))
<1>1. /\ Head(q) \in S /\ Tail(q) \in Seq(S) /\ Head(q) = q[1]
      /\ Len(Tail(q)) = Len(q) - 1
      /\ \A i \in 1 .. Len(Tail(q)) : Tail(q)[i] = q[i + 1]
      /\ Len(q) \in Nat /\ Len(q) # 0
    BY HeadTailProperties, LenProperties, EmptySeq
<1>2. /\ 1 \in 1 .. Len(q) /\ \A i \in 1 .. Len(Tail(q)) : i + 1 \in 1 .. Len(q)
      /\ \A i \in 1 .. Len(q) : i = 1 \/ (i - 1 \in 1 .. Len(Tail(q)) /\ (i - 1) + 1 = i)
    BY <1>1
<1>3. DOMAIN q = 1 .. Len(q) /\ DOMAIN Tail(q) = 1 .. Len(Tail(q))
    BY <1>1, LenProperties
<1> DEFINE h == Head(q)
           r == Tail(q)
<1> HIDE DEF h, r
<1>4. /\ h = q[1] /\ 1 \in 1 .. Len(q)
      /\ \A i \in 1 .. Len(r) : i + 1 \in 1 .. Len(q) /\ r[i] = q[i + 1]
      /\ \A i \in 1 .. Len(q) : i = 1 \/ (i - 1 \in 1 .. Len(r) /\ (i - 1) + 1 = i)
      /\ DOMAIN q = 1 .. Len(q) /\ DOMAIN r = 1 .. Len(r)
    BY <1>1, <1>2, <1>3 DEF h, r
<1>5. ToSet(q) = {h} \cup ToSet(r)
    <2>1. ASSUME NEW i \in 1 .. Len(q) PROVE q[i] \in {h} \cup {r[j] : j \in 1 .. Len(r)}
        <3>1. CASE i = 1
            BY <1>4, <3>1
        <3>2. CASE i # 1
            <4>1. i - 1 \in 1 .. Len(r) /\ (i - 1) + 1 = i
                BY <1>4, <3>2
            <4>2. r[i - 1] = q[(i - 1) + 1]
                BY <1>4, <4>1
            <4> QED BY <4>1, <4>2
        <3> QED BY <3>1, <3>2
    <2>2. h \in {q[j] : j \in 1 .. Len(q)}
        BY <1>4
    <2>3. ASSUME NEW i \in 1 .. Len(r) PROVE r[i] \in {q[j] : j \in 1 .. Len(q)}
        BY <1>4
    <2>4. ToSet(q) = {q[j] : j \in 1 .. Len(q)} /\ ToSet(r) = {r[j] : j \in 1 .. Len(r)}
        BY <1>4 DEF ToSet
    <2> QED BY <2>1, <2>2, <2>3, <2>4
<1> QED BY <1>1, <1>2, <1>5 DEF h, r

LEMMA Appended ==
    ASSUME NEW S, NEW q \in Seq(S), NEW m \in S
    PROVE  /\ Append(q, m) \in Seq(S) /\ Len(q) \in Nat /\ Len(Append(q, m)) = Len(q) + 1
           /\ \A i \in 1 .. Len(q) : Append(q, m)[i] = q[i]
           /\ Append(q, m)[Len(q) + 1] = m
           /\ ToSet(Append(q, m)) = ToSet(q) \cup {m}
<1> DEFINE a == Append(q, m)
<1>1. /\ a \in Seq(S) /\ Len(q) \in Nat /\ Len(a) = Len(q) + 1
      /\ \A i \in 1 .. Len(q) : a[i] = q[i]
      /\ a[Len(q) + 1] = m
    BY AppendProperties, LenProperties
<1>2. DOMAIN q = 1 .. Len(q) /\ DOMAIN a = 1 .. Len(a)
    BY <1>1, LenProperties
<1> HIDE DEF a
<1>3. 1 .. Len(a) = (1 .. Len(q)) \cup {Len(q) + 1}
    BY <1>1
<1>4. ToSet(a) = ToSet(q) \cup {m}
    BY <1>1, <1>2, <1>3 DEF ToSet
<1> QED BY <1>1, <1>4 DEF a

LEMMA InSeq ==
    ASSUME NEW S, NEW q \in Seq(S)
    PROVE  /\ Len(q) \in Nat /\ DOMAIN q = 1 .. Len(q)
           /\ \A i \in 1 .. Len(q) : q[i] \in S
           /\ ToSet(q) \subseteq S
           /\ ToSet(q) = {q[i] : i \in 1 .. Len(q)}
<1>1. Len(q) \in Nat /\ DOMAIN q = 1 .. Len(q) /\ \A i \in 1 .. Len(q) : q[i] \in S
    BY LenProperties, ElementOfSeq
<1> QED BY <1>1 DEF ToSet

LEMMA NothingIn == /\ \A S : <<>> \in Seq(S)
                   /\ DOMAIN <<>> = {} /\ ToSet(<<>>) = {}
<1>1. DOMAIN <<>> = {}
    OBVIOUS
<1> QED BY <1>1 DEF ToSet

LEMMA QuorumFacts ==
    /\ minNodeNum \in Nat /\ minNodeNum >= 1
    /\ IsFiniteSet(Node) /\ Cardinality(Node) = N
<1>1. minNodeNum \in Nat /\ minNodeNum >= 1
    BY NAssumption DEF minNodeNum
<1>2. IsFiniteSet(Node) /\ Cardinality(Node) = N
    BY NAssumption, FS_Interval DEF Node
<1> QED BY <1>1, <1>2

LEMMA PrimaryIsNode ==
    ASSUME NEW num \in Nat, NEW v \in Nat PROVE Primary(num, v) \in Node
BY NAssumption DEF Primary, Node

\* More verifiers, no fewer.
LEMMA CountIsMonotone ==
    ASSUME NEW S \in SUBSET Node, NEW T \in SUBSET Node, S \subseteq T
    PROVE  /\ Cardinality(S) \in Nat /\ Cardinality(T) \in Nat
           /\ Cardinality(S) <= Cardinality(T)
<1>1. IsFiniteSet(T)
    BY QuorumFacts, FS_Subset
<1>2. IsFiniteSet(S) /\ Cardinality(S) <= Cardinality(T)
    BY <1>1, FS_Subset
<1> QED BY <1>1, <1>2, FS_CardinalityType

(***************************************************************************)
(* Types.  A message carries the block of its own slot, a store holds each *)
(* block at its slot, and no ViewChange is for the last view.              *)
(***************************************************************************)

Fits(m) == \A b \in m.block : b.blk.num = m.key.num /\ b.blk.view = m.key.view

SoundKey ==
    {k \in Key : k.view <= MaxView /\ (k.type = "ViewChange" => k.view < MaxView)}

SoundMsg == {m \in [key : SoundKey, block : SUBSET SignedBlock] : Fits(m)}

SoundEntry == {e \in [key : SoundKey, block : SUBSET SignedBlock, sent : BOOLEAN] : Fits(e)}

SoundStore(bl) ==
    /\ DOMAIN bl \subseteq Nat \X (0 .. MaxView)
    /\ bl = [s \in DOMAIN bl |-> bl[s]]
    /\ \A s \in DOMAIN bl :
          bl[s] \in SignedBlock /\ bl[s].blk.num = s[1] /\ bl[s].blk.view = s[2]

ChainType ==
    /\ blockNum \in [Node -> 0 .. MaxNum]
    /\ halfExecuted \in [Node -> BOOLEAN]
    /\ blockID \in [Node -> Nat \X Nat \X (Bodies \cup {0})]
    /\ \A n \in Node : blockID[n] \in {GenesisHash} \cup {Hash(c.blk) : c \in committed[n]}
    /\ view \in [Node -> 0 .. MaxView]
    /\ committed \in [Node -> SUBSET SignedBlock]
    /\ \A n \in Node : \A c \in committed[n] : c.blk.view <= MaxView
    /\ \A n \in Node : blockNum[n] # 0 => \E c \in committed[n] : c.blk.num = blockNum[n]

EngineType ==
    /\ state \in [Node -> States]
    /\ received \in [Node -> BOOLEAN]
    /\ timer \in [Node -> BOOLEAN]
    /\ stopped \in [Node -> BOOLEAN]
    /\ faults \in 0 .. MaxFaults

StoreType ==
    /\ blocks = [n \in Node |-> blocks[n]]
    /\ \A n \in Node : SoundStore(blocks[n])

\* A replica's own messages, and what they have added to the history.
OwnType ==
    /\ queue \in [Node -> Seq(SoundMsg)]
    /\ proposed \subseteq Block /\ voted \subseteq SoundKey

MsgType ==
    /\ log \in [Node -> SUBSET SoundEntry]
    /\ OwnType
    /\ tasks \in [Node -> Seq(SoundKey)]
    /\ current \in [Node -> SUBSET SoundKey]
    /\ net \subseteq [to : Node, msg : SoundMsg]

TypeInv == ChainType /\ EngineType /\ StoreType /\ MsgType

LEMMA TypeInvGivesType == TypeInv => TypeOK
<1> SUFFICES ASSUME TypeInv PROVE TypeOK
    OBVIOUS
<1>1. /\ blockNum \in [Node -> 0 .. MaxNum]
      /\ \A n \in Node : blockID[n] \in {GenesisHash} \cup {Hash(c.blk) : c \in committed[n]}
      /\ view \in [Node -> 0 .. MaxView]
      /\ \A n \in Node : \A c \in committed[n] : c.blk \in Block /\ c.pairs \subseteq Pair
    BY DEF TypeInv, ChainType, SignedBlock
<1>2. /\ \A n \in Node : \A e \in log[n] : e.key \in Key /\ e.sent \in BOOLEAN
    BY DEF TypeInv, MsgType, OwnType, SoundEntry, SoundKey
<1>3. \A n \in Node : \A s \in DOMAIN blocks[n] :
          blocks[n][s].blk \in Block /\ blocks[n][s].pairs \subseteq Pair
    BY DEF TypeInv, StoreType, SoundStore, SignedBlock
<1>4. \A n \in Node : \A i \in DOMAIN queue[n] : queue[n][i].key \in Key
    <2> TAKE n \in Node
    <2>1. \A i \in DOMAIN queue[n] : queue[n][i] \in SoundMsg
        <3>1. queue[n] \in Seq(SoundMsg)
            BY DEF TypeInv, MsgType, OwnType
        <3> QED BY <3>1, InSeq
    <2> QED BY <2>1 DEF SoundMsg, SoundKey
<1>5. \A n \in Node : \A i \in DOMAIN tasks[n] : tasks[n][i] \in Key
    <2> TAKE n \in Node
    <2>1. \A i \in DOMAIN tasks[n] : tasks[n][i] \in SoundKey
        <3>1. tasks[n] \in Seq(SoundKey)
            BY DEF TypeInv, MsgType, OwnType
        <3> QED BY <3>1, InSeq
    <2> QED BY <2>1 DEF SoundKey
<1>6. /\ \A n \in Node : current[n] \subseteq Key
      /\ \A c \in net : c.to \in Node /\ c.msg.key \in Key
      /\ proposed \subseteq Block /\ voted \subseteq Key /\ halfExecuted \in [Node -> BOOLEAN]
    BY DEF TypeInv, ChainType, MsgType, OwnType, SoundMsg, SoundKey
<1> QED BY <1>1, <1>2, <1>3, <1>4, <1>5, <1>6 DEF TypeOK, TypeInv, EngineType

LEMMA InitTypes == Init => TypeInv
<1> SUFFICES ASSUME Init PROVE TypeInv
    OBVIOUS
<1>1. ChainType
    BY BoundAssumption DEF Init, ChainType, GenesisHash
<1>2. EngineType
    BY BoundAssumption DEF Init, EngineType, States
<1>3. StoreType
    <2>1. SoundStore(<<>>)
        BY NothingIn DEF SoundStore
    <2> QED BY <2>1 DEF Init, StoreType
<1>4. MsgType
    <2>1. <<>> \in Seq(SoundMsg) /\ <<>> \in Seq(SoundKey)
        BY NothingIn
    <2> QED BY <2>1 DEF Init, MsgType, OwnType
<1> QED BY <1>1, <1>2, <1>3, <1>4 DEF TypeInv

LEMMA OwnKeys ==
    ASSUME TypeInv, NEW n \in Node
    PROVE  /\ blockNum[n] \in Nat /\ view[n] \in Nat /\ view[n] <= MaxView /\ n \in Node
           /\ SlotOf(n) \in Nat \X (0 .. MaxView)
           /\ \A type \in MsgTypes :
                 type # "ViewChange" \/ view[n] < MaxView => KeyOf(n, type) \in SoundKey
<1>1. blockNum[n] \in Nat /\ view[n] \in Nat /\ view[n] <= MaxView
    BY BoundAssumption DEF TypeInv, ChainType
<1>2. blockNum[n] + 1 \in Nat /\ view[n] \in 0 .. MaxView
    BY <1>1, BoundAssumption
<1> QED BY <1>1, <1>2 DEF SlotOf, KeyOf, SoundKey, Key

\* Merging never takes a block out of its slot (log_msg.go:111-148).
LEMMA AddBlockTypes ==
    ASSUME NEW bl, SoundStore(bl), NEW s \in Nat \X (0 .. MaxView),
           NEW b \in SignedBlock, b.blk.num = s[1], b.blk.view = s[2]
    PROVE  /\ SoundStore(addBlock(bl, s, b))
           /\ DOMAIN addBlock(bl, s, b) = DOMAIN bl \cup {s}
           /\ \A t \in DOMAIN bl : t # s => addBlock(bl, s, b)[t] = bl[t]
           /\ s \notin DOMAIN bl => addBlock(bl, s, b)[s] = b
           /\ s \in DOMAIN bl /\ bl[s].pairs = {} => addBlock(bl, s, b)[s] \in {b, bl[s]}
           /\ s \in DOMAIN bl /\ bl[s].pairs # {} =>
                 /\ addBlock(bl, s, b)[s].blk = bl[s].blk
                 /\ bl[s].pairs \subseteq addBlock(bl, s, b)[s].pairs
                 /\ \A p \in addBlock(bl, s, b)[s].pairs : p \in bl[s].pairs \/ p \in b.pairs
<1>0. /\ DOMAIN bl \subseteq Nat \X (0 .. MaxView)
      /\ \A t \in DOMAIN bl :
            bl[t] \in SignedBlock /\ bl[t].blk.num = t[1] /\ bl[t].blk.view = t[2]
    BY DEF SoundStore
<1>1. CASE s \notin DOMAIN bl \/ (bl[s].pairs = {} /\ b.pairs # {})
    <2>1. addBlock(bl, s, b) = [t \in DOMAIN bl \cup {s} |-> IF t = s THEN b ELSE bl[t]]
        BY <1>1 DEF addBlock, put
    <2> DEFINE a == addBlock(bl, s, b)
    <2>2. /\ DOMAIN a = DOMAIN bl \cup {s} /\ a[s] = b
          /\ \A t \in DOMAIN bl : t # s => a[t] = bl[t]
          /\ a = [t \in DOMAIN a |-> a[t]]
        BY <2>1
    <2> HIDE DEF a
    <2>3. SoundStore(a)
        BY <1>0, <2>2 DEF SoundStore
    <2> QED BY <1>1, <2>2, <2>3 DEF a
<1>2. CASE ~ (s \notin DOMAIN bl \/ (bl[s].pairs = {} /\ b.pairs # {}))
    <2> DEFINE known == {p.by : p \in bl[s].pairs}
               ps == IF bl[s].pairs = {} THEN bl[s].pairs
                     ELSE bl[s].pairs \cup {p \in b.pairs : p.by \notin known}
               a == addBlock(bl, s, b)
    <2>1. a = [bl EXCEPT ![s].pairs = ps]
        BY <1>2 DEF addBlock
    <2>2. bl[s] = [blk |-> bl[s].blk, pairs |-> bl[s].pairs] /\ s \in DOMAIN bl
        BY <1>0, <1>2 DEF SignedBlock
    <2>3. ps \subseteq Pair
        BY <1>0, <1>2 DEF SignedBlock
    <2>4. bl[s].pairs # {} =>
              bl[s].pairs \subseteq ps /\ \A p \in ps : p \in bl[s].pairs \/ p \in b.pairs
        OBVIOUS
    <2>5. bl[s].pairs = {} => ps = bl[s].pairs
        OBVIOUS
    <2> HIDE DEF ps, a
    <2>6. /\ DOMAIN a = DOMAIN bl
          /\ \A t \in DOMAIN bl : t # s => a[t] = bl[t]
          /\ a[s] = [blk |-> bl[s].blk, pairs |-> ps]
          /\ a = [t \in DOMAIN a |-> a[t]]
        BY <2>1, <2>2
    <2>7. a[s] \in SignedBlock /\ a[s].blk = bl[s].blk /\ a[s].pairs = ps
        BY <1>0, <2>2, <2>3, <2>6 DEF SignedBlock
    <2>8. SoundStore(a)
        BY <1>0, <2>6, <2>7 DEF SoundStore
    <2>9. bl[s].pairs = {} => a[s] = bl[s]
        BY <2>2, <2>5, <2>6
    <2> QED BY <2>2, <2>4, <2>6, <2>7, <2>8, <2>9 DEF a
<1> QED BY <1>1, <1>2

\* What a message does to the store (AppendMsg, log_msg.go:151-204): nothing, or
\* addBlock of its block.
LEMMA StoredCases ==
    ASSUME NEW n, NEW m
    PROVE  \/ storedBlocks(n, m) = blocks[n]
           \/ \E b \in m.block :
                 storedBlocks(n, m) = addBlock(blocks[n], <<m.key.num, m.key.view>>, b)
BY DEF storedBlocks

LEMMA FilingTypes ==
    ASSUME TypeInv, NEW n \in Node, NEW m \in SoundMsg
    PROVE  addMsg(log[n], m) \in SUBSET SoundEntry /\ SoundStore(storedBlocks(n, m))
<1>1. addMsg(log[n], m) \in SUBSET SoundEntry
    <2>1. log[n] \in SUBSET SoundEntry
        BY DEF TypeInv, MsgType, OwnType
    <2>2. [key |-> m.key, block |-> m.block, sent |-> FALSE] \in SoundEntry
        BY DEF SoundMsg, SoundEntry, Fits
    <2> QED BY <2>1, <2>2 DEF addMsg
<1>2. SoundStore(blocks[n])
    BY DEF TypeInv, StoreType
<1>3. ASSUME NEW b \in m.block
      PROVE  SoundStore(addBlock(blocks[n], <<m.key.num, m.key.view>>, b))
    <2>1. <<m.key.num, m.key.view>> \in Nat \X (0 .. MaxView)
        BY BoundAssumption DEF SoundMsg, SoundKey, Key
    <2>2. b \in SignedBlock /\ b.blk.num = m.key.num /\ b.blk.view = m.key.view
        BY DEF SoundMsg, Fits
    <2> QED BY <1>2, <2>1, <2>2, AddBlockTypes
<1> QED BY <1>1, <1>2, <1>3, StoredCases

LEMMA InsertTypes ==
    ASSUME OwnType, NEW n \in Node, NEW q \in Seq(SoundMsg),
           NEW m \in SoundMsg, InsertMsg(n, q, m)
    PROVE  OwnType'
<1>1. Append(q, m) \in Seq(SoundMsg)
    BY Appended
<1>2. queue' \in [Node -> Seq(SoundMsg)]
    BY <1>1 DEF InsertMsg, OwnType
<1>3. proposed' \subseteq Block /\ voted' \subseteq SoundKey
    BY DEF InsertMsg, Sign, OwnType, SoundMsg, SignedBlock
<1> QED BY <1>2, <1>3 DEF OwnType

LEMMA TaskTypes ==
    ASSUME tasks \in [Node -> Seq(SoundKey)], NEW n \in Node,
           NEW entries \in SUBSET SoundEntry, AddBroadcastTask(n, entries)
    PROVE  tasks' \in [Node -> Seq(SoundKey)]
<1> DEFINE new == {e.key : e \in {f \in entries : ~ f.sent}} \ ToSet(tasks[n])
<1>1. tasks' = [tasks EXCEPT ![n] =
                   IF new = {} THEN tasks[n] ELSE Append(tasks[n], CHOOSE k \in new : TRUE)]
    BY DEF AddBroadcastTask
<1>2. new \subseteq SoundKey
    BY DEF SoundEntry
<1> HIDE DEF new
<1>3. new # {} => Append(tasks[n], CHOOSE k \in new : TRUE) \in Seq(SoundKey)
    <2> SUFFICES ASSUME new # {}
                 PROVE  Append(tasks[n], CHOOSE k \in new : TRUE) \in Seq(SoundKey)
        OBVIOUS
    <2>1. (CHOOSE k \in new : TRUE) \in SoundKey
        BY <1>2
    <2> QED BY <2>1, Appended
<1> QED BY <1>1, <1>3

\* FindBlock finds the block of the replica's slot.
LEMMA FoundFits ==
    ASSUME NEW n, NEW bl, SoundStore(bl)
    PROVE  /\ \A b \in FindBlock(n, bl) :
                 /\ b \in SignedBlock /\ SlotOf(n) \in DOMAIN bl /\ b = bl[SlotOf(n)]
                 /\ b.blk.num = blockNum[n] + 1 /\ b.blk.view = view[n]
           /\ SlotOf(n) \in DOMAIN bl => FindBlock(n, bl) = {bl[SlotOf(n)]}
<1> DEFINE s == SlotOf(n)
<1>1. FindBlock(n, bl) = {bl[t] : t \in DOMAIN bl \cap {s}}
    BY DEF FindBlock
<1>2. s[1] = blockNum[n] + 1 /\ s[2] = view[n]
    BY DEF SlotOf
<1> HIDE DEF s
<1>3. \A b \in FindBlock(n, bl) : b = bl[s] /\ s \in DOMAIN bl
    BY <1>1
<1>4. s \in DOMAIN bl => FindBlock(n, bl) = {bl[s]}
    BY <1>1
<1>5. s \in DOMAIN bl => /\ bl[s] \in SignedBlock
                         /\ bl[s].blk.num = blockNum[n] + 1 /\ bl[s].blk.view = view[n]
    BY <1>2 DEF SoundStore
<1> QED BY <1>3, <1>4, <1>5 DEF s

\* A quorum is never empty.
LEMMA QuorumHasOne ==
    ASSUME NEW n, NEW lg, NEW type, HasQuorum(n, lg, type)
    PROVE  \E e \in lg : e.key.type = type /\ e.key.num = blockNum[n] + 1 /\ e.key.view = view[n]
<1> SUFFICES ASSUME FindStateMsg(n, lg, type) = {} PROVE FALSE
    BY DEF FindStateMsg
<1>1. Cardinality(FindStateMsg(n, lg, type)) = 0
    BY FS_EmptySet
<1> QED BY <1>1, QuorumFacts DEF HasQuorum

LEMMA MigrateTypes ==
    ASSUME TypeInv, NEW n \in Node, NEW lg \in SUBSET SoundEntry,
           NEW bl, SoundStore(bl), NEW q \in Seq(SoundMsg), Active(n), StateMigrate(n, lg, bl, q)
    PROVE  TypeInv'
<1>0. /\ log' = [log EXCEPT ![n] = lg] /\ UNCHANGED <<stopped, current, faults>>
      /\ blocks = [m \in Node |-> blocks[m]] /\ \A m \in Node : SoundStore(blocks[m])
      /\ log \in [Node -> SUBSET SoundEntry] /\ queue \in [Node -> Seq(SoundMsg)] /\ OwnType
      /\ tasks \in [Node -> Seq(SoundKey)] /\ current \in [Node -> SUBSET SoundKey]
      /\ net \subseteq [to : Node, msg : SoundMsg]
      /\ state \in [Node -> States] /\ received \in [Node -> BOOLEAN]
      /\ timer \in [Node -> BOOLEAN] /\ stopped \in [Node -> BOOLEAN]
      /\ faults \in 0 .. MaxFaults
    BY DEF StateMigrate, TypeInv, StoreType, MsgType, OwnType, EngineType
<1>00. /\ view[n] \in Nat /\ view[n] <= MaxView
       /\ SlotOf(n) \in Nat \X (0 .. MaxView)
       /\ \A type \in MsgTypes \ {"ViewChange"} : KeyOf(n, type) \in SoundKey
    BY OwnKeys
<1>1. ASSUME NEW nb, blocks' = [blocks EXCEPT ![n] = nb], SoundStore(nb)
      PROVE  StoreType'
    <2>1. blocks' = [m \in Node |-> IF m = n THEN nb ELSE blocks[m]]
        BY <1>0, <1>1
    <2> QED BY <1>0, <1>1, <2>1 DEF StoreType
<1>2. ASSUME NEW s \in States, ChangeState(n, s)
      PROVE  state' \in [Node -> States] /\ timer' \in [Node -> BOOLEAN]
    BY <1>0, <1>2 DEF ChangeState
<1>3. ASSUME Stay PROVE state' \in [Node -> States] /\ timer' \in [Node -> BOOLEAN]
    BY <1>0, <1>3 DEF Stay
<1>4. ASSUME Leave(n, q) PROVE OwnType'
    BY <1>0, <1>4 DEF Leave, OwnType, signed
<1>5. ASSUME OwnType', tasks' \in [Node -> Seq(SoundKey)],
             net' \subseteq [to : Node, msg : SoundMsg]
      PROVE  MsgType'
    BY <1>0, <1>5 DEF MsgType, OwnType
<1>6. ASSUME state' \in [Node -> States], timer' \in [Node -> BOOLEAN],
             received' \in [Node -> BOOLEAN]
      PROVE  EngineType'
    BY <1>0, <1>6 DEF EngineType
<1>7. ASSUME UNCHANGED <<chainVars, view>> PROVE ChainType'
    BY <1>7 DEF TypeInv, ChainType, chainVars
<1>8. \A type : FindStateMsgBySinger(n, lg, type, n) \in SUBSET SoundEntry
    BY DEF FindStateMsgBySinger, FindStateMsg
<1>9. ASSUME Receive(n, bl) PROVE received' \in [Node -> BOOLEAN]
    BY <1>0, <1>9 DEF Receive
<1>10. CASE MigrateNotStarted(n, lg, bl, q)
    <2>1. ChainType' /\ StoreType' /\ UNCHANGED <<received, tasks>>
        BY <1>1, <1>7, <1>10 DEF MigrateNotStarted
    <2>2. CASE Stay /\ Leave(n, q) /\ UNCHANGED net
        BY <1>0, <1>3, <1>4, <1>5, <1>6, <2>1, <2>2 DEF TypeInv
    <2>3. ASSUME NEW body \in Bodies,
                 LET m == [key |-> KeyOf(n, "PrePrepare"),
                           block |-> {[blk |-> packageBlock(n, body), pairs |-> {}]}]
                 IN  InsertMsg(n, q, m) /\ net' = net \cup Copies(n, m),
                 ChangeState(n, "Preparing")
          PROVE  TypeInv'
        <3> DEFINE b == [blk |-> packageBlock(n, body), pairs |-> {}]
                   m == [key |-> KeyOf(n, "PrePrepare"), block |-> {b}]
        <3>1. blockNum[n] + 1 \in Nat /\ view[n] \in Nat
              /\ blockID[n] \in Nat \X Nat \X (Bodies \cup {0})
            BY BoundAssumption DEF TypeInv, ChainType
        <3>2. packageBlock(n, body) \in Block
            BY <3>1 DEF packageBlock, Block
        <3>3. b \in SignedBlock
            BY <3>2 DEF SignedBlock
        <3>4. b.blk.num = blockNum[n] + 1 /\ b.blk.view = view[n]
            BY DEF packageBlock
        <3>5. KeyOf(n, "PrePrepare") \in SoundKey /\ KeyOf(n, "PrePrepare").num = blockNum[n] + 1
              /\ KeyOf(n, "PrePrepare").view = view[n]
            BY <1>00 DEF MsgTypes, KeyOf
        <3> HIDE DEF b
        <3>6. m \in SoundMsg
            BY <3>3, <3>4, <3>5 DEF SoundMsg, Fits
        <3>7. InsertMsg(n, q, m) /\ net' = net \cup Copies(n, m)
            BY <2>3 DEF b
        <3> HIDE DEF m
        <3>8. OwnType'
            BY <1>0, <3>6, <3>7, InsertTypes
        <3>9. net' \subseteq [to : Node, msg : SoundMsg]
            BY <1>0, <3>6, <3>7 DEF Copies
        <3>10. MsgType'
            BY <1>0, <1>5, <2>1, <3>8, <3>9
        <3>11. EngineType'
            BY <1>0, <1>2, <1>6, <2>1, <2>3 DEF States
        <3> QED BY <2>1, <3>10, <3>11 DEF TypeInv
    <2>4. CASE ChangeState(n, "PrePreparing") /\ Leave(n, q) /\ UNCHANGED net
        <3>1. EngineType'
            BY <1>0, <1>2, <1>6, <2>1, <2>4 DEF States
        <3> QED BY <1>0, <1>4, <1>5, <2>1, <2>4, <3>1 DEF TypeInv
    <2> QED BY <1>10, <2>2, <2>3, <2>4 DEF MigrateNotStarted
<1>11. CASE MigratePrePreparing(n, lg, bl, q)
    <2> DEFINE primary == Primary(blockNum[n] + 1, view[n])
               prePrepare == FindStateMsgBySinger(n, lg, "PrePrepare", primary)
               found == FindBlock(n, bl)
               mine == {b \in found : \E p \in b.pairs : p.by = n}
               enough == {b \in mine : EnoughSigners(b)}
               attached == {signBlock(n, b) : b \in found \ enough}
               nb == IF attached = {} THEN bl
                     ELSE [bl EXCEPT ![SlotOf(n)] = CHOOSE b \in attached : TRUE]
               m == [key |-> KeyOf(n, "Prepare"), block |-> attached]
    <2>1. ChainType' /\ UNCHANGED net
        BY <1>7, <1>11 DEF MigratePrePreparing
    <2>2. CASE blocks' = [blocks EXCEPT ![n] = bl] /\ Stay /\ Leave(n, q) /\ UNCHANGED <<received, tasks>>
        BY <1>0, <1>1, <1>3, <1>4, <1>5, <1>6, <2>1, <2>2 DEF TypeInv
    <2>3. CASE /\ AddBroadcastTask(n, prePrepare)
               /\ blocks' = [blocks EXCEPT ![n] = nb]
               /\ received' = [received EXCEPT ![n] = @ \/ enough # {}]
               /\ ChangeState(n, "Preparing")
               /\ InsertMsg(n, q, m)
        <3>1. prePrepare \in SUBSET SoundEntry
            BY DEF FindStateMsgBySinger, FindStateMsg
        <3>2. \A b \in found : /\ b \in SignedBlock /\ SlotOf(n) \in DOMAIN bl /\ b = bl[SlotOf(n)]
                               /\ b.blk.num = blockNum[n] + 1 /\ b.blk.view = view[n]
            BY FoundFits
        <3>3. \A b \in attached : /\ b \in SignedBlock /\ SlotOf(n) \in DOMAIN bl
                                  /\ b.blk.num = blockNum[n] + 1 /\ b.blk.view = view[n]
            <4> SUFFICES ASSUME NEW b \in found
                         PROVE  LET c == signBlock(n, b) IN
                                /\ c \in SignedBlock /\ SlotOf(n) \in DOMAIN bl
                                /\ c.blk.num = blockNum[n] + 1 /\ c.blk.view = view[n]
                OBVIOUS
            <4>1. b = [blk |-> b.blk, pairs |-> b.pairs] /\ b.blk \in Block /\ b.pairs \subseteq Pair
                BY <3>2 DEF SignedBlock
            <4>2. Hash(b.blk) \in Nat \X Nat \X (Bodies \cup {0})
                BY <4>1 DEF Hash, Block
            <4>3. [by |-> n, of |-> Hash(b.blk)] \in Pair
                BY <4>2 DEF Pair
            <4>4. signBlock(n, b) = b \/
                  signBlock(n, b) = [blk |-> b.blk,
                                     pairs |-> b.pairs \cup {[by |-> n, of |-> Hash(b.blk)]}]
                BY <4>1 DEF signBlock
            <4> QED BY <3>2, <4>1, <4>3, <4>4 DEF SignedBlock
        <3> HIDE DEF prePrepare, found, enough, mine, attached
        <3>4. SoundStore(nb)
            <4>1. CASE attached = {}
                BY <4>1
            <4>2. CASE attached # {}
                <5> DEFINE b == CHOOSE b \in attached : TRUE
                <5>1. b \in attached
                    BY <4>2
                <5>2. /\ b \in SignedBlock /\ SlotOf(n) \in DOMAIN bl
                      /\ b.blk.num = SlotOf(n)[1] /\ b.blk.view = SlotOf(n)[2]
                    BY <3>3, <5>1 DEF SlotOf
                <5>3. nb = [bl EXCEPT ![SlotOf(n)] = b]
                    BY <4>2
                <5> HIDE DEF b, nb
                <5> QED BY <5>2, <5>3 DEF SoundStore
            <4> QED BY <4>1, <4>2
        <3> HIDE DEF nb
        <3>5. m \in SoundMsg
            <4>1. KeyOf(n, "Prepare") \in SoundKey /\ KeyOf(n, "Prepare").num = blockNum[n] + 1
                  /\ KeyOf(n, "Prepare").view = view[n]
                BY <1>00 DEF MsgTypes, KeyOf
            <4> QED BY <3>3, <4>1 DEF SoundMsg, Fits
        <3> HIDE DEF m
        <3>6. MsgType'
            <4>1. OwnType'
                BY <1>0, <2>3, <3>5, InsertTypes
            <4>2. tasks' \in [Node -> Seq(SoundKey)]
                BY <1>0, <2>3, <3>1, TaskTypes
            <4> QED BY <1>0, <1>5, <2>1, <4>1, <4>2
        <3>7. EngineType'
            <4>1. received' \in [Node -> BOOLEAN]
                BY <1>0, <2>3
            <4> QED BY <1>2, <1>6, <2>3, <4>1 DEF States
        <3>8. StoreType'
            BY <1>1, <2>3, <3>4
        <3> QED BY <2>1, <3>6, <3>7, <3>8 DEF TypeInv
    <2> QED BY <1>11, <2>2, <2>3 DEF MigratePrePreparing
<1>12. ASSUME NEW type \in MsgTypes \ {"ViewChange"},
              InsertMsg(n, q, [key |-> KeyOf(n, type), block |-> {}])
       PROVE  OwnType'
    <2>1. [key |-> KeyOf(n, type), block |-> {}] \in SoundMsg
        BY <1>00 DEF SoundMsg, Fits
    <2> QED BY <1>0, <1>12, <2>1, InsertTypes
<1>13. CASE MigratePreparing(n, lg, bl, q)
    <2>1. ChainType' /\ StoreType' /\ UNCHANGED net
        BY <1>1, <1>7, <1>13 DEF MigratePreparing
    <2>2. CASE /\ InsertMsg(n, q, [key |-> KeyOf(n, "Prepare"), block |-> {}])
               /\ Stay /\ UNCHANGED <<received, tasks>>
        <3>1. OwnType'
            BY <1>12, <2>2 DEF MsgTypes
        <3> QED BY <1>0, <1>3, <1>5, <1>6, <2>1, <2>2, <3>1 DEF TypeInv
    <2>3. CASE /\ AddBroadcastTask(n, FindStateMsgBySinger(n, lg, "Prepare", n))
               /\ Leave(n, q) /\ Receive(n, bl)
               /\ ChangeState(n, "Checking") \/ Stay
        <3>1. EngineType'
            BY <1>2, <1>3, <1>6, <1>9, <2>3 DEF States
        <3>2. tasks' \in [Node -> Seq(SoundKey)]
            BY <1>0, <1>8, <2>3, TaskTypes
        <3> QED BY <1>0, <1>4, <1>5, <2>1, <2>3, <3>1, <3>2 DEF TypeInv
    <2> QED BY <1>13, <2>2, <2>3 DEF MigratePreparing
<1>14. CASE MigrateChecking(n, lg, bl, q)
    <2>1. ChainType' /\ StoreType' /\ UNCHANGED <<net, tasks>> /\ received' \in [Node -> BOOLEAN]
        BY <1>1, <1>7, <1>9, <1>14 DEF MigrateChecking
    <2>2. OwnType'
        BY <1>4, <1>12, <1>14 DEF MigrateChecking, MsgTypes
    <2>3. EngineType'
        BY <1>2, <1>3, <1>6, <1>14, <2>1 DEF MigrateChecking, States
    <2> QED BY <1>0, <1>5, <2>1, <2>2, <2>3 DEF TypeInv
<1>15. CASE MigrateCommitting(n, lg, bl, q)
    <2>1. ChainType' /\ StoreType' /\ UNCHANGED <<net, received>>
        BY <1>1, <1>7, <1>15 DEF MigrateCommitting
    <2>2. tasks' \in [Node -> Seq(SoundKey)]
        BY <1>0, <1>8, <1>15, TaskTypes DEF MigrateCommitting
    <2>3. EngineType'
        BY <1>0, <1>2, <1>3, <1>6, <1>15, <2>1 DEF MigrateCommitting, States
    <2> QED BY <1>0, <1>4, <1>5, <1>15, <2>1, <2>2, <2>3 DEF TypeInv, MigrateCommitting
<1>16. CASE MigrateFinished(n, lg, bl, q)
    <2>1. StoreType' /\ UNCHANGED <<net, tasks>>
        BY <1>1, <1>16 DEF MigrateFinished
    <2>2. EngineType'
        <3>1. received' \in [Node -> BOOLEAN]
            BY <1>0, <1>16 DEF MigrateFinished
        <3> QED BY <1>2, <1>6, <1>16, <3>1 DEF MigrateFinished, States
    <2>3. MsgType'
        BY <1>0, <1>4, <1>5, <1>16, <2>1 DEF MigrateFinished
    <2>4. ASSUME NEW b \in FindBlock(n, bl), CommitBlock(n, b) PROVE ChainType'
        <3>1. /\ b \in SignedBlock /\ b.blk.num = blockNum[n] + 1 /\ b.blk.view = view[n]
            BY <2>4, FoundFits
        <3>2. Hash(b.blk) \in Nat \X Nat \X (Bodies \cup {0})
            BY <3>1 DEF SignedBlock, Hash, Block
        <3>3. /\ blockNum' = [blockNum EXCEPT ![n] = @ + 1]
              /\ blockID' = [blockID EXCEPT ![n] = Hash(b.blk)]
              /\ view' = [view EXCEPT ![n] = b.blk.view]
              /\ committed' = [committed EXCEPT ![n] = @ \cup {b}]
              /\ halfExecuted' = halfExecuted
            BY <2>4 DEF CommitBlock
        <3>4. blockNum[n] + 1 \in 0 .. MaxNum /\ blockNum[n] \in Nat
            BY <2>4, BoundAssumption DEF Active, TypeInv, ChainType
        <3>5. ChainType
            BY DEF TypeInv
        <3>6. blockNum' \in [Node -> 0 .. MaxNum] /\ view' \in [Node -> 0 .. MaxView]
            BY <3>1, <3>3, <3>4, <3>5 DEF ChainType
        <3>7. /\ blockID' \in [Node -> Nat \X Nat \X (Bodies \cup {0})]
              /\ committed' \in [Node -> SUBSET SignedBlock]
            BY <3>1, <3>2, <3>3, <3>5 DEF ChainType
        <3>8. ASSUME NEW m \in Node
              PROVE  /\ blockID'[m] \in {GenesisHash} \cup {Hash(c.blk) : c \in committed'[m]}
                     /\ \A c \in committed'[m] : c.blk.view <= MaxView
                     /\ blockNum'[m] # 0 => \E c \in committed'[m] : c.blk.num = blockNum'[m]
            <4>1. CASE m = n
                <5>1. /\ blockID'[m] = Hash(b.blk) /\ b \in committed'[m]
                      /\ committed'[m] = committed[m] \cup {b} /\ blockNum'[m] = b.blk.num
                    BY <3>1, <3>3, <3>5, <4>1 DEF ChainType
                <5> QED BY <1>00, <3>1, <3>5, <5>1, <4>1 DEF ChainType
            <4>2. CASE m # n
                BY <3>3, <3>5, <4>2 DEF ChainType
            <4> QED BY <4>1, <4>2
        <3> QED BY <3>3, <3>5, <3>6, <3>7, <3>8 DEF ChainType
    <2>5. ASSUME NEW h, halfExecuted' = [halfExecuted EXCEPT ![n] = @ \/ h], h \in BOOLEAN,
                 UNCHANGED <<blockNum, blockID, committed, view>>
          PROVE  ChainType'
        BY <2>5 DEF TypeInv, ChainType
    <2> QED BY <1>16, <2>1, <2>2, <2>3, <2>4, <2>5 DEF TypeInv, MigrateFinished
<1>17. CASE MigrateViewChanging(n, lg, bl, q)
    <2>1. StoreType' /\ UNCHANGED <<net, received, chainVars>>
        BY <1>1, <1>17 DEF MigrateViewChanging
    <2>2. tasks' \in [Node -> Seq(SoundKey)]
        BY <1>0, <1>8, <1>17, TaskTypes DEF MigrateViewChanging
    <2>3. MsgType'
        BY <1>0, <1>4, <1>5, <1>17, <2>1, <2>2 DEF MigrateViewChanging
    <2>4. EngineType'
        BY <1>0, <1>2, <1>3, <1>6, <1>17, <2>1 DEF MigrateViewChanging, States
    <2>5. CASE HasQuorum(n, lg, "ViewChange") /\ IncreaseView(n)
        <3>1. PICK e \in lg : e.key.type = "ViewChange" /\ e.key.view = view[n]
            BY <2>5, QuorumHasOne
        <3>2. view[n] < MaxView
            BY <3>1 DEF SoundEntry, SoundKey
        <3>3. view' = [view EXCEPT ![n] = @ + 1] /\ view[n] + 1 \in 0 .. MaxView
            BY <1>00, <2>5, <3>2, BoundAssumption DEF IncreaseView
        <3>4. ChainType'
            BY <2>1, <3>3 DEF TypeInv, ChainType, chainVars
        <3> QED BY <2>1, <2>3, <2>4, <3>4 DEF TypeInv
    <2>6. CASE UNCHANGED view
        BY <1>7, <2>1, <2>3, <2>4, <2>6 DEF TypeInv, chainVars
    <2> QED BY <1>17, <2>5, <2>6 DEF MigrateViewChanging
<1> QED BY <1>10, <1>11, <1>13, <1>14, <1>15, <1>16, <1>17 DEF StateMigrate

LEMMA SentEntry ==
    ASSUME NEW e \in SoundEntry, NEW f, f = [e EXCEPT !.sent = TRUE]
    PROVE  f \in SoundEntry /\ f.key = e.key /\ f.block = e.block
<1>1. e \in [key : SoundKey, block : SUBSET SignedBlock, sent : BOOLEAN] /\ Fits(e)
    BY DEF SoundEntry
<1>2. f.key = e.key /\ f.block = e.block
    BY <1>1
<1>3. f \in [key : SoundKey, block : SUBSET SignedBlock, sent : BOOLEAN]
    BY <1>1
<1> QED BY <1>1, <1>2, <1>3 DEF SoundEntry, Fits

LEMMA HandleTypes ==
    ASSUME TypeInv, NEW n \in Node, Active(n), NEW m \in SoundMsg,
           NEW q \in Seq(SoundMsg), Handle(n, m, q)
    PROVE  TypeInv'
<1>1. CASE /\ queue' = [queue EXCEPT ![n] = q]
           /\ UNCHANGED <<chainVars, view, sm, timer, stopped, mm, tasks, current, net, faults, signed>>
    <2>1. ChainType' /\ EngineType' /\ StoreType'
        BY <1>1 DEF TypeInv, ChainType, EngineType, StoreType, chainVars, sm, mm
    <2>2. MsgType'
        BY <1>1 DEF TypeInv, MsgType, OwnType, mm, signed
    <2> QED BY <2>1, <2>2 DEF TypeInv
<1>2. CASE StateMigrate(n, addMsg(log[n], m), storedBlocks(n, m), q)
    BY <1>2, FilingTypes, MigrateTypes
<1> QED BY <1>1, <1>2 DEF Handle

LEMMA TypeStep == ASSUME TypeInv, [Next]_vars PROVE TypeInv'
<1>0. /\ log \in [Node -> SUBSET SoundEntry] /\ queue \in [Node -> Seq(SoundMsg)] /\ OwnType
      /\ tasks \in [Node -> Seq(SoundKey)] /\ current \in [Node -> SUBSET SoundKey]
      /\ net \subseteq [to : Node, msg : SoundMsg]
      /\ state \in [Node -> States] /\ received \in [Node -> BOOLEAN]
      /\ timer \in [Node -> BOOLEAN] /\ stopped \in [Node -> BOOLEAN]
      /\ faults \in 0 .. MaxFaults
    BY DEF TypeInv, MsgType, OwnType, EngineType
<1>1. ASSUME UNCHANGED <<chainVars, view>> PROVE ChainType'
    BY <1>1 DEF TypeInv, ChainType, chainVars
<1>2. ASSUME UNCHANGED blocks PROVE StoreType'
    BY <1>2 DEF TypeInv, StoreType
<1>3. ASSUME UNCHANGED <<sm, timer, stopped, faults>> PROVE EngineType'
    BY <1>3 DEF TypeInv, EngineType, sm
<1>4. CASE UNCHANGED vars
    <2>1. MsgType'
        BY <1>0, <1>4 DEF vars, mm, MsgType, OwnType, signed
    <2> QED BY <1>1, <1>2, <1>3, <1>4, <2>1 DEF vars, mm, sm, TypeInv
<1>5. ASSUME NEW n \in Node, HandleOwn(n) PROVE TypeInv'
    <2>1. /\ Active(n) /\ Handle(n, Head(queue[n]), Tail(queue[n]))
          /\ Head(queue[n]) \in SoundMsg /\ Tail(queue[n]) \in Seq(SoundMsg)
        BY <1>0, <1>5, HeadAndTail DEF HandleOwn
    <2> QED BY <2>1, HandleTypes
<1>6. ASSUME NEW n \in Node, HandleNet(n) PROVE TypeInv'
    <2>1. PICK c \in net : Handle(n, c.msg, queue[n])
        BY <1>6 DEF HandleNet
    <2>2. Active(n) /\ c.msg \in SoundMsg /\ queue[n] \in Seq(SoundMsg)
        BY <1>0, <1>6 DEF HandleNet
    <2> QED BY <2>1, <2>2, HandleTypes
<1>7. ASSUME NEW n \in Node, Poll(n) PROVE TypeInv'
    <2>1. /\ Active(n) /\ StateMigrate(n, log[n], blocks[n], queue[n])
          /\ log[n] \in SUBSET SoundEntry /\ SoundStore(blocks[n]) /\ queue[n] \in Seq(SoundMsg)
        BY <1>0, <1>7 DEF Poll, TypeInv, StoreType
    <2> QED BY <2>1, MigrateTypes
<1>8. ASSUME NEW n \in Node, NEW type \in MsgTypes, type = "ViewChange" => view[n] < MaxView,
             InsertMsg(n, queue[n], [key |-> KeyOf(n, type), block |-> {}])
      PROVE  /\ OwnType'
             /\ [key |-> KeyOf(n, type), block |-> {}] \in SoundMsg
    <2>1. [key |-> KeyOf(n, type), block |-> {}] \in SoundMsg
        BY <1>8, OwnKeys DEF SoundMsg, Fits
    <2> QED BY <1>0, <1>8, <2>1, InsertTypes
<1>9. ASSUME NEW n \in Node, Timeout(n) PROVE TypeInv'
    <2>1. ChainType' /\ StoreType'
        BY <1>1, <1>2, <1>9 DEF Timeout, mm
    <2>2. EngineType'
        BY <1>0, <1>9 DEF Timeout, EngineType, States
    <2>3. OwnType'
        BY <1>0, <1>8, <1>9 DEF Timeout, MsgTypes, OwnType, signed
    <2>4. MsgType'
        BY <1>0, <1>9, <2>3 DEF Timeout, MsgType, OwnType, mm
    <2> QED BY <2>1, <2>2, <2>4 DEF TypeInv
<1>10. ASSUME NEW n \in Node, TryProposal(n) PROVE TypeInv'
    <2> DEFINE m == [key |-> KeyOf(n, "NewBlockProposal"), block |-> {}]
    <2>1. ChainType' /\ StoreType' /\ EngineType'
        BY <1>1, <1>2, <1>3, <1>10 DEF TryProposal, mm
    <2>2. OwnType' /\ m \in SoundMsg /\ net' = net \cup Copies(n, m)
        BY <1>8, <1>10 DEF TryProposal, MsgTypes
    <2> HIDE DEF m
    <2>3. net' \subseteq [to : Node, msg : SoundMsg]
        BY <1>0, <2>2 DEF Copies
    <2>4. MsgType'
        BY <1>0, <1>10, <2>2, <2>3 DEF TryProposal, MsgType, OwnType, mm
    <2> QED BY <2>1, <2>4 DEF TypeInv
<1>11. ASSUME NEW n \in Node, Broadcast(n) PROVE TypeInv'
    <2>1. ChainType' /\ StoreType' /\ EngineType'
        BY <1>1, <1>2, <1>3, <1>11 DEF Broadcast
    <2>2. tasks' \in [Node -> Seq(SoundKey)] /\ UNCHANGED <<queue, signed>>
        <3>1. Tail(tasks[n]) \in Seq(SoundKey)
            BY <1>0, <1>11, HeadAndTail DEF Broadcast
        <3> QED BY <1>0, <1>11, <3>1 DEF Broadcast
    <2>3. CASE UNCHANGED <<log, current, net>>
        BY <1>0, <2>1, <2>2, <2>3 DEF TypeInv, MsgType, OwnType, signed
    <2>4. ASSUME NEW e \in log[n], NEW b \in Payloads(n, e),
                 log' = [log EXCEPT ![n] = (@ \ {e}) \cup {[e EXCEPT !.sent = TRUE]}],
                 net' = net \cup Copies(n, [key |-> e.key, block |-> b]),
                 current' = [current EXCEPT ![n] =
                                IF e.key.type = "ViewChange" THEN {e.key} ELSE {}]
          PROVE  TypeInv'
        <3>1. e \in SoundEntry
            BY <1>0
        <3>2. e.key \in SoundKey /\ e.block \in SUBSET SignedBlock /\ Fits(e)
            BY <3>1 DEF SoundEntry
        <3>3. [e EXCEPT !.sent = TRUE] \in SoundEntry
            BY <3>1, SentEntry
        <3>4. b = e.block \/ \E s \in DOMAIN blocks[n] : s = <<e.key.num, e.key.view>> /\ b = {blocks[n][s]}
            BY DEF Payloads
        <3>5. SoundStore(blocks[n])
            BY DEF TypeInv, StoreType
        <3>6. [key |-> e.key, block |-> b] \in SoundMsg
            <4>1. CASE b = e.block
                BY <3>2, <4>1 DEF SoundMsg, Fits
            <4>2. ASSUME NEW s \in DOMAIN blocks[n], s = <<e.key.num, e.key.view>>, b = {blocks[n][s]}
                  PROVE  [key |-> e.key, block |-> b] \in SoundMsg
                <5>1. /\ blocks[n][s] \in SignedBlock
                      /\ blocks[n][s].blk.num = e.key.num /\ blocks[n][s].blk.view = e.key.view
                    BY <3>5, <4>2 DEF SoundStore
                <5> QED BY <3>2, <4>2, <5>1 DEF SoundMsg, Fits
            <4> QED BY <3>4, <4>1, <4>2
        <3> DEFINE m == [key |-> e.key, block |-> b]
                   f == [e EXCEPT !.sent = TRUE]
        <3>7. log' \in [Node -> SUBSET SoundEntry]
            <4> HIDE DEF f
            <4>1. log' = [log EXCEPT ![n] = (@ \ {e}) \cup {f}] /\ f \in SoundEntry
                BY <2>4, <3>3 DEF f
            <4> QED BY <1>0, <4>1
        <3>8. net' \subseteq [to : Node, msg : SoundMsg]
            <4> HIDE DEF m
            <4>1. net' = net \cup Copies(n, m) /\ m \in SoundMsg
                BY <2>4, <3>6 DEF m
            <4> QED BY <1>0, <4>1 DEF Copies
        <3>9. current' \in [Node -> SUBSET SoundKey]
            BY <1>0, <2>4, <3>2
        <3> QED BY <1>0, <2>1, <2>2, <3>7, <3>8, <3>9 DEF TypeInv, MsgType, OwnType, signed
    <2> QED BY <1>11, <2>3, <2>4 DEF Broadcast
<1>12. ASSUME NEW n \in Node, Rebroadcast(n) PROVE TypeInv'
    <2>1. ChainType' /\ StoreType' /\ EngineType'
        BY <1>1, <1>2, <1>3, <1>12 DEF Rebroadcast, mm
    <2>2. PICK k \in current[n] : net' = net \cup Copies(n, [key |-> k, block |-> {}])
        BY <1>12 DEF Rebroadcast
    <2> DEFINE m == [key |-> k, block |-> {}]
    <2>3. m \in SoundMsg
        BY <1>0 DEF SoundMsg, Fits
    <2> HIDE DEF m
    <2>4. net' \subseteq [to : Node, msg : SoundMsg]
        <3>1. net' = net \cup Copies(n, m)
            BY <2>2 DEF m
        <3> QED BY <1>0, <2>3, <3>1 DEF Copies
    <2>5. MsgType'
        BY <1>0, <1>12, <2>4 DEF Rebroadcast, MsgType, OwnType, mm, signed
    <2> QED BY <2>1, <2>5 DEF TypeInv
<1>13. ASSUME NEW n \in Node, Stop(n) PROVE TypeInv'
    <2>1. ChainType' /\ StoreType'
        BY <1>1, <1>2, <1>13 DEF Stop, mm
    <2>2. EngineType'
        BY <1>0, <1>13, BoundAssumption DEF Stop, EngineType, States, ChangeState
    <2>3. MsgType'
        BY <1>0, <1>13 DEF Stop, MsgType, OwnType, mm, signed
    <2> QED BY <2>1, <2>2, <2>3 DEF TypeInv
<1>14. ASSUME NEW n \in Node, Start(n) PROVE TypeInv'
    <2>1. ChainType' /\ StoreType'
        BY <1>1, <1>2, <1>14 DEF Start, mm
    <2>2. EngineType'
        BY <1>0, <1>14 DEF Start, EngineType, sm
    <2>3. MsgType'
        BY <1>0, <1>14 DEF Start, MsgType, OwnType, mm, signed
    <2> QED BY <2>1, <2>2, <2>3 DEF TypeInv
<1>15. ASSUME NEW n \in Node, Restart(n) PROVE TypeInv'
    <2> DEFINE Views == {c.blk.view : c \in {d \in committed[n] : d.blk.num = blockNum[n]}}
               v == IF blockNum[n] = 0 THEN 0 ELSE CHOOSE w \in Views : TRUE
    <2>1. view' = [view EXCEPT ![n] = v] /\ UNCHANGED <<blockNum, blockID, committed, halfExecuted, net>>
        BY <1>15 DEF Restart, chainVars
    <2>2. v \in 0 .. MaxView
        <3>1. CASE blockNum[n] = 0
            BY <3>1, BoundAssumption
        <3>2. CASE blockNum[n] # 0
            <4>1. Views # {}
                <5>1. PICK c \in committed[n] : c.blk.num = blockNum[n]
                    BY <3>2 DEF TypeInv, ChainType
                <5>2. c.blk.view \in Views
                    BY <5>1
                <5> QED BY <5>2
            <4>2. Views \subseteq 0 .. MaxView
                BY BoundAssumption DEF TypeInv, ChainType, SignedBlock, Block
            <4> HIDE DEF Views
            <4>3. (CHOOSE w \in Views : TRUE) \in Views
                BY <4>1
            <4> QED BY <3>2, <4>2, <4>3
        <3> QED BY <3>1, <3>2
    <2> HIDE DEF v
    <2>3. ChainType'
        BY <2>1, <2>2 DEF TypeInv, ChainType, chainVars
    <2>4. StoreType'
        <3>1. SoundStore(<<>>)
            BY NothingIn DEF SoundStore
        <3>2. /\ blocks' = [blocks EXCEPT ![n] = <<>>]
              /\ blocks = [m \in Node |-> blocks[m]] /\ \A m \in Node : SoundStore(blocks[m])
            BY <1>15 DEF Restart, TypeInv, StoreType
        <3>3. blocks' = [m \in Node |-> IF m = n THEN <<>> ELSE blocks[m]]
            BY <3>2
        <3> QED BY <3>1, <3>2, <3>3 DEF StoreType
    <2>5. EngineType'
        BY <1>0, <1>15, BoundAssumption DEF Restart, EngineType, States
    <2>6. MsgType'
        <3>1. <<>> \in Seq(SoundMsg) /\ <<>> \in Seq(SoundKey)
            BY NothingIn
        <3> QED BY <1>0, <1>15, <2>1, <3>1 DEF Restart, MsgType, OwnType, signed
    <2> QED BY <2>3, <2>4, <2>5, <2>6 DEF TypeInv
<1> QED
    BY <1>4, <1>5, <1>6, <1>7, <1>9, <1>10, <1>11, <1>12, <1>13, <1>14, <1>15 DEF Next, Step

\* The queues, logs, stores and timers of the engine keep their types through
\* any interleaving, stops and restarts included; in particular no view beyond
\* the last one a timer may give up is ever entered (states.go:372-374).
THEOREM TypeCorrect == Spec => []TypeOK
BY InitTypes, TypeStep, TypeInvGivesType, PTL DEF Spec

(***************************************************************************)
(* A replica's own vote.  Committing and ViewChanging wait for a vote they *)
(* do not cast; a timer runs in every state from which ViewChanging may be *)
(* entered without one.                                                    *)
(***************************************************************************)

KeysOf(S) == {m.key : m \in S}

Vote(n) ==
    /\ state[n] = "Committing"
          => KeyOf(n, "Commit") \in KeysOf(log[n]) \cup KeysOf(ToSet(queue[n]))
    /\ state[n] = "ViewChanging"
          => \/ KeyOf(n, "ViewChange") \in KeysOf(log[n]) \cup KeysOf(ToSet(queue[n]))
             \/ timer[n]
    /\ state[n] \notin {"NotStarted", "ViewChanging"} => timer[n]
    /\ stopped[n] => state[n] = "NotStarted"
    \* a vote carries no block, so its sender cannot refuse it
    /\ \A m \in ToSet(queue[n]) : m.key.type \in {"Commit", "ViewChange"} => m.block = {}

VoteInv == \A n \in Node : Vote(n)

\* A message that is filed is one of the log's, with all that were there.
LEMMA Filed ==
    ASSUME NEW lg, NEW m
    PROVE  /\ KeysOf(addMsg(lg, m)) = KeysOf(lg) \cup {m.key}
           /\ \A e \in addMsg(lg, m) : e \in lg \/ (e.key = m.key /\ e.block = m.block)
           /\ \A e \in lg : e \in addMsg(lg, m)
<1>1. CASE \E e \in lg : e.key = m.key
    <2>1. addMsg(lg, m) = lg
        BY <1>1 DEF addMsg
    <2> QED BY <1>1, <2>1 DEF KeysOf
<1>2. CASE ~ (\E e \in lg : e.key = m.key)
    <2> DEFINE f == [key |-> m.key, block |-> m.block, sent |-> FALSE]
    <2>1. addMsg(lg, m) = lg \cup {f}
        BY <1>2 DEF addMsg
    <2>2. f.key = m.key /\ f.block = m.block
        OBVIOUS
    <2> HIDE DEF f
    <2>3. KeysOf(lg \cup {f}) = KeysOf(lg) \cup {f.key}
        BY DEF KeysOf
    <2> QED BY <2>1, <2>2, <2>3
<1> QED BY <1>1, <1>2

\* What InsertMsg and Leave make of the queue.
LEMMA Inserted ==
    ASSUME queue \in [Node -> Seq(SoundMsg)], NEW n \in Node, NEW q \in Seq(SoundMsg),
           NEW m \in SoundMsg, InsertMsg(n, q, m)
    PROVE  /\ KeysOf(ToSet(queue'[n])) = KeysOf(ToSet(q)) \cup {m.key}
           /\ ToSet(q) \subseteq ToSet(queue'[n])
           /\ ToSet(queue'[n]) \subseteq ToSet(q) \cup {m}
           /\ m.key \notin KeysOf(ToSet(q)) => m \in ToSet(queue'[n])
           /\ queue'[n] = q \/ queue'[n] = Append(q, m)
           /\ m.key \in KeysOf(ToSet(q)) => queue'[n] = q
           /\ \A p \in Node : p # n => queue'[p] = queue[p]
<1>1. queue' = [queue EXCEPT ![n] =
                  IF m.key \in KeysOf(ToSet(q)) THEN q ELSE Append(q, m)]
    BY DEF InsertMsg, KeysOf
<1>2. ToSet(Append(q, m)) = ToSet(q) \cup {m}
    BY Appended
<1>3. \A p \in Node : p # n => queue'[p] = queue[p]
    BY <1>1
<1>4. CASE m.key \in KeysOf(ToSet(q))
    <2>1. queue'[n] = q
        BY <1>1, <1>4
    <2> QED BY <1>3, <1>4, <2>1
<1>5. CASE m.key \notin KeysOf(ToSet(q))
    <2>1. queue'[n] = Append(q, m)
        BY <1>1, <1>5
    <2>2. KeysOf(ToSet(q) \cup {m}) = KeysOf(ToSet(q)) \cup {m.key}
        BY DEF KeysOf
    <2> QED BY <1>2, <1>3, <1>5, <2>1, <2>2
<1> QED BY <1>4, <1>5

\* A step leaves every other replica's own state alone.
Alone(p) ==
    /\ blockNum'[p] = blockNum[p] /\ view'[p] = view[p] /\ blockID'[p] = blockID[p]
    /\ committed'[p] = committed[p]
    /\ state'[p] = state[p] /\ received'[p] = received[p] /\ timer'[p] = timer[p]
    /\ stopped'[p] = stopped[p]
    /\ log'[p] = log[p] /\ blocks'[p] = blocks[p]
    /\ queue'[p] = queue[p] /\ tasks'[p] = tasks[p] /\ current'[p] = current[p]

LEMMA OthersAlone ==
    ASSUME TypeInv, NEW n \in Node, Step(n), NEW p \in Node, p # n
    PROVE  Alone(p)
<1>0. /\ blockNum \in [Node -> 0 .. MaxNum] /\ view \in [Node -> 0 .. MaxView]
      /\ blockID \in [Node -> Nat \X Nat \X (Bodies \cup {0})]
      /\ committed \in [Node -> SUBSET SignedBlock]
      /\ log \in [Node -> SUBSET SoundEntry] /\ queue \in [Node -> Seq(SoundMsg)]
      /\ tasks \in [Node -> Seq(SoundKey)] /\ current \in [Node -> SUBSET SoundKey]
      /\ state \in [Node -> States] /\ received \in [Node -> BOOLEAN]
      /\ timer \in [Node -> BOOLEAN] /\ stopped \in [Node -> BOOLEAN]
      /\ blocks = [m \in Node |-> blocks[m]]
    BY DEF TypeInv, ChainType, StoreType, MsgType, OwnType, EngineType
<1>1. ASSUME NEW q, NEW m, InsertMsg(n, q, m) PROVE queue'[p] = queue[p]
    BY <1>0, <1>1 DEF InsertMsg
<1>2. ASSUME NEW q, Leave(n, q) PROVE queue'[p] = queue[p]
    BY <1>0, <1>2 DEF Leave
<1>3. ASSUME NEW entries, AddBroadcastTask(n, entries) PROVE tasks'[p] = tasks[p]
    BY <1>0, <1>3 DEF AddBroadcastTask
<1>4. ASSUME NEW s, ChangeState(n, s) PROVE state'[p] = state[p] /\ timer'[p] = timer[p]
    BY <1>0, <1>4 DEF ChangeState
<1>5. ASSUME NEW bl, Receive(n, bl) PROVE received'[p] = received[p]
    BY <1>0, <1>5 DEF Receive
<1>6. ASSUME NEW bl, blocks' = [blocks EXCEPT ![n] = bl] PROVE blocks'[p] = blocks[p]
    BY <1>0, <1>6
<1>7. ASSUME NEW b, CommitBlock(n, b)
      PROVE  /\ blockNum'[p] = blockNum[p] /\ view'[p] = view[p] /\ blockID'[p] = blockID[p]
             /\ committed'[p] = committed[p]
    BY <1>0, <1>7 DEF CommitBlock
<1>8. ASSUME NEW lg, NEW bl, NEW q, StateMigrate(n, lg, bl, q) PROVE Alone(p)
    <2> USE DEF Alone, chainVars
    <2>1. log'[p] = log[p] /\ UNCHANGED <<stopped, current>>
        BY <1>0, <1>8 DEF StateMigrate
    <2>2. CASE MigrateNotStarted(n, lg, bl, q)
        <3>1. blocks'[p] = blocks[p] /\ UNCHANGED <<chainVars, view, received, tasks>>
            BY <1>6, <2>2 DEF MigrateNotStarted
        <3>2. queue'[p] = queue[p]
            BY <1>1, <1>2, <2>2 DEF MigrateNotStarted
        <3>3. state'[p] = state[p] /\ timer'[p] = timer[p]
            BY <1>4, <2>2 DEF MigrateNotStarted, Stay
        <3> QED BY <2>1, <3>1, <3>2, <3>3
    <2>3. CASE MigratePrePreparing(n, lg, bl, q)
        <3>1. blocks'[p] = blocks[p] /\ UNCHANGED <<chainVars, view>>
            BY <1>6, <2>3 DEF MigratePrePreparing
        <3>2. queue'[p] = queue[p]
            BY <1>1, <1>2, <2>3 DEF MigratePrePreparing
        <3>3. state'[p] = state[p] /\ timer'[p] = timer[p]
            BY <1>4, <2>3 DEF MigratePrePreparing, Stay
        <3>4. tasks'[p] = tasks[p]
            BY <1>3, <2>3 DEF MigratePrePreparing
        <3>5. received'[p] = received[p]
            BY <1>0, <2>3 DEF MigratePrePreparing
        <3> QED BY <2>1, <3>1, <3>2, <3>3, <3>4, <3>5
    <2>4. CASE MigratePreparing(n, lg, bl, q)
        <3>1. blocks'[p] = blocks[p] /\ UNCHANGED <<chainVars, view>>
            BY <1>6, <2>4 DEF MigratePreparing
        <3>2. queue'[p] = queue[p]
            BY <1>1, <1>2, <2>4 DEF MigratePreparing
        <3>3. state'[p] = state[p] /\ timer'[p] = timer[p]
            BY <1>4, <2>4 DEF MigratePreparing, Stay
        <3>4. tasks'[p] = tasks[p]
            BY <1>3, <2>4 DEF MigratePreparing
        <3>5. received'[p] = received[p]
            BY <1>5, <2>4 DEF MigratePreparing
        <3> QED BY <2>1, <3>1, <3>2, <3>3, <3>4, <3>5
    <2>5. CASE MigrateChecking(n, lg, bl, q)
        <3>1. blocks'[p] = blocks[p] /\ UNCHANGED <<chainVars, view, tasks>>
            BY <1>6, <2>5 DEF MigrateChecking
        <3>2. queue'[p] = queue[p]
            BY <1>1, <1>2, <2>5 DEF MigrateChecking
        <3>3. state'[p] = state[p] /\ timer'[p] = timer[p]
            BY <1>4, <2>5 DEF MigrateChecking, Stay
        <3>4. received'[p] = received[p]
            BY <1>5, <2>5 DEF MigrateChecking
        <3> QED BY <2>1, <3>1, <3>2, <3>3, <3>4
    <2>6. CASE MigrateCommitting(n, lg, bl, q)
        <3>1. blocks'[p] = blocks[p] /\ UNCHANGED <<chainVars, view, received>>
            BY <1>6, <2>6 DEF MigrateCommitting
        <3>2. queue'[p] = queue[p] /\ tasks'[p] = tasks[p]
            BY <1>2, <1>3, <2>6 DEF MigrateCommitting
        <3>3. state'[p] = state[p] /\ timer'[p] = timer[p]
            BY <1>4, <2>6 DEF MigrateCommitting, Stay
        <3> QED BY <2>1, <3>1, <3>2, <3>3
    <2>7. CASE MigrateFinished(n, lg, bl, q)
        <3>1. blocks'[p] = blocks[p] /\ UNCHANGED tasks
            BY <1>6, <2>7 DEF MigrateFinished
        <3>2. queue'[p] = queue[p] /\ received'[p] = received[p]
            BY <1>0, <1>2, <2>7 DEF MigrateFinished
        <3>3. /\ state'[p] = state[p] /\ timer'[p] = timer[p]
              /\ blockNum'[p] = blockNum[p] /\ view'[p] = view[p]
              /\ blockID'[p] = blockID[p] /\ committed'[p] = committed[p]
            BY <1>4, <1>7, <2>7 DEF MigrateFinished
        <3> QED BY <2>1, <3>1, <3>2, <3>3
    <2>8. CASE MigrateViewChanging(n, lg, bl, q)
        <3>1. blocks'[p] = blocks[p] /\ UNCHANGED <<chainVars, received>>
            BY <1>6, <2>8 DEF MigrateViewChanging
        <3>2. queue'[p] = queue[p] /\ tasks'[p] = tasks[p]
            BY <1>2, <1>3, <2>8 DEF MigrateViewChanging
        <3>3. state'[p] = state[p] /\ timer'[p] = timer[p] /\ view'[p] = view[p]
            BY <1>0, <1>4, <2>8 DEF MigrateViewChanging, Stay, IncreaseView
        <3> QED BY <2>1, <3>1, <3>2, <3>3
    <2> QED BY <1>8, <2>2, <2>3, <2>4, <2>5, <2>6, <2>7, <2>8 DEF StateMigrate
<1>9. ASSUME NEW m, NEW q, Handle(n, m, q) PROVE Alone(p)
    <2>1. CASE StateMigrate(n, addMsg(log[n], m), storedBlocks(n, m), q)
        BY <1>8, <2>1
    <2>2. CASE /\ queue' = [queue EXCEPT ![n] = q]
               /\ UNCHANGED <<chainVars, view, sm, timer, stopped, mm, tasks, current, net, faults, signed>>
        BY <1>0, <2>2 DEF Alone, chainVars, sm, mm
    <2> QED BY <1>9, <2>1, <2>2 DEF Handle
<1>10. CASE HandleOwn(n)
    BY <1>9, <1>10 DEF HandleOwn
<1>11. CASE HandleNet(n)
    BY <1>9, <1>11 DEF HandleNet
<1>12. CASE Poll(n)
    BY <1>8, <1>12 DEF Poll
<1>13. CASE Timeout(n)
    <2>1. queue'[p] = queue[p]
        BY <1>1, <1>13 DEF Timeout
    <2> QED BY <1>0, <1>13, <2>1 DEF Timeout, Alone, chainVars, sm, mm
<1>14. CASE TryProposal(n)
    <2>1. queue'[p] = queue[p]
        BY <1>1, <1>14 DEF TryProposal
    <2> QED BY <1>14, <2>1 DEF TryProposal, Alone, chainVars, sm, mm
<1>15. CASE Broadcast(n)
    BY <1>0, <1>15 DEF Broadcast, Alone, chainVars, sm
<1>16. CASE Rebroadcast(n)
    BY <1>16 DEF Rebroadcast, Alone, chainVars, sm, mm
<1>17. CASE Stop(n)
    BY <1>0, <1>4, <1>17 DEF Stop, Alone, chainVars, mm
<1>18. CASE Start(n)
    BY <1>0, <1>18 DEF Start, Alone, chainVars, sm, mm
<1>19. CASE Restart(n)
    BY <1>0, <1>19 DEF Restart, Alone, chainVars
<1> QED
    BY <1>10, <1>11, <1>12, <1>13, <1>14, <1>15, <1>16, <1>17, <1>18, <1>19 DEF Step

\* The state machine casts the vote it then waits for, and loses none.
LEMMA MigrateVote ==
    ASSUME TypeInv, NEW n \in Node, Vote(n), ~ stopped[n],
           NEW lg \in SUBSET SoundEntry, NEW bl, NEW q \in Seq(SoundMsg),
           KeysOf(log[n]) \cup KeysOf(ToSet(queue[n])) \subseteq KeysOf(lg) \cup KeysOf(ToSet(q)),
           ToSet(q) \subseteq ToSet(queue[n]),
           StateMigrate(n, lg, bl, q)
    PROVE  Vote(n)'
<1>0. /\ log \in [Node -> SUBSET SoundEntry] /\ queue \in [Node -> Seq(SoundMsg)]
      /\ state \in [Node -> States] /\ timer \in [Node -> BOOLEAN]
      /\ log'[n] = lg /\ stopped' = stopped
    BY DEF TypeInv, MsgType, OwnType, EngineType, StateMigrate
<1>1. ASSUME NEW s, ChangeState(n, s)
      PROVE  /\ state'[n] = s
             /\ timer'[n] = IF s = "ViewChanging" THEN timer[n] ELSE s # "NotStarted"
    BY <1>0, <1>1 DEF ChangeState
<1>2. ASSUME Stay PROVE state'[n] = state[n] /\ timer'[n] = timer[n]
    BY <1>2 DEF Stay
<1>3. ASSUME Leave(n, q) PROVE queue'[n] = q
    BY <1>0, <1>3 DEF Leave
<1>4. ASSUME NEW type \in MsgTypes \ {"ViewChange"}, NEW b, b \in SUBSET SignedBlock,
             \A c \in b : c.blk.num = blockNum[n] + 1 /\ c.blk.view = view[n],
             InsertMsg(n, q, [key |-> KeyOf(n, type), block |-> b])
      PROVE  /\ KeyOf(n, type) \in KeysOf(ToSet(queue'[n]))
             /\ \A k \in KeysOf(ToSet(q)) : k \in KeysOf(ToSet(queue'[n]))
             /\ ToSet(queue'[n]) \subseteq ToSet(q) \cup {[key |-> KeyOf(n, type), block |-> b]}
    <2> DEFINE m == [key |-> KeyOf(n, type), block |-> b]
    <2>1. m \in SoundMsg /\ m.key = KeyOf(n, type)
        BY <1>4, OwnKeys DEF SoundMsg, Fits, KeyOf
    <2> HIDE DEF m
    <2>2. /\ KeysOf(ToSet(queue'[n])) = KeysOf(ToSet(q)) \cup {m.key}
          /\ ToSet(queue'[n]) \subseteq ToSet(q) \cup {m}
        BY <1>0, <1>4, <2>1, Inserted DEF m
    <2> QED BY <2>1, <2>2 DEF m
<1>5. \A m \in ToSet(q) : m.key.type \in {"Commit", "ViewChange"} => m.block = {}
    BY DEF Vote
<1>6. ASSUME UNCHANGED <<blockNum, view>>, queue'[n] = q,
             state'[n] = state[n], timer'[n] = timer[n]
      PROVE  Vote(n)'
    BY <1>0, <1>5, <1>6 DEF Vote, KeyOf
<1>7. ASSUME queue'[n] = q, state'[n] = "NotStarted" PROVE Vote(n)'
    BY <1>0, <1>5, <1>7 DEF Vote
<1>8. ASSUME NEW s \in States \ {"Committing", "ViewChanging", "NotStarted"}, ChangeState(n, s),
             \A m \in ToSet(queue'[n]) : m.key.type \in {"Commit", "ViewChange"} => m.block = {}
      PROVE  Vote(n)'
    BY <1>0, <1>1, <1>8 DEF Vote
<1>9. CASE MigrateNotStarted(n, lg, bl, q)
    <2>0. UNCHANGED <<blockNum, view>>
        BY <1>9 DEF MigrateNotStarted, chainVars
    <2>1. CASE Stay /\ Leave(n, q)
        BY <1>2, <1>3, <1>6, <2>0, <2>1
    <2>2. CASE ChangeState(n, "PrePreparing") /\ Leave(n, q)
        BY <1>3, <1>5, <1>8, <2>2 DEF States
    <2>3. ASSUME NEW body \in Bodies, ChangeState(n, "Preparing"),
                 InsertMsg(n, q, [key |-> KeyOf(n, "PrePrepare"),
                                  block |-> {[blk |-> packageBlock(n, body), pairs |-> {}]}])
          PROVE  Vote(n)'
        <3>1. /\ packageBlock(n, body) \in Block
              /\ packageBlock(n, body).num = blockNum[n] + 1
              /\ packageBlock(n, body).view = view[n]
            <4>1. blockNum[n] + 1 \in Nat /\ view[n] \in Nat
                  /\ blockID[n] \in Nat \X Nat \X (Bodies \cup {0})
                BY BoundAssumption DEF TypeInv, ChainType
            <4> QED BY <4>1 DEF packageBlock, Block
        <3> DEFINE b == {[blk |-> packageBlock(n, body), pairs |-> {}]}
        <3>2. b \in SUBSET SignedBlock /\ \A c \in b : c.blk.num = blockNum[n] + 1 /\ c.blk.view = view[n]
            BY <3>1 DEF SignedBlock
        <3> HIDE DEF b
        <3>3. ToSet(queue'[n]) \subseteq ToSet(q) \cup {[key |-> KeyOf(n, "PrePrepare"), block |-> b]}
            BY <1>4, <2>3, <3>2 DEF b, MsgTypes
        <3>4. \A m \in ToSet(queue'[n]) : m.key.type \in {"Commit", "ViewChange"} => m.block = {}
            BY <1>5, <3>3 DEF KeyOf
        <3> QED BY <1>8, <2>3, <3>4 DEF States
    <2> QED BY <1>9, <2>1, <2>2, <2>3 DEF MigrateNotStarted
<1>10. CASE MigratePrePreparing(n, lg, bl, q)
    <2>0. UNCHANGED <<blockNum, view>>
        BY <1>10 DEF MigratePrePreparing, chainVars
    <2>1. CASE Stay /\ Leave(n, q)
        BY <1>2, <1>3, <1>6, <2>0, <2>1
    <2>2. ASSUME NEW b, InsertMsg(n, q, [key |-> KeyOf(n, "Prepare"), block |-> b]),
                 ChangeState(n, "Preparing")
          PROVE  Vote(n)'
        <3>1. \/ queue'[n] = q
              \/ queue'[n] = Append(q, [key |-> KeyOf(n, "Prepare"), block |-> b])
            BY <1>0, <2>2 DEF InsertMsg
        <3>2. ToSet(queue'[n]) \subseteq ToSet(q) \cup {[key |-> KeyOf(n, "Prepare"), block |-> b]}
            <4> DEFINE m == [key |-> KeyOf(n, "Prepare"), block |-> b]
            <4> HIDE DEF m
            <4>1. q \in Seq(SoundMsg \cup {m})
                BY SeqMonotonic
            <4>2. ToSet(Append(q, m)) = ToSet(q) \cup {m}
                BY <4>1, Appended
            <4> QED BY <3>1, <4>2 DEF m
        <3>3. \A m \in ToSet(queue'[n]) : m.key.type \in {"Commit", "ViewChange"} => m.block = {}
            BY <1>5, <3>2 DEF KeyOf
        <3> QED BY <1>8, <2>2, <3>3 DEF States
    <2> QED BY <1>10, <2>1, <2>2 DEF MigratePrePreparing
<1>11. ASSUME NEW type \in {"Prepare", "Commit"},
              InsertMsg(n, q, [key |-> KeyOf(n, type), block |-> {}])
       PROVE  /\ KeyOf(n, type) \in KeysOf(ToSet(queue'[n]))
              /\ \A k \in KeysOf(ToSet(q)) : k \in KeysOf(ToSet(queue'[n]))
              /\ \A m \in ToSet(queue'[n]) : m.key.type \in {"Commit", "ViewChange"} => m.block = {}
    <2>1. /\ KeyOf(n, type) \in KeysOf(ToSet(queue'[n]))
          /\ \A k \in KeysOf(ToSet(q)) : k \in KeysOf(ToSet(queue'[n]))
          /\ ToSet(queue'[n]) \subseteq ToSet(q) \cup {[key |-> KeyOf(n, type), block |-> {}]}
        BY <1>4, <1>11 DEF MsgTypes
    <2> QED BY <1>5, <2>1
<1>12. CASE MigratePreparing(n, lg, bl, q)
    <2>0. UNCHANGED <<blockNum, view>> /\ state[n] = "Preparing"
        BY <1>12 DEF MigratePreparing, chainVars
    <2>1. CASE Stay /\ InsertMsg(n, q, [key |-> KeyOf(n, "Prepare"), block |-> {}])
        <3>1. \A m \in ToSet(queue'[n]) : m.key.type \in {"Commit", "ViewChange"} => m.block = {}
            BY <1>11, <2>1
        <3> QED BY <1>0, <1>2, <2>0, <2>1, <3>1 DEF Vote
    <2>2. CASE Leave(n, q) /\ Stay
        BY <1>2, <1>3, <1>6, <2>0, <2>2
    <2>3. CASE Leave(n, q) /\ ChangeState(n, "Checking")
        BY <1>3, <1>5, <1>8, <2>3 DEF States
    <2> QED BY <1>12, <2>1, <2>2, <2>3 DEF MigratePreparing
<1>13. CASE MigrateChecking(n, lg, bl, q)
    <2>0. UNCHANGED <<blockNum, view>>
        BY <1>13 DEF MigrateChecking, chainVars
    <2>1. CASE Leave(n, q) /\ Stay
        BY <1>2, <1>3, <1>6, <2>0, <2>1
    <2>2. CASE ChangeState(n, "Committing") /\ InsertMsg(n, q, [key |-> KeyOf(n, "Commit"), block |-> {}])
        <3>1. /\ KeyOf(n, "Commit") \in KeysOf(ToSet(queue'[n]))
              /\ \A m \in ToSet(queue'[n]) : m.key.type \in {"Commit", "ViewChange"} => m.block = {}
            BY <1>11, <2>2
        <3>2. KeyOf(n, "Commit")' = KeyOf(n, "Commit")
            BY <2>0 DEF KeyOf
        <3> QED BY <1>0, <1>1, <2>2, <3>1, <3>2 DEF Vote
    <2> QED BY <1>13, <2>1, <2>2 DEF MigrateChecking
<1>14. CASE MigrateCommitting(n, lg, bl, q)
    <2>0. UNCHANGED <<blockNum, view>> /\ Leave(n, q)
        BY <1>14 DEF MigrateCommitting, chainVars
    <2>1. CASE Stay
        BY <1>2, <1>3, <1>6, <2>0, <2>1
    <2>2. CASE ChangeState(n, "Finished")
        BY <1>3, <1>5, <1>8, <2>0, <2>2 DEF States
    <2> QED BY <1>14, <2>1, <2>2 DEF MigrateCommitting
<1>15. CASE MigrateFinished(n, lg, bl, q)
    <2>0. Leave(n, q) /\ state[n] = "Finished"
        BY <1>15 DEF MigrateFinished
    <2>1. CASE ChangeState(n, "NotStarted")
        BY <1>1, <1>3, <1>7, <2>0, <2>1
    <2>2. CASE ChangeState(n, "ViewChanging")
        BY <1>0, <1>1, <1>3, <1>5, <2>0, <2>2 DEF Vote
    <2> QED BY <1>15, <2>1, <2>2 DEF MigrateFinished
<1>16. CASE MigrateViewChanging(n, lg, bl, q)
    <2>0. Leave(n, q) /\ UNCHANGED blockNum
        BY <1>16 DEF MigrateViewChanging, chainVars
    <2>1. CASE ChangeState(n, "NotStarted")
        BY <1>1, <1>3, <1>7, <2>0, <2>1
    <2>2. CASE Stay /\ UNCHANGED view
        BY <1>2, <1>3, <1>6, <2>0, <2>2
    <2> QED BY <1>16, <2>1, <2>2 DEF MigrateViewChanging
<1> QED
    BY <1>9, <1>10, <1>12, <1>13, <1>14, <1>15, <1>16 DEF StateMigrate

LEMMA VoteStep == ASSUME TypeInv, VoteInv, [Next]_vars PROVE VoteInv'
<1>0. /\ log \in [Node -> SUBSET SoundEntry] /\ queue \in [Node -> Seq(SoundMsg)]
      /\ tasks \in [Node -> Seq(SoundKey)]
      /\ state \in [Node -> States] /\ timer \in [Node -> BOOLEAN]
      /\ stopped \in [Node -> BOOLEAN]
    BY DEF TypeInv, MsgType, OwnType, EngineType
<1>1. CASE UNCHANGED vars
    BY <1>1 DEF vars, chainVars, sm, mm, VoteInv, Vote, KeyOf
<1>2. ASSUME NEW n \in Node, Step(n), Vote(n)' PROVE VoteInv'
    <2> SUFFICES ASSUME NEW p \in Node, p # n PROVE Vote(p)'
        BY <1>2 DEF VoteInv
    <2>1. Alone(p) /\ Vote(p)
        BY <1>2, OthersAlone DEF VoteInv
    <2> QED BY <2>1 DEF Vote, Alone, KeyOf
<1>3. ASSUME NEW n \in Node, Step(n) PROVE Vote(n)'
    <2>0. Vote(n)
        BY DEF VoteInv
    <2>1. CASE HandleOwn(n)
        <3> DEFINE m == Head(queue[n])
                   q == Tail(queue[n])
        <3>1. /\ m \in SoundMsg /\ q \in Seq(SoundMsg) /\ ToSet(queue[n]) = {m} \cup ToSet(q)
              /\ Handle(n, m, q)
            BY <1>0, <2>1, HeadAndTail DEF HandleOwn
        <3> HIDE DEF m, q
        <3>2. KeysOf(ToSet(queue[n])) = {m.key} \cup KeysOf(ToSet(q))
            BY <3>1 DEF KeysOf
        <3>3. CASE StateMigrate(n, addMsg(log[n], m), storedBlocks(n, m), q) /\ ~ stopped[n]
            <4>1. addMsg(log[n], m) \in SUBSET SoundEntry
                BY <3>1, FilingTypes
            <4>2. KeysOf(log[n]) \cup KeysOf(ToSet(queue[n]))
                     \subseteq KeysOf(addMsg(log[n], m)) \cup KeysOf(ToSet(q))
                BY <3>2, Filed
            <4>3. ToSet(q) \subseteq ToSet(queue[n])
                BY <3>1
            <4> HIDE DEF Vote
            <4> QED BY <2>0, <3>1, <3>3, <4>1, <4>2, <4>3, MigrateVote
        <3>4. ASSUME queue' = [queue EXCEPT ![n] = q],
                     UNCHANGED <<chainVars, view, sm, timer, stopped, mm, tasks, current, net, faults, signed>>,
                     stopped[n] \/ m.block # {} \/ addMsg(log[n], m) = log[n]
              PROVE  Vote(n)'
            <4>1. /\ queue'[n] = q /\ log'[n] = log[n]
                  /\ state'[n] = state[n] /\ timer'[n] = timer[n] /\ stopped'[n] = stopped[n]
                  /\ blockNum' = blockNum /\ view' = view
                BY <1>0, <3>4 DEF chainVars, sm, mm
            <4>2. \A x \in ToSet(q) : x.key.type \in {"Commit", "ViewChange"} => x.block = {}
                BY <2>0, <3>1 DEF Vote
            <4>3. CASE stopped[n]
                BY <2>0, <4>1, <4>2, <4>3 DEF Vote
            <4>4. CASE m.key \in KeysOf(log[n])
                <5>1. KeysOf(log[n]) \cup KeysOf(ToSet(queue[n])) = KeysOf(log'[n]) \cup KeysOf(ToSet(queue'[n]))
                    BY <3>2, <4>1, <4>4
                <5> QED BY <2>0, <4>1, <4>2, <5>1 DEF Vote, KeyOf
            <4>5. CASE m.block # {}
                <5>1. m.key.type \notin {"Commit", "ViewChange"}
                    BY <2>0, <3>1, <4>5 DEF Vote
                <5>2. KeyOf(n, "Commit") # m.key /\ KeyOf(n, "ViewChange") # m.key
                    BY <5>1 DEF KeyOf
                <5> QED BY <2>0, <3>2, <4>1, <4>2, <5>2 DEF Vote, KeyOf
            <4>6. addMsg(log[n], m) = log[n] => m.key \in KeysOf(log[n])
                BY Filed
            <4> QED BY <3>4, <4>3, <4>4, <4>5, <4>6
        <3>5. VerfifyMsg(n, m) = {TRUE} \/ m.block # {}
            BY DEF VerfifyMsg
        <3>6. PICK valid \in VerfifyMsg(n, m) :
                 IF stopped[n] \/ ~ valid \/ (addMsg(log[n], m) = log[n] /\ storedBlocks(n, m) = blocks[n])
                 THEN /\ queue' = [queue EXCEPT ![n] = q]
                      /\ UNCHANGED <<chainVars, view, sm, timer, stopped, mm, tasks, current, net, faults, signed>>
                 ELSE StateMigrate(n, addMsg(log[n], m), storedBlocks(n, m), q)
            BY <3>1 DEF Handle
        <3>7. ~ valid => m.block # {}
            <4>1. VerfifyMsg(n, m) = {TRUE} => valid = TRUE
                BY <3>6
            <4> QED BY <3>5, <4>1, Zenon
        <3> HIDE DEF Vote
        <3>8. CASE stopped[n] \/ ~ valid \/ (addMsg(log[n], m) = log[n] /\ storedBlocks(n, m) = blocks[n])
            BY <3>4, <3>6, <3>7, <3>8
        <3>9. CASE ~ (stopped[n] \/ ~ valid \/ (addMsg(log[n], m) = log[n] /\ storedBlocks(n, m) = blocks[n]))
            BY <3>3, <3>6, <3>9
        <3> QED BY <3>8, <3>9
    <2>2. CASE HandleNet(n)
        <3>1. PICK c \in net : Handle(n, c.msg, queue[n])
            BY <2>2 DEF HandleNet
        <3>2. c.msg \in SoundMsg /\ queue[n] \in Seq(SoundMsg)
            BY <1>0 DEF TypeInv, MsgType, OwnType
        <3>3. CASE StateMigrate(n, addMsg(log[n], c.msg), storedBlocks(n, c.msg), queue[n]) /\ ~ stopped[n]
            <4>1. addMsg(log[n], c.msg) \in SUBSET SoundEntry
                BY <3>2, FilingTypes
            <4>2. KeysOf(log[n]) \cup KeysOf(ToSet(queue[n]))
                     \subseteq KeysOf(addMsg(log[n], c.msg)) \cup KeysOf(ToSet(queue[n]))
                BY Filed
            <4> QED BY <2>0, <3>2, <3>3, <4>1, <4>2, MigrateVote
        <3>4. CASE /\ queue' = [queue EXCEPT ![n] = queue[n]]
                   /\ UNCHANGED <<chainVars, view, sm, timer, stopped, mm, tasks, current, net, faults, signed>>
            BY <1>0, <2>0, <3>4 DEF Vote, KeyOf, chainVars, sm, mm
        <3> QED BY <3>1, <3>3, <3>4 DEF Handle
    <2>3. CASE Poll(n)
        <3>1. log[n] \in SUBSET SoundEntry /\ queue[n] \in Seq(SoundMsg) /\ ~ stopped[n]
              /\ StateMigrate(n, log[n], blocks[n], queue[n])
            BY <1>0, <2>3 DEF Poll
        <3> QED BY <2>0, <3>1, MigrateVote
    <2>4. CASE Timeout(n)
        <3>0. UNCHANGED <<blockNum, view, log, stopped>>
            BY <2>4 DEF Timeout, chainVars, mm
        <3>1. CASE stopped[n]
            <4>1. state'[n] = "NotStarted" /\ queue'[n] = queue[n]
                BY <2>0, <2>4, <3>1 DEF Timeout, Vote
            <4> QED BY <2>0, <3>0, <4>1 DEF Vote
        <3>2. CASE ~ stopped[n]
            <4> DEFINE m == [key |-> KeyOf(n, "ViewChange"), block |-> {}]
            <4>1. state'[n] = "ViewChanging" /\ InsertMsg(n, queue[n], m) /\ view[n] < MaxView
                BY <1>0, <2>4, <3>2 DEF Timeout
            <4>2. m \in SoundMsg /\ m.key = KeyOf(n, "ViewChange") /\ m.block = {}
                BY <4>1, OwnKeys DEF SoundMsg, Fits, MsgTypes
            <4> HIDE DEF m
            <4>3. /\ m.key \in KeysOf(ToSet(queue'[n]))
                  /\ ToSet(queue'[n]) \subseteq ToSet(queue[n]) \cup {m}
                BY <1>0, <4>1, <4>2, Inserted
            <4>4. KeyOf(n, "ViewChange")' = KeyOf(n, "ViewChange")
                BY <3>0 DEF KeyOf
            <4> QED BY <2>0, <3>0, <3>2, <4>1, <4>2, <4>3, <4>4 DEF Vote
        <3> QED BY <3>1, <3>2
    <2>5. CASE TryProposal(n)
        <3> DEFINE m == [key |-> KeyOf(n, "NewBlockProposal"), block |-> {}]
        <3>1. /\ InsertMsg(n, queue[n], m) /\ state[n] = "NotStarted"
              /\ UNCHANGED <<blockNum, view, log, stopped, state, timer>>
            BY <2>5 DEF TryProposal, chainVars, sm, mm
        <3>2. m \in SoundMsg /\ m.block = {}
            BY OwnKeys DEF SoundMsg, Fits, MsgTypes
        <3> HIDE DEF m
        <3>3. ToSet(queue'[n]) \subseteq ToSet(queue[n]) \cup {m}
            BY <1>0, <3>1, <3>2, Inserted
        <3> QED BY <2>0, <3>1, <3>2, <3>3 DEF Vote
    <2>6. CASE Broadcast(n)
        <3>1. UNCHANGED <<blockNum, view, state, timer, stopped, queue>>
            BY <2>6 DEF Broadcast, chainVars, sm
        <3>2. KeysOf(log'[n]) = KeysOf(log[n])
            <4>1. ASSUME NEW e \in log[n],
                         log' = [log EXCEPT ![n] = (@ \ {e}) \cup {[e EXCEPT !.sent = TRUE]}]
                  PROVE  KeysOf(log'[n]) = KeysOf(log[n])
                <5> DEFINE f == [e EXCEPT !.sent = TRUE]
                <5>1. f.key = e.key
                    BY <1>0, SentEntry
                <5> HIDE DEF f
                <5>2. log'[n] = (log[n] \ {e}) \cup {f}
                    BY <1>0, <4>1 DEF f
                <5> QED BY <5>1, <5>2 DEF KeysOf
            <4> QED BY <2>6, <4>1 DEF Broadcast
        <3> QED BY <2>0, <3>1, <3>2 DEF Vote, KeyOf
    <2>7. CASE Rebroadcast(n)
        BY <2>0, <2>7 DEF Rebroadcast, Vote, KeyOf, chainVars, sm, mm
    <2>8. CASE Stop(n)
        <3>1. state'[n] = "NotStarted" /\ UNCHANGED queue
            BY <1>0, <2>8 DEF Stop, ChangeState
        <3> QED BY <2>0, <3>1 DEF Vote
    <2>9. CASE Start(n)
        <3>1. ~ stopped'[n] /\ UNCHANGED <<blockNum, view, log, queue, state, timer>>
            BY <1>0, <2>9 DEF Start, chainVars, sm, mm
        <3> QED BY <2>0, <3>1 DEF Vote, KeyOf
    <2>10. CASE Restart(n)
        <3>1. state'[n] = "NotStarted" /\ ToSet(queue'[n]) = {}
            BY <1>0, <2>10, NothingIn DEF Restart
        <3> QED BY <3>1 DEF Vote
    <2> QED
        BY <1>3, <2>1, <2>2, <2>3, <2>4, <2>5, <2>6, <2>7, <2>8, <2>9, <2>10 DEF Step
<1> QED BY <1>1, <1>2, <1>3 DEF Next

\* A replica that waits for a quorum of votes has cast its own, or a timer that
\* will is running, whatever stops, restarts and lost messages come between.
THEOREM VoteIsCast == Spec => []VoteIsOnItsWay
<1>1. Init => VoteInv
    BY NothingIn DEF Init, VoteInv, Vote
<1>2. VoteInv => VoteIsOnItsWay
    BY DEF VoteInv, Vote, VoteIsOnItsWay, KeysOf
<1>3. TypeInv /\ VoteInv /\ [Next]_vars => TypeInv' /\ VoteInv'
    BY TypeStep, VoteStep
<1> QED BY <1>1, <1>2, <1>3, InitTypes, PTL DEF Spec

(***************************************************************************)
(* Every block anywhere: in logs, in stores, in queues and on the way.     *)
(***************************************************************************)

BlocksOf(lg, bl, q) ==
    (UNION {e.block : e \in lg}) \cup {bl[s] : s \in DOMAIN bl} \cup (UNION {m.block : m \in ToSet(q)})

Held ==
    (UNION {BlocksOf(log[n], blocks[n], queue[n]) : n \in Node}) \cup (UNION {c.msg.block : c \in net})

\* The primary of the block's slot has moved past NotStarted there.
Begun(b) ==
    LET p == Primary(b.num, b.view)
    IN  \/ b.num <= blockNum[p]
        \/ /\ b.num = blockNum[p] + 1
           /\ \/ b.view < view[p]
              \/ b.view = view[p] /\ state[p] # "NotStarted"

\* A slot has one block, and its signatures are signatures on this block.
BlockInv ==
    /\ \A b, c \in Held : b.blk.num = c.blk.num /\ b.blk.view = c.blk.view => b.blk = c.blk
    /\ \A b \in Held : Begun(b.blk)
    /\ \A b \in Held : \A p \in b.pairs : p.of = Hash(b.blk)

\* Without stops and restarts an engine is stopped only before its first start.
CalmInv == faults = 0 /\ \A n \in Node : stopped[n] => state[n] = "NotStarted"

\* The received block is the stored one, with enough signers.
ReceivedInv ==
    \A n \in Node : received[n] =>
        /\ state[n] \in {"Preparing", "Checking", "Committing", "Finished"}
        /\ SlotOf(n) \in DOMAIN blocks[n]
        /\ EnoughSigners(blocks[n][SlotOf(n)])

CalmBlockInv == TypeInv /\ CalmInv /\ BlockInv /\ ReceivedInv

(***************************************************************************)
(* The steps without faults: a message is filed and the state machine      *)
(* runs, a message is refused, or nothing but a timer or a broadcast.      *)
(***************************************************************************)

\* The log, the store and the queue StateMigrate is run on.
Filing(n, lg, bl, q) ==
    \/ lg = log[n] /\ bl = blocks[n] /\ q = queue[n]
    \/ /\ queue[n] # <<>> /\ q = Tail(queue[n])
       /\ lg = addMsg(log[n], Head(queue[n])) /\ bl = storedBlocks(n, Head(queue[n]))
    \/ /\ q = queue[n]
       /\ \E c \in net : c.to = n /\ lg = addMsg(log[n], c.msg) /\ bl = storedBlocks(n, c.msg)

Refuse(n) ==
    /\ \/ queue' = queue
       \/ queue[n] # <<>> /\ queue' = [queue EXCEPT ![n] = Tail(@)]
    /\ UNCHANGED <<chainVars, view, sm, timer, stopped, mm, tasks, current, net, faults, signed>>

Migrate(n) ==
    /\ ~ stopped[n] /\ Active(n)
    /\ \E lg, bl, q : Filing(n, lg, bl, q) /\ StateMigrate(n, lg, bl, q)

LEMMA HandleCases ==
    ASSUME NEW n \in Node, NEW m, NEW q, Handle(n, m, q)
    PROVE  \/ StateMigrate(n, addMsg(log[n], m), storedBlocks(n, m), q) /\ ~ stopped[n]
           \/ /\ queue' = [queue EXCEPT ![n] = q]
              /\ UNCHANGED <<chainVars, view, sm, timer, stopped, mm, tasks, current, net, faults, signed>>
<1>1. PICK valid \in VerfifyMsg(n, m) :
         IF stopped[n] \/ ~ valid \/ (addMsg(log[n], m) = log[n] /\ storedBlocks(n, m) = blocks[n])
         THEN /\ queue' = [queue EXCEPT ![n] = q]
              /\ UNCHANGED <<chainVars, view, sm, timer, stopped, mm, tasks, current, net, faults, signed>>
         ELSE StateMigrate(n, addMsg(log[n], m), storedBlocks(n, m), q)
    BY DEF Handle
<1>2. CASE stopped[n] \/ ~ valid \/ (addMsg(log[n], m) = log[n] /\ storedBlocks(n, m) = blocks[n])
    BY <1>1, <1>2
<1>3. CASE ~ (stopped[n] \/ ~ valid \/ (addMsg(log[n], m) = log[n] /\ storedBlocks(n, m) = blocks[n]))
    BY <1>1, <1>3
<1> QED BY <1>2, <1>3

LEMMA StepCases ==
    ASSUME MaxFaults = 0, TypeInv, CalmInv, NEW n \in Node, Step(n)
    PROVE  \/ Migrate(n)
           \/ Refuse(n)
           \/ Timeout(n)
           \/ TryProposal(n)
           \/ Broadcast(n)
           \/ Rebroadcast(n)
           \/ Start(n)
<1>0. /\ faults = 0
      /\ queue \in [Node -> Seq(SoundMsg)] /\ net \subseteq [to : Node, msg : SoundMsg]
    BY DEF CalmInv, TypeInv, MsgType, OwnType
<1>1. CASE HandleOwn(n)
    <2> DEFINE m == Head(queue[n])
               q == Tail(queue[n])
    <2>1. Active(n) /\ queue[n] # <<>> /\ Handle(n, m, q)
        BY <1>1 DEF HandleOwn
    <2>2. CASE StateMigrate(n, addMsg(log[n], m), storedBlocks(n, m), q) /\ ~ stopped[n]
        <3>1. Filing(n, addMsg(log[n], m), storedBlocks(n, m), q)
            BY <2>1 DEF Filing
        <3> HIDE DEF m, q
        <3> QED BY <2>1, <2>2, <3>1 DEF Migrate
    <2>3. CASE /\ queue' = [queue EXCEPT ![n] = q]
               /\ UNCHANGED <<chainVars, view, sm, timer, stopped, mm, tasks, current, net, faults, signed>>
        BY <2>1, <2>3 DEF Refuse
    <2> HIDE DEF m, q
    <2> QED BY <2>1, <2>2, <2>3, HandleCases
<1>2. CASE HandleNet(n)
    <2>1. PICK c \in net : c.to = n /\ Handle(n, c.msg, queue[n])
        BY <1>2 DEF HandleNet
    <2>2. CASE StateMigrate(n, addMsg(log[n], c.msg), storedBlocks(n, c.msg), queue[n]) /\ ~ stopped[n]
        <3>1. Filing(n, addMsg(log[n], c.msg), storedBlocks(n, c.msg), queue[n]) /\ Active(n)
            BY <1>2, <2>1 DEF Filing, HandleNet
        <3> QED BY <2>2, <3>1 DEF Migrate
    <2>3. CASE /\ queue' = [queue EXCEPT ![n] = queue[n]]
               /\ UNCHANGED <<chainVars, view, sm, timer, stopped, mm, tasks, current, net, faults, signed>>
        <3>1. queue' = queue
            BY <1>0, <2>3
        <3> QED BY <2>3, <3>1 DEF Refuse
    <2> QED BY <2>1, <2>2, <2>3, HandleCases
<1>3. CASE Poll(n)
    <2>1. Filing(n, log[n], blocks[n], queue[n]) /\ Active(n)
        BY <1>3 DEF Filing, Poll
    <2> QED BY <1>3, <2>1 DEF Migrate, Poll
<1>4. ~ Stop(n) /\ ~ Restart(n)
    BY <1>0 DEF Stop, Restart
<1> QED BY <1>1, <1>2, <1>3, <1>4 DEF Step

(***************************************************************************)
(* Where blocks come from: a step finds the blocks it leaves behind, with  *)
(* their signatures, except for the signature of the replica that takes    *)
(* the step and for the one block its primary packs.                       *)
(***************************************************************************)

LEMMA InBlocksOf ==
    ASSUME NEW lg, NEW bl, NEW q, NEW b
    PROVE  b \in BlocksOf(lg, bl, q) <=>
              \/ \E e \in lg : b \in e.block
              \/ \E s \in DOMAIN bl : b = bl[s]
              \/ \E m \in ToSet(q) : b \in m.block
<1> DEFINE A == UNION {e.block : e \in lg}
           B == {bl[s] : s \in DOMAIN bl}
           C == UNION {m.block : m \in ToSet(q)}
<1>1. b \in A <=> \E e \in lg : b \in e.block
    OBVIOUS
<1>2. b \in B <=> \E s \in DOMAIN bl : b = bl[s]
    OBVIOUS
<1>3. b \in C <=> \E m \in ToSet(q) : b \in m.block
    OBVIOUS
<1>4. BlocksOf(lg, bl, q) = A \cup B \cup C
    BY DEF BlocksOf
<1> HIDE DEF A, B, C
<1> QED BY <1>1, <1>2, <1>3, <1>4

LEMMA InHeld ==
    ASSUME NEW b
    PROVE  b \in Held <=> \/ \E n \in Node : b \in BlocksOf(log[n], blocks[n], queue[n])
                          \/ \E c \in net : b \in c.msg.block
<1> DEFINE A == UNION {BlocksOf(log[n], blocks[n], queue[n]) : n \in Node}
           B == UNION {c.msg.block : c \in net}
<1>1. b \in A <=> \E n \in Node : b \in BlocksOf(log[n], blocks[n], queue[n])
    OBVIOUS
<1>2. b \in B <=> \E c \in net : b \in c.msg.block
    OBVIOUS
<1>3. Held = A \cup B
    BY DEF Held
<1> HIDE DEF A, B
<1> QED BY <1>1, <1>2, <1>3

LEMMA HeldTypes == ASSUME TypeInv PROVE Held \subseteq SignedBlock
<1>1. ASSUME NEW n \in Node, NEW b \in BlocksOf(log[n], blocks[n], queue[n])
      PROVE  b \in SignedBlock
    <2>1. log[n] \in SUBSET SoundEntry /\ SoundStore(blocks[n]) /\ queue[n] \in Seq(SoundMsg)
        BY DEF TypeInv, MsgType, OwnType, StoreType
    <2>2. ToSet(queue[n]) \subseteq SoundMsg
        BY <2>1, InSeq
    <2>3. \/ \E e \in log[n] : b \in e.block
          \/ \E s \in DOMAIN blocks[n] : b = blocks[n][s]
          \/ \E m \in ToSet(queue[n]) : b \in m.block
        BY InBlocksOf
    <2> QED BY <2>1, <2>2, <2>3 DEF SoundEntry, SoundMsg, SoundStore
<1>2. ASSUME NEW c \in net, NEW b \in c.msg.block PROVE b \in SignedBlock
    BY <1>2 DEF TypeInv, MsgType, OwnType, SoundMsg
<1> QED BY <1>1, <1>2, InHeld

\* Block x and each of its signatures are found on blocks that are held.
Kin(x) ==
    /\ \E y \in Held : y.blk = x.blk
    /\ \A p \in x.pairs : \E y \in Held : y.blk = x.blk /\ p \in y.pairs

LEMMA HeldIsKin == \A x \in Held : Kin(x)
BY DEF Kin

\* The store only grows: a block stays, and so do its signers.
Grows(bl, new) ==
    /\ DOMAIN bl \subseteq DOMAIN new
    /\ \A s \in DOMAIN bl : new[s].blk = bl[s].blk /\ bl[s].pairs \subseteq new[s].pairs

LEMMA AddBlockKin ==
    ASSUME TypeInv, BlockInv, NEW n \in Node, NEW m \in SoundMsg, NEW b \in m.block, b \in Held
    PROVE  LET new == addBlock(blocks[n], <<m.key.num, m.key.view>>, b)
           IN  /\ Grows(blocks[n], new)
               /\ \A s \in DOMAIN new : Kin(new[s])
<1> DEFINE s == <<m.key.num, m.key.view>>
           new == addBlock(blocks[n], s, b)
           old == blocks[n]
<1>1. /\ s \in Nat \X (0 .. MaxView) /\ SoundStore(old)
      /\ b \in SignedBlock /\ b.blk.num = s[1] /\ b.blk.view = s[2]
    <2>1. s \in Nat \X (0 .. MaxView) /\ s[1] = m.key.num /\ s[2] = m.key.view
        BY BoundAssumption DEF SoundMsg, SoundKey, Key
    <2>2. b \in SignedBlock /\ b.blk.num = m.key.num /\ b.blk.view = m.key.view
        BY DEF SoundMsg, Fits
    <2> QED BY <2>1, <2>2 DEF TypeInv, StoreType
<1>2. \A t \in DOMAIN old : old[t] \in Held /\ old[t].blk.num = t[1] /\ old[t].blk.view = t[2]
    BY <1>1, InHeld, InBlocksOf DEF SoundStore
<1> HIDE DEF s, old
<1>3. /\ DOMAIN new = DOMAIN old \cup {s}
      /\ \A t \in DOMAIN old : t # s => new[t] = old[t]
      /\ s \notin DOMAIN old => new[s] = b
      /\ s \in DOMAIN old /\ old[s].pairs = {} => new[s] \in {b, old[s]}
      /\ s \in DOMAIN old /\ old[s].pairs # {} =>
            /\ new[s].blk = old[s].blk
            /\ old[s].pairs \subseteq new[s].pairs
            /\ \A p \in new[s].pairs : p \in old[s].pairs \/ p \in b.pairs
    BY <1>1, AddBlockTypes DEF old
<1> HIDE DEF new
<1>4. s \in DOMAIN old => old[s].blk = b.blk
    BY <1>1, <1>2 DEF BlockInv
<1>5. Grows(old, new)
    <2> SUFFICES ASSUME NEW t \in DOMAIN old
                 PROVE  new[t].blk = old[t].blk /\ old[t].pairs \subseteq new[t].pairs
        BY <1>3 DEF Grows
    <2>1. CASE t # s
        BY <1>3, <2>1
    <2>2. CASE t = s /\ old[s].pairs = {}
        BY <1>3, <1>4, <2>2
    <2>3. CASE t = s /\ old[s].pairs # {}
        BY <1>3, <2>3
    <2> QED BY <2>1, <2>2, <2>3
<1>6. ASSUME NEW t \in DOMAIN new PROVE Kin(new[t])
    <2>1. CASE t # s
        BY <1>2, <1>3, <2>1, HeldIsKin
    <2>2. CASE t = s /\ (s \notin DOMAIN old \/ old[s].pairs = {})
        BY <1>2, <1>3, <2>2, HeldIsKin
    <2>3. CASE t = s /\ s \in DOMAIN old /\ old[s].pairs # {}
        <3>1. /\ new[s].blk = old[s].blk /\ b.blk = old[s].blk /\ old[s] \in Held
              /\ \A p \in new[s].pairs : p \in old[s].pairs \/ p \in b.pairs
            BY <1>2, <1>3, <1>4, <2>3
        <3> QED BY <2>3, <3>1 DEF Kin
    <2> QED BY <2>1, <2>2, <2>3
<1> QED BY <1>5, <1>6 DEF new, old, s

LEMMA FilingFacts ==
    ASSUME TypeInv, BlockInv, NEW n \in Node, NEW lg, NEW bl, NEW q, Filing(n, lg, bl, q)
    PROVE  /\ lg \in SUBSET SoundEntry /\ SoundStore(bl) /\ q \in Seq(SoundMsg)
           /\ ToSet(q) \subseteq ToSet(queue[n])
           /\ Grows(blocks[n], bl)
           /\ \A x \in BlocksOf(lg, bl, q) : Kin(x)
<1>0. /\ log[n] \in SUBSET SoundEntry /\ SoundStore(blocks[n]) /\ queue[n] \in Seq(SoundMsg)
      /\ net \subseteq [to : Node, msg : SoundMsg]
    BY DEF TypeInv, MsgType, OwnType, StoreType
<1>1. BlocksOf(log[n], blocks[n], queue[n]) \subseteq Held
    BY InHeld
<1>2. Grows(blocks[n], blocks[n])
    BY DEF Grows
<1>3. ASSUME NEW m \in SoundMsg, m.block \subseteq Held, lg = addMsg(log[n], m),
             bl = storedBlocks(n, m), q \in Seq(SoundMsg), ToSet(q) \subseteq ToSet(queue[n])
      PROVE  /\ lg \in SUBSET SoundEntry /\ SoundStore(bl)
             /\ Grows(blocks[n], bl)
             /\ \A x \in BlocksOf(lg, bl, q) : Kin(x)
    <2>1. lg \in SUBSET SoundEntry /\ SoundStore(bl)
        BY <1>3, FilingTypes
    <2>2. Grows(blocks[n], bl) /\ \A s \in DOMAIN bl : Kin(bl[s])
        <3>1. CASE bl = blocks[n]
            BY <1>1, <1>2, <3>1, HeldIsKin, InBlocksOf
        <3>2. ASSUME NEW b \in m.block, bl = addBlock(blocks[n], <<m.key.num, m.key.view>>, b)
              PROVE  Grows(blocks[n], bl) /\ \A s \in DOMAIN bl : Kin(bl[s])
            <4>1. b \in Held
                BY <1>3
            <4> QED BY <3>2, <4>1, AddBlockKin
        <3> QED BY <1>3, <3>1, <3>2, StoredCases
    <2>3. \A e \in lg : \A x \in e.block : Kin(x)
        <3>1. \A e \in lg : e \in log[n] \/ e.block = m.block
            BY <1>3, Filed
        <3> QED BY <1>1, <1>3, <3>1, HeldIsKin, InBlocksOf
    <2>4. \A r \in ToSet(q) : \A x \in r.block : Kin(x)
        BY <1>1, <1>3, HeldIsKin, InBlocksOf
    <2> QED BY <2>1, <2>2, <2>3, <2>4, InBlocksOf
<1>4. CASE lg = log[n] /\ bl = blocks[n] /\ q = queue[n]
    BY <1>0, <1>1, <1>2, <1>4, HeldIsKin
<1>5. CASE /\ queue[n] # <<>> /\ q = Tail(queue[n])
           /\ lg = addMsg(log[n], Head(queue[n])) /\ bl = storedBlocks(n, Head(queue[n]))
    <2>1. /\ Head(queue[n]) \in SoundMsg /\ q \in Seq(SoundMsg)
          /\ ToSet(queue[n]) = {Head(queue[n])} \cup ToSet(q)
        BY <1>0, <1>5, HeadAndTail
    <2>2. Head(queue[n]).block \subseteq Held
        BY <1>1, <2>1, InBlocksOf
    <2>3. ToSet(q) \subseteq ToSet(queue[n])
        BY <2>1
    <2> QED BY <1>3, <1>5, <2>1, <2>2, <2>3
<1>6. ASSUME NEW c \in net, c.to = n, q = queue[n],
             lg = addMsg(log[n], c.msg), bl = storedBlocks(n, c.msg)
      PROVE  /\ lg \in SUBSET SoundEntry /\ SoundStore(bl) /\ q \in Seq(SoundMsg)
             /\ ToSet(q) \subseteq ToSet(queue[n])
             /\ Grows(blocks[n], bl)
             /\ \A x \in BlocksOf(lg, bl, q) : Kin(x)
    <2>1. c.msg \in SoundMsg /\ c.msg.block \subseteq Held
        BY <1>0, InHeld
    <2> QED BY <1>0, <1>3, <1>6, <2>1
<1> QED BY <1>4, <1>5, <1>6 DEF Filing

LEMMA SigningAdds ==
    ASSUME NEW n, NEW b \in SignedBlock
    PROVE  /\ signBlock(n, b).blk = b.blk /\ b.pairs \subseteq signBlock(n, b).pairs
           /\ \E p \in signBlock(n, b).pairs : p.by = n
           /\ \A p \in signBlock(n, b).pairs : p \in b.pairs \/ p = [by |-> n, of |-> Hash(b.blk)]
<1>1. b = [blk |-> b.blk, pairs |-> b.pairs]
    BY DEF SignedBlock
<1>2. CASE \E p \in b.pairs : p.by = n
    BY <1>2 DEF signBlock
<1>3. CASE ~ (\E p \in b.pairs : p.by = n)
    <2> DEFINE own == [by |-> n, of |-> Hash(b.blk)]
    <2>1. signBlock(n, b) = [b EXCEPT !.pairs = @ \cup {own}] /\ own.by = n
        BY <1>3 DEF signBlock
    <2> HIDE DEF own
    <2>2. signBlock(n, b).blk = b.blk /\ signBlock(n, b).pairs = b.pairs \cup {own}
        BY <1>1, <2>1
    <2> QED BY <2>1, <2>2 DEF own
<1> QED BY <1>2, <1>3

\* What PrePreparing does (states.go:147-231), by what it finds: no PrePrepare, or
\* one, and in the store no block, a block it has signed with enough others, or a
\* block to sign and send along.
AwaitsPrimary(n, bl, q) ==
    /\ blocks' = [blocks EXCEPT ![n] = bl]
    /\ Stay /\ Leave(n, q) /\ received' = received /\ tasks' = tasks

HasPrePrepare(n, lg) ==
    LET pp == FindStateMsgBySinger(n, lg, "PrePrepare", Primary(blockNum[n] + 1, view[n]))
    IN  pp # {} /\ AddBroadcastTask(n, pp) /\ ChangeState(n, "Preparing")

FindsNoBlock(n, bl, q) ==
    /\ SlotOf(n) \notin DOMAIN bl
    /\ blocks' = [blocks EXCEPT ![n] = bl] /\ received' = received
    /\ InsertMsg(n, q, [key |-> KeyOf(n, "Prepare"), block |-> {}])

FindsSignedBlock(n, bl, q) ==
    /\ SlotOf(n) \in DOMAIN bl /\ EnoughSigners(bl[SlotOf(n)])
    /\ \E p \in bl[SlotOf(n)].pairs : p.by = n
    /\ blocks' = [blocks EXCEPT ![n] = bl] /\ received' = [received EXCEPT ![n] = TRUE]
    /\ InsertMsg(n, q, [key |-> KeyOf(n, "Prepare"), block |-> {}])

SignsBlock(n, bl, q) ==
    /\ SlotOf(n) \in DOMAIN bl
    /\ blocks' = [blocks EXCEPT ![n] = [bl EXCEPT ![SlotOf(n)] = signBlock(n, bl[SlotOf(n)])]]
    /\ received' = received
    /\ InsertMsg(n, q, [key |-> KeyOf(n, "Prepare"), block |-> {signBlock(n, bl[SlotOf(n)])}])

LEMMA PrePreparingCases ==
    ASSUME TypeInv, NEW n \in Node, NEW lg, NEW bl, SoundStore(bl), NEW q,
           MigratePrePreparing(n, lg, bl, q)
    PROVE  /\ state[n] = "PrePreparing" /\ UNCHANGED <<net, chainVars, view>>
           /\ \/ AwaitsPrimary(n, bl, q)
              \/ HasPrePrepare(n, lg) /\ FindsNoBlock(n, bl, q)
              \/ HasPrePrepare(n, lg) /\ FindsSignedBlock(n, bl, q)
              \/ HasPrePrepare(n, lg) /\ SignsBlock(n, bl, q)
<1> USE DEF AwaitsPrimary, HasPrePrepare, FindsNoBlock, FindsSignedBlock, SignsBlock
<1> DEFINE s == SlotOf(n)
           key == KeyOf(n, "Prepare")
           pp == FindStateMsgBySinger(n, lg, "PrePrepare", Primary(blockNum[n] + 1, view[n]))
           found == FindBlock(n, bl)
           mine == {b \in found : \E p \in b.pairs : p.by = n}
           enough == {b \in mine : EnoughSigners(b)}
           attached == {signBlock(n, b) : b \in found \ enough}
<1>1. /\ state[n] = "PrePreparing" /\ UNCHANGED <<net, chainVars, view>>
      /\ \/ /\ pp = {}
            /\ blocks' = [blocks EXCEPT ![n] = bl]
            /\ Stay /\ Leave(n, q) /\ UNCHANGED <<received, tasks>>
         \/ /\ pp # {}
            /\ AddBroadcastTask(n, pp) /\ ChangeState(n, "Preparing")
            /\ blocks' = [blocks EXCEPT ![n] =
                  IF attached = {} THEN bl
                  ELSE [bl EXCEPT ![s] = CHOOSE b \in attached : TRUE]]
            /\ received' = [received EXCEPT ![n] = @ \/ enough # {}]
            /\ InsertMsg(n, q, [key |-> key, block |-> attached])
    BY DEF MigratePrePreparing
<1>2. received \in [Node -> BOOLEAN]
    BY DEF TypeInv, EngineType
<1>3. CASE s \notin DOMAIN bl
    <2>1. found = {}
        BY <1>3, FoundFits
    <2>2. attached = {} /\ enough = {}
        BY <2>1
    <2> HIDE DEF attached, enough, pp, key, s
    <2>3. received' = [received EXCEPT ![n] = @ \/ enough # {}] => received' = received
        BY <1>2, <2>2
    <2> QED BY <1>1, <1>3, <2>2, <2>3 DEF s, pp, key
<1>4. CASE s \in DOMAIN bl
    <2>1. found = {bl[s]}
        BY <1>4, FoundFits
    <2>2. CASE EnoughSigners(bl[s]) /\ \E p \in bl[s].pairs : p.by = n
        <3>1. enough = {bl[s]} /\ attached = {}
            BY <2>1, <2>2
        <3> HIDE DEF attached, enough, pp, key, s
        <3>2. received' = [received EXCEPT ![n] = @ \/ enough # {}]
                 => received' = [received EXCEPT ![n] = TRUE]
            BY <1>2, <3>1
        <3> QED BY <1>1, <1>4, <2>2, <3>1, <3>2 DEF s, pp, key
    <2>3. CASE ~ (EnoughSigners(bl[s]) /\ \E p \in bl[s].pairs : p.by = n)
        <3>1. enough = {}
            BY <2>1, <2>3
        <3>2. attached = {signBlock(n, bl[s])}
            BY <2>1, <3>1
        <3>3. attached # {} /\ (CHOOSE b \in attached : TRUE) = signBlock(n, bl[s])
            BY <3>2
        <3> HIDE DEF attached, enough, pp, key, s
        <3>4. received' = [received EXCEPT ![n] = @ \/ enough # {}] => received' = received
            BY <1>2, <3>1
        <3> QED BY <1>1, <1>4, <3>2, <3>3, <3>4 DEF s, pp, key
    <2> QED BY <2>2, <2>3
<1> QED BY <1>3, <1>4

LEMMA HeldAfter ==
    ASSUME NEW n \in Node, \A p \in Node : p # n => Alone(p), NEW x \in Held'
    PROVE  \/ x \in Held
           \/ x \in BlocksOf(log'[n], blocks'[n], queue'[n])
           \/ \E c \in net' : c \notin net /\ x \in c.msg.block
<1> DEFINE A == UNION {BlocksOf(log'[m], blocks'[m], queue'[m]) : m \in Node}
           B == UNION {c.msg.block : c \in net'}
<1>1. x \in A => \E m \in Node : x \in BlocksOf(log'[m], blocks'[m], queue'[m])
    OBVIOUS
<1>2. x \in B => \E c \in net' : x \in c.msg.block
    OBVIOUS
<1>3. Held' = A \cup B
    BY DEF Held
<1> HIDE DEF A, B
<1>4. ASSUME NEW m \in Node, m # n, x \in BlocksOf(log'[m], blocks'[m], queue'[m]) PROVE x \in Held
    <2>1. log'[m] = log[m] /\ blocks'[m] = blocks[m] /\ queue'[m] = queue[m]
        BY <1>4 DEF Alone
    <2> QED BY <1>4, <2>1, InHeld
<1> QED BY <1>1, <1>2, <1>3, <1>4, InHeld

\* As Kin, or with the signature replica n has just added to its stored block.
Heir(n, x) ==
    /\ \E y \in Held : y.blk = x.blk
    /\ \A p \in x.pairs :
          \/ \E y \in Held : y.blk = x.blk /\ p \in y.pairs
          \/ /\ p = [by |-> n, of |-> Hash(x.blk)]
             /\ SlotOf(n) \in DOMAIN blocks'[n]
             /\ blocks'[n][SlotOf(n)].blk = x.blk /\ p \in blocks'[n][SlotOf(n)].pairs

LEMMA KinIsHeir == ASSUME NEW n, NEW x, Kin(x) PROVE Heir(n, x)
BY DEF Kin, Heir

\* Replica n packs the block of its slot.
Packs(n) ==
    /\ state[n] = "NotStarted" /\ IsPrimaryVerfier(n)
    /\ state'[n] = "Preparing" /\ UNCHANGED <<blockNum, view>>

FoundOrPacked(n) ==
    \/ \A x \in Held' : Heir(n, x)
    \/ /\ Packs(n)
       /\ \E body \in Bodies :
             /\ packageBlock(n, body) \in proposed'
             /\ \A x \in Held' :
                   Heir(n, x) \/ x = [blk |-> packageBlock(n, body), pairs |-> {}]

LEMMA MigrateHeld ==
    ASSUME TypeInv, BlockInv, NEW n \in Node, \A p \in Node : p # n => Alone(p),
           NEW lg, NEW bl, NEW q, Filing(n, lg, bl, q), StateMigrate(n, lg, bl, q)
    PROVE  FoundOrPacked(n)
<1>0. /\ lg \in SUBSET SoundEntry /\ SoundStore(bl) /\ q \in Seq(SoundMsg)
      /\ \A x \in BlocksOf(lg, bl, q) : Kin(x)
    BY FilingFacts
<1>1. /\ log \in [Node -> SUBSET SoundEntry] /\ log'[n] = lg
      /\ blocks = [m \in Node |-> blocks[m]]
      /\ queue \in [Node -> Seq(SoundMsg)]
      /\ state \in [Node -> States]
    BY DEF StateMigrate, TypeInv, MsgType, OwnType, StoreType, EngineType
<1>2. /\ \A e \in lg : \A x \in e.block : Kin(x)
      /\ \A s \in DOMAIN bl : Kin(bl[s])
      /\ \A m \in ToSet(q) : \A x \in m.block : Kin(x)
    BY <1>0, InBlocksOf
<1>3. \A x \in Held : Heir(n, x)
    BY HeldIsKin, KinIsHeir
<1>4. ASSUME \A s \in DOMAIN blocks'[n] : Heir(n, blocks'[n][s]),
             \A m \in ToSet(queue'[n]) : m \in ToSet(q) \/ \A x \in m.block : Heir(n, x),
             net' = net
      PROVE  \A x \in Held' : Heir(n, x)
    <2> SUFFICES ASSUME NEW x \in Held', x \in BlocksOf(log'[n], blocks'[n], queue'[n])
                 PROVE  Heir(n, x)
        BY <1>3, <1>4, HeldAfter
    <2>1. \/ \E e \in log'[n] : x \in e.block
          \/ \E s \in DOMAIN blocks'[n] : x = blocks'[n][s]
          \/ \E m \in ToSet(queue'[n]) : x \in m.block
        BY InBlocksOf
    <2> QED BY <1>1, <1>2, <1>4, <2>1, KinIsHeir
<1>5. ASSUME NEW new, blocks' = [blocks EXCEPT ![n] = new] PROVE blocks'[n] = new
    BY <1>1, <1>5
<1>6. \A s \in DOMAIN bl : Heir(n, bl[s])
    BY <1>2, KinIsHeir
<1>7. ASSUME Leave(n, q) PROVE \A m \in ToSet(queue'[n]) : m \in ToSet(q)
    BY <1>1, <1>7 DEF Leave
<1>8. ASSUME NEW type \in MsgTypes, type # "ViewChange", NEW b \in SUBSET SignedBlock,
             \A x \in b : x.blk.num = blockNum[n] + 1 /\ x.blk.view = view[n],
             InsertMsg(n, q, [key |-> KeyOf(n, type), block |-> b])
      PROVE  \A m \in ToSet(queue'[n]) : m \in ToSet(q) \/ m.block = b
    <2> DEFINE m == [key |-> KeyOf(n, type), block |-> b]
    <2>1. m \in SoundMsg /\ m.block = b
        BY <1>8, OwnKeys DEF SoundMsg, Fits, KeyOf
    <2>2. InsertMsg(n, q, m)
        BY <1>8
    <2> HIDE DEF m
    <2> QED BY <1>0, <1>1, <2>1, <2>2, Inserted
<1>9. ASSUME NEW type \in MsgTypes, type # "ViewChange",
             InsertMsg(n, q, [key |-> KeyOf(n, type), block |-> {}])
      PROVE  \A m \in ToSet(queue'[n]) : m \in ToSet(q) \/ \A x \in m.block : Heir(n, x)
    BY <1>8, <1>9
<1>10. CASE MigrateNotStarted(n, lg, bl, q)
    <2>1. blocks'[n] = bl /\ UNCHANGED <<chainVars, view>> /\ state[n] = "NotStarted"
        BY <1>5, <1>10 DEF MigrateNotStarted
    <2>2. CASE Leave(n, q) /\ UNCHANGED net
        BY <1>4, <1>6, <1>7, <2>1, <2>2 DEF FoundOrPacked
    <2>3. ASSUME NEW body \in Bodies, IsPrimaryVerfier(n), ChangeState(n, "Preparing"),
                 LET m == [key |-> KeyOf(n, "PrePrepare"),
                           block |-> {[blk |-> packageBlock(n, body), pairs |-> {}]}]
                 IN  InsertMsg(n, q, m) /\ net' = net \cup Copies(n, m)
          PROVE  FoundOrPacked(n)
        <3> DEFINE b == [blk |-> packageBlock(n, body), pairs |-> {}]
                   m == [key |-> KeyOf(n, "PrePrepare"), block |-> {b}]
        <3>1. InsertMsg(n, q, m) /\ net' = net \cup Copies(n, m) /\ m.block = {b}
            BY <2>3
        <3>2. b \in SignedBlock /\ b.blk.num = blockNum[n] + 1 /\ b.blk.view = view[n]
            <4>1. blockNum[n] + 1 \in Nat /\ view[n] \in Nat
                  /\ blockID[n] \in Nat \X Nat \X (Bodies \cup {0})
                BY BoundAssumption DEF TypeInv, ChainType
            <4>2. packageBlock(n, body) \in Block /\ packageBlock(n, body).num = blockNum[n] + 1
                  /\ packageBlock(n, body).view = view[n]
                BY <4>1 DEF packageBlock, Block
            <4> QED BY <4>2 DEF SignedBlock
        <3> HIDE DEF b
        <3>3. \A r \in ToSet(queue'[n]) : r \in ToSet(q) \/ r.block = {b}
            BY <1>8, <3>1, <3>2 DEF MsgTypes
        <3> HIDE DEF m
        <3>4. \A c \in net' : c \in net \/ c.msg = m
            BY <3>1 DEF Copies
        <3>5. ASSUME NEW x \in Held' PROVE Heir(n, x) \/ x = b
            <4>1. CASE x \in Held
                BY <1>3, <4>1
            <4>2. CASE x \in BlocksOf(log'[n], blocks'[n], queue'[n])
                <5>1. \/ \E e \in log'[n] : x \in e.block
                      \/ \E s \in DOMAIN blocks'[n] : x = blocks'[n][s]
                      \/ \E r \in ToSet(queue'[n]) : x \in r.block
                    BY <4>2, InBlocksOf
                <5> QED BY <1>1, <1>2, <2>1, <3>3, <5>1, KinIsHeir
            <4>3. CASE \E c \in net' : c \notin net /\ x \in c.msg.block
                BY <3>1, <3>4, <4>3
            <4> QED BY <4>1, <4>2, <4>3, HeldAfter
        <3>6. Packs(n)
            BY <1>1, <2>1, <2>3 DEF Packs, ChangeState, chainVars
        <3>7. packageBlock(n, body) \in proposed'
            <4>1. m.key.type = "PrePrepare" /\ m.block = {b} /\ b.blk = packageBlock(n, body)
                BY DEF m, b, KeyOf
            <4> QED BY <3>1, <4>1 DEF InsertMsg, Sign
        <3> QED BY <3>5, <3>6, <3>7 DEF FoundOrPacked, b
    <2> QED BY <1>10, <2>2, <2>3 DEF MigrateNotStarted
<1>11. CASE MigratePrePreparing(n, lg, bl, q)
    <2> DEFINE s == SlotOf(n)
               c == signBlock(n, bl[s])
    <2>1. net' = net
        BY <1>11 DEF MigratePrePreparing
    <2>2. CASE blocks' = [blocks EXCEPT ![n] = bl] /\ Leave(n, q)
        BY <1>4, <1>5, <1>6, <1>7, <2>1, <2>2 DEF FoundOrPacked
    <2>3. CASE /\ blocks' = [blocks EXCEPT ![n] = bl]
               /\ InsertMsg(n, q, [key |-> KeyOf(n, "Prepare"), block |-> {}])
        <3>1. \A m \in ToSet(queue'[n]) : m \in ToSet(q) \/ \A x \in m.block : Heir(n, x)
            BY <1>9, <2>3 DEF MsgTypes
        <3> QED BY <1>4, <1>5, <1>6, <2>1, <2>3, <3>1 DEF FoundOrPacked
    <2>4. CASE /\ s \in DOMAIN bl
               /\ blocks' = [blocks EXCEPT ![n] = [bl EXCEPT ![s] = c]]
               /\ InsertMsg(n, q, [key |-> KeyOf(n, "Prepare"), block |-> {c}])
        <3>1. bl[s] \in SignedBlock /\ bl[s].blk.num = blockNum[n] + 1 /\ bl[s].blk.view = view[n]
            BY <1>0, <2>4 DEF SoundStore, SlotOf
        <3>2. /\ c.blk = bl[s].blk /\ bl[s].pairs \subseteq c.pairs
              /\ \A p \in c.pairs : p \in bl[s].pairs \/ p = [by |-> n, of |-> Hash(bl[s].blk)]
            BY <3>1, SigningAdds
        <3>3. c \in SignedBlock
            <4>1. bl[s] = [blk |-> bl[s].blk, pairs |-> bl[s].pairs]
                  /\ bl[s].blk \in Block /\ bl[s].pairs \subseteq Pair
                BY <3>1 DEF SignedBlock
            <4>2. Hash(bl[s].blk) \in Nat \X Nat \X (Bodies \cup {0})
                BY <4>1 DEF Hash, Block
            <4>3. [by |-> n, of |-> Hash(bl[s].blk)] \in Pair
                BY <4>2 DEF Pair
            <4>4. c = bl[s] \/ c = [blk |-> bl[s].blk,
                                    pairs |-> bl[s].pairs \cup {[by |-> n, of |-> Hash(bl[s].blk)]}]
                BY <4>1 DEF signBlock
            <4> QED BY <3>1, <4>1, <4>3, <4>4 DEF SignedBlock
        <3>4. Kin(bl[s])
            BY <1>2, <2>4
        <3>5. InsertMsg(n, q, [key |-> KeyOf(n, "Prepare"), block |-> {c}])
            BY <2>4
        <3>6. blocks'[n] = [bl EXCEPT ![s] = c] /\ s \in DOMAIN bl
            BY <1>5, <2>4
        <3> HIDE DEF c, s
        <3>7. /\ DOMAIN blocks'[n] = DOMAIN bl /\ blocks'[n][s] = c
              /\ \A t \in DOMAIN bl : t # s => blocks'[n][t] = bl[t]
            BY <1>0, <3>6 DEF SoundStore
        <3>8. Heir(n, c)
            <4>1. SlotOf(n) = s
                BY DEF s
            <4> QED BY <3>2, <3>4, <3>6, <3>7, <4>1 DEF Heir, Kin
        <3>9. \A m \in ToSet(queue'[n]) : m \in ToSet(q) \/ m.block = {c}
            <4>1. c.blk.num = blockNum[n] + 1 /\ c.blk.view = view[n]
                BY <3>1, <3>2
            <4> QED BY <1>8, <3>3, <3>5, <4>1 DEF MsgTypes
        <3> QED BY <1>4, <1>6, <2>1, <3>7, <3>8, <3>9 DEF FoundOrPacked
    <2>5. CASE AwaitsPrimary(n, bl, q)
        BY <2>2, <2>5 DEF AwaitsPrimary
    <2>6. CASE FindsNoBlock(n, bl, q) \/ FindsSignedBlock(n, bl, q)
        BY <2>3, <2>6 DEF FindsNoBlock, FindsSignedBlock
    <2>7. CASE SignsBlock(n, bl, q)
        BY <2>4, <2>7 DEF SignsBlock
    <2> QED BY <1>0, <1>11, <2>5, <2>6, <2>7, PrePreparingCases
<1>12. CASE MigratePreparing(n, lg, bl, q)
    <2>1. blocks'[n] = bl /\ net' = net
        BY <1>5, <1>12 DEF MigratePreparing
    <2>2. \A m \in ToSet(queue'[n]) : m \in ToSet(q) \/ \A x \in m.block : Heir(n, x)
        BY <1>7, <1>9, <1>12 DEF MigratePreparing, MsgTypes
    <2> QED BY <1>4, <1>6, <2>1, <2>2 DEF FoundOrPacked
<1>13. CASE MigrateChecking(n, lg, bl, q)
    <2>1. blocks'[n] = bl /\ net' = net
        BY <1>5, <1>13 DEF MigrateChecking
    <2>2. \A m \in ToSet(queue'[n]) : m \in ToSet(q) \/ \A x \in m.block : Heir(n, x)
        BY <1>7, <1>9, <1>13 DEF MigrateChecking, MsgTypes
    <2> QED BY <1>4, <1>6, <2>1, <2>2 DEF FoundOrPacked
<1>14. CASE MigrateCommitting(n, lg, bl, q) \/ MigrateFinished(n, lg, bl, q)
            \/ MigrateViewChanging(n, lg, bl, q)
    <2>1. blocks'[n] = bl /\ net' = net /\ Leave(n, q)
        BY <1>5, <1>14 DEF MigrateCommitting, MigrateFinished, MigrateViewChanging
    <2> QED BY <1>4, <1>6, <1>7, <2>1 DEF FoundOrPacked
<1> QED
    BY <1>10, <1>11, <1>12, <1>13, <1>14 DEF StateMigrate

LEMMA StepHeld ==
    ASSUME MaxFaults = 0, TypeInv, CalmInv, BlockInv, NEW n \in Node, Step(n)
    PROVE  FoundOrPacked(n)
<1>0. /\ log \in [Node -> SUBSET SoundEntry] /\ queue \in [Node -> Seq(SoundMsg)]
      /\ \A p \in Node : p # n => Alone(p)
    BY OthersAlone DEF TypeInv, MsgType, OwnType
<1>1. \A x \in Held : Heir(n, x)
    BY HeldIsKin, KinIsHeir
<1>2. /\ \A e \in log[n] : \A x \in e.block : x \in Held
      /\ \A s \in DOMAIN blocks[n] : blocks[n][s] \in Held
      /\ \A m \in ToSet(queue[n]) : \A x \in m.block : x \in Held
    BY InHeld, InBlocksOf
<1>3. ASSUME \A e \in log'[n] : \E f \in log[n] : e.block = f.block,
             \A m \in ToSet(queue'[n]) : m \in ToSet(queue[n]) \/ m.block = {},
             UNCHANGED blocks,
             \A c \in net' : c \in net \/ \A x \in c.msg.block : x \in Held
      PROVE  FoundOrPacked(n)
    <2> SUFFICES ASSUME NEW x \in Held' PROVE x \in Held
        BY <1>1 DEF FoundOrPacked
    <2>1. CASE x \in BlocksOf(log'[n], blocks'[n], queue'[n])
        <3>1. \/ \E e \in log'[n] : x \in e.block
              \/ \E s \in DOMAIN blocks'[n] : x = blocks'[n][s]
              \/ \E m \in ToSet(queue'[n]) : x \in m.block
            BY <2>1, InBlocksOf
        <3> QED BY <1>2, <1>3, <3>1
    <2> QED BY <1>0, <1>3, <2>1, HeldAfter
<1>4. ASSUME NEW type \in MsgTypes, type = "ViewChange" => view[n] < MaxView,
             InsertMsg(n, queue[n], [key |-> KeyOf(n, type), block |-> {}])
      PROVE  \A m \in ToSet(queue'[n]) : m \in ToSet(queue[n]) \/ m.block = {}
    <2> DEFINE m == [key |-> KeyOf(n, type), block |-> {}]
    <2>1. m \in SoundMsg /\ m.block = {}
        BY <1>4, OwnKeys DEF SoundMsg, Fits
    <2>2. InsertMsg(n, queue[n], m)
        BY <1>4
    <2> HIDE DEF m
    <2> QED BY <1>0, <2>1, <2>2, Inserted
<1>5. CASE Migrate(n)
    BY <1>0, <1>5, MigrateHeld DEF Migrate
<1>6. CASE Refuse(n)
    <2>1. \A m \in ToSet(queue'[n]) : m \in ToSet(queue[n])
        <3>1. CASE queue[n] # <<>> /\ queue' = [queue EXCEPT ![n] = Tail(@)]
            <4>1. queue'[n] = Tail(queue[n]) /\ ToSet(queue[n]) = {Head(queue[n])} \cup ToSet(Tail(queue[n]))
                BY <1>0, <3>1, HeadAndTail
            <4> QED BY <4>1
        <3> QED BY <1>6, <3>1 DEF Refuse
    <2>2. UNCHANGED <<log, blocks, net>>
        BY <1>6 DEF Refuse, mm
    <2> QED BY <1>3, <2>1, <2>2
<1>7. CASE Timeout(n)
    <2>1. view[n] < MaxView /\ UNCHANGED <<log, blocks, net>>
        BY <1>7 DEF Timeout, mm
    <2>2. CASE InsertMsg(n, queue[n], [key |-> KeyOf(n, "ViewChange"), block |-> {}])
        BY <1>3, <1>4, <2>1, <2>2 DEF MsgTypes
    <2>3. CASE UNCHANGED queue
        BY <1>3, <2>1, <2>3
    <2> QED BY <1>7, <2>2, <2>3 DEF Timeout
<1>8. CASE TryProposal(n)
    <2> DEFINE m == [key |-> KeyOf(n, "NewBlockProposal"), block |-> {}]
    <2>1. InsertMsg(n, queue[n], m) /\ UNCHANGED <<log, blocks>> /\ net' = net \cup Copies(n, m)
        BY <1>8 DEF TryProposal, mm
    <2>2. \A c \in net' : c \in net \/ c.msg.block = {}
        BY <2>1 DEF Copies
    <2>3. \A r \in ToSet(queue'[n]) : r \in ToSet(queue[n]) \/ r.block = {}
        BY <1>4, <2>1 DEF MsgTypes
    <2> QED BY <1>3, <2>1, <2>2, <2>3
<1>9. CASE Broadcast(n)
    <2>1. UNCHANGED <<queue, blocks>>
        BY <1>9 DEF Broadcast
    <2>2. CASE UNCHANGED <<log, net>>
        BY <1>3, <2>1, <2>2
    <2>3. ASSUME NEW e \in log[n], NEW b \in Payloads(n, e),
                 log' = [log EXCEPT ![n] = (@ \ {e}) \cup {[e EXCEPT !.sent = TRUE]}],
                 net' = net \cup Copies(n, [key |-> e.key, block |-> b])
          PROVE  FoundOrPacked(n)
        <3> DEFINE f == [e EXCEPT !.sent = TRUE]
                   m == [key |-> e.key, block |-> b]
        <3>1. f.block = e.block
            BY <1>0, SentEntry
        <3>2. b = e.block \/ \E s \in DOMAIN blocks[n] : b = {blocks[n][s]}
            BY DEF Payloads
        <3>3. m.block \subseteq Held
            BY <1>2, <3>2
        <3>4. log' = [log EXCEPT ![n] = (@ \ {e}) \cup {f}] /\ net' = net \cup Copies(n, m)
            BY <2>3
        <3> HIDE DEF f, m
        <3>5. \A c \in net' : c \in net \/ c.msg = m
            BY <3>4 DEF Copies
        <3>6. \A g \in log'[n] : \E h \in log[n] : g.block = h.block
            BY <1>0, <3>1, <3>4
        <3> QED BY <1>3, <2>1, <3>3, <3>5, <3>6
    <2> QED BY <1>9, <2>2, <2>3 DEF Broadcast
<1>10. CASE Rebroadcast(n)
    <2>1. UNCHANGED <<log, blocks, queue>>
        BY <1>10 DEF Rebroadcast, mm
    <2>2. \A c \in net' : c \in net \/ c.msg.block = {}
        BY <1>10 DEF Rebroadcast, Copies
    <2> QED BY <1>3, <2>1, <2>2
<1>11. CASE Start(n)
    BY <1>3, <1>11 DEF Start, mm
<1> QED BY <1>5, <1>6, <1>7, <1>8, <1>9, <1>10, <1>11, StepCases

(***************************************************************************)
(* One block a slot, and its signatures are signatures on it.              *)
(***************************************************************************)

\* A replica goes on to the next height or view, or stays in its slot, where it
\* does not return to NotStarted.
Onward(n) ==
    \/ blockNum'[n] = blockNum[n] + 1
    \/ blockNum'[n] = blockNum[n] /\ view'[n] = view[n] + 1
    \/ /\ blockNum'[n] = blockNum[n] /\ view'[n] = view[n]
       /\ state[n] # "NotStarted" => state'[n] # "NotStarted"

LEMMA MigrateOnward ==
    ASSUME TypeInv, NEW n \in Node, NEW lg, NEW bl, NEW q, StateMigrate(n, lg, bl, q)
    PROVE  Onward(n)
<1>0. /\ blockNum \in [Node -> 0 .. MaxNum] /\ view \in [Node -> 0 .. MaxView]
      /\ state \in [Node -> States]
    BY DEF TypeInv, ChainType, EngineType
<1>1. ASSUME NEW s, ChangeState(n, s) PROVE state'[n] = s
    BY <1>0, <1>1 DEF ChangeState
<1>2. CASE MigrateNotStarted(n, lg, bl, q)
    BY <1>2 DEF MigrateNotStarted, Onward, chainVars
<1>3. CASE MigratePrePreparing(n, lg, bl, q)
    BY <1>1, <1>3 DEF MigratePrePreparing, Onward, chainVars, Stay
<1>4. CASE MigratePreparing(n, lg, bl, q)
    BY <1>1, <1>4 DEF MigratePreparing, Onward, chainVars, Stay
<1>5. CASE MigrateChecking(n, lg, bl, q)
    BY <1>1, <1>5 DEF MigrateChecking, Onward, chainVars, Stay
<1>6. CASE MigrateCommitting(n, lg, bl, q)
    BY <1>1, <1>6 DEF MigrateCommitting, Onward, chainVars, Stay
<1>7. CASE MigrateFinished(n, lg, bl, q)
    <2>1. CASE UNCHANGED <<blockNum, view>> /\ ChangeState(n, "ViewChanging")
        BY <1>1, <2>1 DEF Onward, chainVars
    <2>2. ASSUME NEW b, CommitBlock(n, b) PROVE Onward(n)
        BY <1>0, <2>2 DEF CommitBlock, Onward
    <2> QED BY <1>7, <2>1, <2>2 DEF MigrateFinished
<1>8. CASE MigrateViewChanging(n, lg, bl, q)
    <2>1. CASE IncreaseView(n)
        BY <1>0, <1>8, <2>1 DEF MigrateViewChanging, IncreaseView, Onward, chainVars
    <2>2. CASE Stay /\ UNCHANGED view
        BY <1>8, <2>2 DEF MigrateViewChanging, Stay, Onward, chainVars
    <2> QED BY <1>8, <2>1, <2>2 DEF MigrateViewChanging
<1> QED BY <1>2, <1>3, <1>4, <1>5, <1>6, <1>7, <1>8 DEF StateMigrate

LEMMA StepOnward ==
    ASSUME MaxFaults = 0, TypeInv, CalmInv, NEW n \in Node, Step(n), NEW p \in Node
    PROVE  Onward(p)
<1>0. state \in [Node -> States]
    BY DEF TypeInv, EngineType
<1>1. CASE p # n
    BY <1>1, OthersAlone DEF Alone, Onward
<1>2. CASE p = n
    <2>1. CASE Migrate(n)
        BY <1>2, <2>1, MigrateOnward DEF Migrate
    <2>2. CASE Refuse(n)
        BY <1>2, <2>2 DEF Refuse, Onward, chainVars, sm
    <2>3. CASE Timeout(n)
        BY <1>0, <1>2, <2>3 DEF Timeout, Onward, chainVars, CalmInv
    <2>4. CASE TryProposal(n)
        BY <1>2, <2>4 DEF TryProposal, Onward, chainVars, sm
    <2>5. CASE Broadcast(n)
        BY <1>2, <2>5 DEF Broadcast, Onward, chainVars, sm
    <2>6. CASE Rebroadcast(n)
        BY <1>2, <2>6 DEF Rebroadcast, Onward, chainVars, sm
    <2>7. CASE Start(n)
        BY <1>2, <2>7 DEF Start, Onward, chainVars, sm
    <2> QED BY <2>1, <2>2, <2>3, <2>4, <2>5, <2>6, <2>7, StepCases
<1> QED BY <1>1, <1>2

\* The primary packs one block per slot: packing leaves NotStarted, and without
\* restarts NotStarted is entered only with a new slot (states.go:97-144).
LEMMA BlockStep ==
    ASSUME MaxFaults = 0, TypeInv, CalmInv, BlockInv, NEW n \in Node, Step(n)
    PROVE  BlockInv'
<1>0. /\ blockNum \in [Node -> 0 .. MaxNum] /\ view \in [Node -> 0 .. MaxView]
      /\ Held \subseteq SignedBlock /\ 0 .. MaxNum \subseteq Nat /\ 0 .. MaxView \subseteq Nat
    BY HeldTypes, BoundAssumption DEF TypeInv, ChainType
<1>1. ASSUME NEW y \in Held PROVE Begun(y.blk)'
    <2> DEFINE b == y.blk
               p == Primary(b.num, b.view)
    <2>1. b.num \in Nat /\ b.view \in Nat
        BY <1>0 DEF SignedBlock, Block
    <2>2. p \in Node
        BY <2>1, PrimaryIsNode
    <2>3. Begun(b) /\ Onward(p)
        BY <2>2, StepOnward DEF BlockInv
    <2>4. blockNum[p] \in Nat /\ view[p] \in Nat
        BY <1>0, <2>2
    <2> HIDE DEF p
    <2> QED
        BY <2>1, <2>3, <2>4 DEF Begun, Onward, p
<1>2. ASSUME NEW x \in Held', Heir(n, x)
      PROVE  Begun(x.blk)' /\ \A p \in x.pairs : p.of = Hash(x.blk)
    <2>1. Begun(x.blk)'
        <3>1. PICK y \in Held : y.blk = x.blk
            BY <1>2 DEF Heir
        <3>2. Begun(y.blk)'
            BY <1>1
        <3> QED BY <3>1, <3>2
    <2>2. ASSUME NEW p \in x.pairs PROVE p.of = Hash(x.blk)
        <3>1. CASE \E y \in Held : y.blk = x.blk /\ p \in y.pairs
            BY <3>1 DEF BlockInv
        <3>2. CASE p = [by |-> n, of |-> Hash(x.blk)]
            BY <3>2
        <3> QED BY <1>2, <3>1, <3>2 DEF Heir
    <2> QED BY <2>1, <2>2
<1>3. ASSUME NEW x, NEW z, Heir(n, x), Heir(n, z),
             x.blk.num = z.blk.num, x.blk.view = z.blk.view
      PROVE  x.blk = z.blk
    BY <1>3 DEF Heir, BlockInv
<1>4. CASE \A x \in Held' : Heir(n, x)
    BY <1>2, <1>3, <1>4 DEF BlockInv
<1>5. ASSUME Packs(n), NEW body \in Bodies, NEW b, b = [blk |-> packageBlock(n, body), pairs |-> {}],
             \A x \in Held' : Heir(n, x) \/ x = b
      PROVE  BlockInv'
    <2>1. /\ b.blk.num = blockNum[n] + 1 /\ b.blk.view = view[n] /\ b.pairs = {}
          /\ Primary(b.blk.num, b.blk.view) = n
          /\ state[n] = "NotStarted" /\ state'[n] = "Preparing"
          /\ blockNum'[n] = blockNum[n] /\ view'[n] = view[n]
        BY <1>5 DEF packageBlock, Packs, IsPrimaryVerfier
    <2>2. blockNum[n] \in Nat /\ view[n] \in Nat
        BY <1>0
    <2>3. Begun(b.blk)'
        BY <2>1, <2>2 DEF Begun
    <2>4. ASSUME NEW x, Heir(n, x) PROVE ~ (x.blk.num = b.blk.num /\ x.blk.view = b.blk.view)
        <3>1. PICK y \in Held : y.blk = x.blk
            BY <2>4 DEF Heir
        <3>2. Begun(y.blk)
            BY DEF BlockInv
        <3> SUFFICES ASSUME x.blk.num = b.blk.num, x.blk.view = b.blk.view PROVE FALSE
            OBVIOUS
        <3>3. y.blk.num = blockNum[n] + 1 /\ y.blk.view = view[n] /\ Primary(y.blk.num, y.blk.view) = n
            BY <2>1, <3>1
        <3> QED BY <2>1, <2>2, <3>2, <3>3 DEF Begun
    <2>5. \A x, z \in Held' : x.blk.num = z.blk.num /\ x.blk.view = z.blk.view => x.blk = z.blk
        BY <1>3, <1>5, <2>4
    <2>6. \A x \in Held' : Begun(x.blk)' /\ \A p \in x.pairs : p.of = Hash(x.blk)
        BY <1>2, <1>5, <2>1, <2>3
    <2> QED BY <2>5, <2>6 DEF BlockInv
<1> QED BY <1>4, <1>5, StepHeld DEF FoundOrPacked

(***************************************************************************)
(* The block in hand.                                                      *)
(***************************************************************************)

LEMMA EnoughStays ==
    ASSUME NEW b \in SignedBlock, NEW c \in SignedBlock, b.pairs \subseteq c.pairs, EnoughSigners(b)
    PROVE  EnoughSigners(c)
<1> DEFINE S == {p.by : p \in b.pairs}
           T == {p.by : p \in c.pairs}
<1>1. S \subseteq T /\ T \subseteq Node
    BY DEF SignedBlock, Pair
<1>2. Cardinality(S) + 1 >= minNodeNum
    BY DEF EnoughSigners
<1> HIDE DEF S, T
<1>3. Cardinality(S) \in Nat /\ Cardinality(T) \in Nat /\ Cardinality(S) <= Cardinality(T)
    BY <1>1, CountIsMonotone
<1>4. Cardinality(T) + 1 >= minNodeNum
    BY <1>2, <1>3, QuorumFacts
<1> QED BY <1>4 DEF EnoughSigners, T

HoldsBlock(n) ==
    received[n] =>
        /\ state[n] \in {"Preparing", "Checking", "Committing", "Finished"}
        /\ SlotOf(n) \in DOMAIN blocks[n]
        /\ EnoughSigners(blocks[n][SlotOf(n)])

LEMMA MigrateReceived ==
    ASSUME TypeInv, BlockInv, NEW n \in Node, HoldsBlock(n),
           NEW lg, NEW bl, NEW q, Filing(n, lg, bl, q), StateMigrate(n, lg, bl, q)
    PROVE  HoldsBlock(n)'
<1>0. /\ SoundStore(bl) /\ Grows(blocks[n], bl) /\ SoundStore(blocks[n])
      /\ blocks = [m \in Node |-> blocks[m]]
      /\ received \in [Node -> BOOLEAN] /\ state \in [Node -> States]
    BY FilingFacts DEF TypeInv, StoreType, EngineType
<1> DEFINE s == SlotOf(n)
<1>1. received[n] => s \in DOMAIN bl /\ EnoughSigners(bl[s])
    <2> SUFFICES ASSUME received[n] PROVE s \in DOMAIN bl /\ EnoughSigners(bl[s])
        OBVIOUS
    <2>1. s \in DOMAIN blocks[n] /\ EnoughSigners(blocks[n][s])
        BY DEF HoldsBlock
    <2> HIDE DEF s
    <2>2. s \in DOMAIN bl /\ blocks[n][s] \in SignedBlock /\ bl[s] \in SignedBlock
          /\ blocks[n][s].pairs \subseteq bl[s].pairs
        BY <1>0, <2>1 DEF Grows, SoundStore
    <2> QED BY <2>1, <2>2, EnoughStays
<1>2. ASSUME NEW new, blocks' = [blocks EXCEPT ![n] = new] PROVE blocks'[n] = new
    BY <1>0, <1>2
<1>3. ASSUME NEW t, ChangeState(n, t) PROVE state'[n] = t
    BY <1>0, <1>3 DEF ChangeState
<1>4. ASSUME UNCHANGED <<blockNum, view>> PROVE SlotOf(n)' = s
    BY <1>4 DEF SlotOf
<1>5. ASSUME UNCHANGED <<blockNum, view>>, blocks'[n] = bl,
             received'[n] => s \in DOMAIN bl /\ EnoughSigners(bl[s]),
             received'[n] => state'[n] \in {"Preparing", "Checking", "Committing", "Finished"}
      PROVE  HoldsBlock(n)'
    BY <1>4, <1>5 DEF HoldsBlock
<1>6. ASSUME Receive(n, bl) PROVE received'[n] => s \in DOMAIN bl /\ EnoughSigners(bl[s])
    <2>1. received'[n] => received[n] \/ \E b \in FindBlock(n, bl) : EnoughSigners(b)
        BY <1>0, <1>6 DEF Receive
    <2>2. \A b \in FindBlock(n, bl) : s \in DOMAIN bl /\ b = bl[s]
        BY <1>0, FoundFits
    <2> QED BY <1>1, <2>1, <2>2
<1>7. ~ received'[n] => HoldsBlock(n)'
    BY DEF HoldsBlock
<1>8. CASE MigrateNotStarted(n, lg, bl, q)
    BY <1>7, <1>8 DEF MigrateNotStarted, HoldsBlock
<1>9. CASE MigratePrePreparing(n, lg, bl, q)
    <2>1. state[n] = "PrePreparing" /\ UNCHANGED <<blockNum, view>> /\ ~ received[n]
        BY <1>9 DEF MigratePrePreparing, HoldsBlock, chainVars
    <2>2. CASE received' = received
        BY <1>7, <2>1, <2>2
    <2>3. CASE /\ ChangeState(n, "Preparing") /\ s \in DOMAIN bl /\ EnoughSigners(bl[s])
               /\ blocks' = [blocks EXCEPT ![n] = bl]
        BY <1>2, <1>3, <1>5, <2>1, <2>3
    <2>4. CASE HasPrePrepare(n, lg) /\ FindsSignedBlock(n, bl, q)
        BY <2>3, <2>4 DEF HasPrePrepare, FindsSignedBlock
    <2>5. CASE AwaitsPrimary(n, bl, q) \/ FindsNoBlock(n, bl, q) \/ SignsBlock(n, bl, q)
        BY <2>2, <2>5 DEF AwaitsPrimary, FindsNoBlock, SignsBlock
    <2> QED BY <1>0, <1>9, <2>4, <2>5, PrePreparingCases
<1>10. CASE MigratePreparing(n, lg, bl, q)
    <2>1. /\ state[n] = "Preparing" /\ UNCHANGED <<blockNum, view>> /\ blocks'[n] = bl
          /\ received' = received \/ Receive(n, bl)
        BY <1>2, <1>10 DEF MigratePreparing, chainVars
    <2>2. state'[n] \in {"Preparing", "Checking"}
        BY <1>3, <1>10 DEF MigratePreparing, Stay
    <2>3. received'[n] => s \in DOMAIN bl /\ EnoughSigners(bl[s])
        BY <1>1, <1>6, <2>1
    <2> HIDE DEF s
    <2> QED BY <1>5, <2>1, <2>2, <2>3
<1>11. CASE MigrateChecking(n, lg, bl, q)
    <2>1. UNCHANGED <<blockNum, view>> /\ blocks'[n] = bl /\ Receive(n, bl)
        BY <1>2, <1>11 DEF MigrateChecking, chainVars
    <2>2. state'[n] \in {"Checking", "Committing"}
        BY <1>3, <1>11 DEF MigrateChecking, Stay
    <2> HIDE DEF s
    <2> QED BY <1>5, <1>6, <2>1, <2>2
<1>12. CASE MigrateCommitting(n, lg, bl, q)
    <2>1. UNCHANGED <<blockNum, view, received>> /\ blocks'[n] = bl
        BY <1>2, <1>12 DEF MigrateCommitting, chainVars
    <2>2. state'[n] \in {"Committing", "Finished"}
        BY <1>3, <1>12 DEF MigrateCommitting, Stay
    <2> HIDE DEF s
    <2> QED BY <1>1, <1>5, <2>1, <2>2
<1>13. CASE MigrateFinished(n, lg, bl, q)
    BY <1>0, <1>7, <1>13 DEF MigrateFinished
<1>14. CASE MigrateViewChanging(n, lg, bl, q)
    BY <1>7, <1>14 DEF MigrateViewChanging, HoldsBlock
<1> QED BY <1>8, <1>9, <1>10, <1>11, <1>12, <1>13, <1>14 DEF StateMigrate

LEMMA ReceivedStep ==
    ASSUME MaxFaults = 0, TypeInv, CalmInv, BlockInv, ReceivedInv, NEW n \in Node, Step(n)
    PROVE  ReceivedInv'
<1>0. received \in [Node -> BOOLEAN]
    BY DEF TypeInv, EngineType
<1>1. \A m \in Node : HoldsBlock(m)
    BY DEF HoldsBlock, ReceivedInv
<1>2. ASSUME NEW p \in Node, p # n PROVE HoldsBlock(p)'
    <2>1. Alone(p) /\ HoldsBlock(p)
        BY <1>1, <1>2, OthersAlone
    <2> QED BY <2>1 DEF Alone, HoldsBlock, SlotOf
<1>3. HoldsBlock(n)'
    <2>0. HoldsBlock(n)
        BY <1>1
    <2>1. CASE Migrate(n)
        BY <2>0, <2>1, MigrateReceived DEF Migrate
    <2>2. CASE UNCHANGED <<blockNum, view, received, state, blocks>>
        BY <2>0, <2>2 DEF HoldsBlock, SlotOf
    <2>3. CASE Timeout(n)
        <3>1. ~ received'[n] \/ UNCHANGED <<blockNum, view, received, state, blocks>>
            BY <1>0, <2>3 DEF Timeout, chainVars, mm
        <3> QED BY <2>2, <3>1 DEF HoldsBlock
    <2>4. Refuse(n) \/ TryProposal(n) \/ Broadcast(n) \/ Rebroadcast(n) \/ Start(n)
             => UNCHANGED <<blockNum, view, received, state, blocks>>
        BY DEF Refuse, TryProposal, Broadcast, Rebroadcast, Start, chainVars, sm, mm
    <2> QED BY <2>1, <2>2, <2>3, <2>4, StepCases
<1> QED BY <1>2, <1>3 DEF HoldsBlock, ReceivedInv

LEMMA CalmStep ==
    ASSUME MaxFaults = 0, TypeInv, CalmInv, NEW n \in Node, Step(n) PROVE CalmInv'
<1>0. stopped \in [Node -> BOOLEAN] /\ state \in [Node -> States]
    BY DEF TypeInv, EngineType
<1>1. ASSUME NEW p \in Node, p # n PROVE stopped'[p] => state'[p] = "NotStarted"
    BY <1>1, OthersAlone DEF Alone, CalmInv
<1>2. faults' = 0 /\ (stopped'[n] => state'[n] = "NotStarted")
    <2>1. CASE Migrate(n)
        BY <2>1 DEF Migrate, StateMigrate, CalmInv
    <2>2. CASE UNCHANGED <<stopped, faults, state>>
        BY <2>2 DEF CalmInv
    <2>3. CASE Timeout(n)
        BY <2>3 DEF Timeout, CalmInv
    <2>4. CASE Start(n)
        BY <1>0, <2>4 DEF Start, CalmInv
    <2>5. Refuse(n) \/ TryProposal(n) \/ Broadcast(n) \/ Rebroadcast(n)
             => UNCHANGED <<stopped, faults, state>>
        BY DEF Refuse, TryProposal, Broadcast, Rebroadcast, sm
    <2> QED BY <2>1, <2>2, <2>3, <2>4, <2>5, StepCases
<1> QED BY <1>1, <1>2 DEF CalmInv

LEMMA NothingHeld == ASSUME Init PROVE Held = {}
<1> SUFFICES ASSUME NEW x \in Held PROVE FALSE
    OBVIOUS
<1>1. x \notin UNION {c.msg.block : c \in net}
    BY DEF Init
<1>2. PICK n \in Node : x \in BlocksOf(log[n], blocks[n], queue[n])
    BY <1>1, InHeld
<1>3. log[n] = {} /\ DOMAIN blocks[n] = {} /\ ToSet(queue[n]) = {}
    BY NothingIn DEF Init
<1> QED BY <1>2, <1>3, InBlocksOf

LEMMA CalmBlockInit == Init => CalmBlockInv
BY NothingHeld, InitTypes DEF Init, CalmBlockInv, CalmInv, BlockInv, ReceivedInv

LEMMA CalmBlockStep ==
    ASSUME MaxFaults = 0, CalmBlockInv, [Next]_vars PROVE CalmBlockInv'
<1>1. CASE UNCHANGED vars
    <2>1. CalmInv'
        BY <1>1 DEF vars, CalmBlockInv, CalmInv, sm
    <2>2. BlockInv'
        BY <1>1 DEF vars, chainVars, sm, mm, CalmBlockInv, BlockInv, Held, Begun
    <2>3. ReceivedInv'
        BY <1>1 DEF vars, chainVars, sm, mm, CalmBlockInv, ReceivedInv, SlotOf
    <2> QED BY <2>1, <2>2, <2>3, TypeStep DEF CalmBlockInv
<1>2. ASSUME NEW n \in Node, Step(n) PROVE CalmBlockInv'
    BY <1>2, TypeStep, CalmStep, BlockStep, ReceivedStep DEF CalmBlockInv
<1> QED BY <1>1, <1>2 DEF Next

\* The block a replica votes on, and would commit, is one its peers accept: though
\* addBlock merges signatures by slot and looks at no hash, enough of the merged
\* ones sign this very block (log_msg.go:130-141, verify.go:198-215).
THEOREM ReceivedBlockIsSigned == ASSUME MaxFaults = 0 PROVE Spec => []ReceivedIsSigned
<1>1. CalmBlockInv => ReceivedIsSigned
    <2> SUFFICES ASSUME CalmBlockInv, NEW n \in Node, received[n]
                 PROVE  \E b \in FindBlock(n, blocks[n]) : VerfifyMostBlock(b)
        BY DEF ReceivedIsSigned
    <2> DEFINE b == blocks[n][SlotOf(n)]
    <2>1. SlotOf(n) \in DOMAIN blocks[n] /\ EnoughSigners(b)
        BY DEF CalmBlockInv, ReceivedInv
    <2>2. FindBlock(n, blocks[n]) = {b}
        BY <2>1, FoundFits DEF CalmBlockInv, TypeInv, StoreType
    <2>3. b \in Held
        BY <2>1, InHeld, InBlocksOf
    <2>4. \A p \in b.pairs : p.of = Hash(b.blk)
        BY <2>3 DEF CalmBlockInv, BlockInv
    <2>5. b.pairs = {p \in b.pairs : p.of = Hash(b.blk)}
        BY <2>4
    <2>6. VerfifyMostBlock(b)
        BY <2>1, <2>5 DEF VerfifyMostBlock, EnoughSigners
    <2> QED BY <2>2, <2>6
<1> QED BY <1>1, CalmBlockInit, CalmBlockStep, PTL DEF Spec

=============================================================================
