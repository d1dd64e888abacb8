---------------------------- MODULE Ledger_proofs ----------------------------
(***************************************************************************)
(* What holds of Ledger for every chain, cache, number of blocks and of    *)
(* crashes.  First, block_meta never points past the stored blocks and a   *)
(* node that has made its genesis starts again; both rest on the           *)
(* committers keeping out of each other's way, which IInv describes.       *)
(* Then the type of the state.  Then the databases: CacheInv and HandInv   *)
(* say what the cache and the accounts in Exec's hands are, seen from the  *)
(* store, BootInv what a starting node has stored, and ReplayInv at every  *)
(* statement of CommitBlock how far the databases are in the replay of the *)
(* decided blocks.  Last, MoneyInv: an amount is missing, never extra,     *)
(* while its sender has been stored and its recipient has not, but for what*)
(* accounts pay to themselves.                                             *)
(***************************************************************************)
EXTENDS Ledger, TLAPS, InductionFacts, FiniteSetTheorems

\* Inside CommitBlock, and the part of it before BlockNum is increased.
Statement == {"apply", "transfer", "debit", "credit", "record", "increase"}
Committing == Statement \cup {"setValue", "block", "number", "meta"}

\* Values the argument is about.
Values ==
    /\ numDB \subseteq Nat /\ blockDB \subseteq Nat
    /\ metaDB = None \/ metaDB \in Nat
    /\ blockNum \in Nat
    /\ received \in 0 .. MaxHeight
    /\ filed \subseteq 1 .. MaxHeight
    /\ pc \in [Committers -> Statements]
    /\ block \in [Committers -> 0 .. MaxHeight]
    /\ StopFlag \in BOOLEAN /\ overlapped \in BOOLEAN

\* A process that is not running has no goroutine at work.
NotRunning ==
    ~ Running => /\ \A c \in Committers : pc[c] = "idle"
                 /\ state = "NotStarted"

\* What a starting process has stored of its genesis.
GenesisOrder ==
    /\ phase = "setBlock" => 0 \in numDB
    /\ phase = "setMeta" => 0 \in numDB /\ 0 \in blockDB
    /\ phase \in {"loadAccounts", "running"} => metaDB # None

\* A goroutine inside CommitBlock commits the block after block_meta's, and
\* has stored what comes before its statement.
CommitOrder ==
    \A c \in Committers : pc[c] \in Committing =>
        /\ block[c] = metaDB + 1
        /\ blockNum = IF pc[c] \in Statement THEN metaDB ELSE block[c]
        /\ pc[c] \in {"number", "meta"} => block[c] \in blockDB
        /\ pc[c] = "meta" => block[c] \in numDB

\* Between blocks the node is where block_meta says.
Settled ==
    Running /\ (\A c \in Committers : pc[c] \notin Committing) => blockNum = metaDB

\* While the blockchain module's goroutine commits, the daemon has nothing to
\* commit; while it stops the engine, the daemon is asleep.
Apart ==
    /\ pc["chain"] \in Committing =>
          state \notin {"Committing", "Finished"} /\ pc["daemon"] \in {"idle", "migrate"}
    /\ pc["chain"] = "stop" => StopFlag /\ pc["daemon"] = "idle"
    /\ pc["daemon"] = "enterFinished" => state = "Committing"

\* A daemon that is to commit has a block in hand.
InHand ==
    state \in {"Committing", "Finished"} /\ pc["chain"] # "stop" => received # 0

\* block_meta points to a stored block, as StoredHeightHasItsBlock says.
Stored ==
    metaDB # None => 0 .. metaDB \subseteq numDB \cap blockDB

\* All this, and the process has given up only while making its genesis.
Ordered ==
    /\ GenesisOrder /\ CommitOrder /\ Settled /\ Apart /\ InHand /\ Stored
    /\ phase \in {"fatal", "panicked"} => metaDB = None

\* Committers that have not met keep this order.
IInv == Values /\ NotRunning /\ (~ overlapped => Ordered)

USE DEF Committing, Statement, Statements, Committers, Running

\* A node without data satisfies it.
LEMMA InitIInv == Init => IInv
<1> SUFFICES ASSUME Init PROVE IInv
    OBVIOUS
<1>1. /\ \A c \in Committers : pc[c] = "idle"
      /\ pc \in [Committers -> Statements]
    BY DEF Init
<1>2. block \in [Committers -> 0 .. MaxHeight]
    BY LedgerAssumption DEF Init
<1>3. Values
    BY <1>1, <1>2, LedgerAssumption DEF Init, Values
<1>4. Ordered
    BY <1>1 DEF Init, Ordered, GenesisOrder, CommitOrder, Settled, Apart, InHand, Stored
<1> QED BY <1>1, <1>3, <1>4 DEF Init, IInv, NotRunning

\* SetGenesisNumber keeps it.
LEMMA SetGenesisNumberIInv == ASSUME IInv, SetGenesisNumber PROVE IInv'
<1>1. Values'
    BY LedgerAssumption DEF IInv, Values, SetGenesisNumber, ws, engine, exec
<1>2. NotRunning'
    BY DEF IInv, Values, NotRunning, SetGenesisNumber, ws, engine, exec
<1>3. ASSUME ~ overlapped' PROVE Ordered'
    BY <1>3, LedgerAssumption DEF IInv, Values, NotRunning, Ordered, GenesisOrder, CommitOrder, Settled, Apart, InHand, Stored, SetGenesisNumber, ws, engine, exec
<1> QED BY <1>1, <1>2, <1>3 DEF IInv

\* SetGenesisBlock keeps it.
LEMMA SetGenesisBlockIInv == ASSUME IInv, SetGenesisBlock PROVE IInv'
<1>1. Values'
    BY LedgerAssumption DEF IInv, Values, SetGenesisBlock, ws, engine, exec
<1>2. NotRunning'
    BY DEF IInv, Values, NotRunning, SetGenesisBlock, ws, engine, exec
<1>3. ASSUME ~ overlapped' PROVE Ordered'
    BY <1>3, LedgerAssumption DEF IInv, Values, NotRunning, Ordered, GenesisOrder, CommitOrder, Settled, Apart, InHand, Stored, SetGenesisBlock, ws, engine, exec
<1> QED BY <1>1, <1>2, <1>3 DEF IInv

\* SetGenesisMeta keeps it.
LEMMA SetGenesisMetaIInv == ASSUME IInv, SetGenesisMeta PROVE IInv'
<1>1. Values'
    BY LedgerAssumption DEF IInv, Values, SetGenesisMeta, ws, engine, exec
<1>2. NotRunning'
    BY DEF IInv, Values, NotRunning, SetGenesisMeta, ws, engine, exec
<1>3. ASSUME ~ overlapped' PROVE Ordered'
    BY <1>3, LedgerAssumption DEF IInv, Values, NotRunning, Ordered, GenesisOrder, CommitOrder, Settled, Apart, InHand, Stored, SetGenesisMeta, ws, engine, exec
<1> QED BY <1>1, <1>2, <1>3 DEF IInv

\* LoadAccount keeps it.
LEMMA LoadAccountIInv == ASSUME IInv, LoadAccount PROVE IInv'
<1>1. Values'
    BY LedgerAssumption DEF IInv, Values, LoadAccount, ws, engine, exec
<1>2. NotRunning'
    BY DEF IInv, Values, NotRunning, LoadAccount, ws, engine, exec
<1>3. ASSUME ~ overlapped' PROVE Ordered'
    BY <1>3, LedgerAssumption DEF IInv, Values, NotRunning, Ordered, GenesisOrder, CommitOrder, Settled, Apart, InHand, Stored, LoadAccount, ws, engine, exec
<1> QED BY <1>1, <1>2, <1>3 DEF IInv

\* Run keeps it.
LEMMA RunIInv == ASSUME IInv, Run PROVE IInv'
<1>1. Values'
    BY LedgerAssumption DEF IInv, Values, Run, GetBlockMeta, GetBlockByNum, disk, ws, engine, exec
<1>2. NotRunning'
    BY DEF IInv, Values, NotRunning, Run, GetBlockMeta, GetBlockByNum, disk, ws, engine, exec
<1>3. ASSUME ~ overlapped' PROVE Ordered'
    BY <1>3, LedgerAssumption DEF IInv, Values, NotRunning, Ordered, GenesisOrder, CommitOrder, Settled, Apart, InHand, Stored, Run, GetBlockMeta, GetBlockByNum, disk, ws, engine, exec
<1> QED BY <1>1, <1>2, <1>3 DEF IInv

\* Crash keeps it.
LEMMA CrashIInv == ASSUME IInv, Crash PROVE IInv'
<1>1. Values'
    BY LedgerAssumption DEF IInv, Values, Crash, Forgotten, disk, ws, engine, exec
<1>2. NotRunning'
    BY DEF IInv, Values, NotRunning, Crash, Forgotten, disk, ws, engine, exec
<1>3. ASSUME ~ overlapped' PROVE Ordered'
    BY <1>3, LedgerAssumption DEF IInv, Values, NotRunning, Ordered, GenesisOrder, CommitOrder, Settled, Apart, InHand, Stored, Crash, Forgotten, disk, ws, engine, exec
<1> QED BY <1>1, <1>2, <1>3 DEF IInv

\* Restart keeps it.
LEMMA RestartIInv == ASSUME IInv, Restart PROVE IInv'
<1>1. Values'
    BY LedgerAssumption DEF IInv, Values, Restart, GetBlockByNum, disk, ws, engine, exec
<1>2. NotRunning'
    BY DEF IInv, Values, NotRunning, Restart, GetBlockByNum, disk, ws, engine, exec
<1>3. ASSUME ~ overlapped' PROVE Ordered'
    BY <1>3, LedgerAssumption DEF IInv, Values, NotRunning, Ordered, GenesisOrder, CommitOrder, Settled, Apart, InHand, Stored, Restart, GetBlockByNum, disk, ws, engine, exec
<1> QED BY <1>1, <1>2, <1>3 DEF IInv

\* ExecSender keeps it.
LEMMA ExecSenderIInv == ASSUME NEW c \in Committers, IInv, ExecSender(c) PROVE IInv'
<1>1. Values'
    BY LedgerAssumption DEF IInv, Values, ExecSender, AtTx, Fail, Leave, ChangeState, Goto, disk, ws, engine, exec
<1>2. NotRunning'
    BY DEF IInv, Values, NotRunning, ExecSender, AtTx, Fail, Leave, ChangeState, Goto, disk, ws, engine, exec
<1>3. ASSUME ~ overlapped' PROVE Ordered'
    BY <1>3, LedgerAssumption DEF IInv, Values, NotRunning, Ordered, GenesisOrder, CommitOrder, Settled, Apart, InHand, Stored, ExecSender, AtTx, Fail, Leave, ChangeState, Goto, disk, ws, engine, exec
<1> QED BY <1>1, <1>2, <1>3 DEF IInv

\* ExecTransfer keeps it.
LEMMA ExecTransferIInv == ASSUME NEW c \in Committers, IInv, ExecTransfer(c) PROVE IInv'
<1>1. Values'
    BY LedgerAssumption DEF IInv, Values, ExecTransfer, Goto, disk, ws, engine, exec
<1>2. NotRunning'
    BY DEF IInv, Values, NotRunning, ExecTransfer, Goto, disk, ws, engine, exec
<1>3. ASSUME ~ overlapped' PROVE Ordered'
    BY <1>3, LedgerAssumption DEF IInv, Values, NotRunning, Ordered, GenesisOrder, CommitOrder, Settled, Apart, InHand, Stored, ExecTransfer, Goto, disk, ws, engine, exec
<1> QED BY <1>1, <1>2, <1>3 DEF IInv

\* InsertSender keeps it.
LEMMA InsertSenderIInv == ASSUME NEW c \in Committers, IInv, InsertSender(c) PROVE IInv'
<1>1. Values'
    BY LedgerAssumption DEF IInv, Values, InsertSender, Goto, ws, engine, exec
<1>2. NotRunning'
    BY DEF IInv, Values, NotRunning, InsertSender, Goto, ws, engine, exec
<1>3. ASSUME ~ overlapped' PROVE Ordered'
    BY <1>3, LedgerAssumption DEF IInv, Values, NotRunning, Ordered, GenesisOrder, CommitOrder, Settled, Apart, InHand, Stored, InsertSender, Goto, ws, engine, exec
<1> QED BY <1>1, <1>2, <1>3 DEF IInv

\* InsertRecipient keeps it.
LEMMA InsertRecipientIInv == ASSUME NEW c \in Committers, IInv, InsertRecipient(c) PROVE IInv'
<1>1. Values'
    BY LedgerAssumption DEF IInv, Values, InsertRecipient, Goto, ws, engine, exec
<1>2. NotRunning'
    BY DEF IInv, Values, NotRunning, InsertRecipient, Goto, ws, engine, exec
<1>3. ASSUME ~ overlapped' PROVE Ordered'
    BY <1>3, LedgerAssumption DEF IInv, Values, NotRunning, Ordered, GenesisOrder, CommitOrder, Settled, Apart, InHand, Stored, InsertRecipient, Goto, ws, engine, exec
<1> QED BY <1>1, <1>2, <1>3 DEF IInv

\* InsertTx keeps it.
LEMMA InsertTxIInv == ASSUME NEW c \in Committers, IInv, InsertTx(c) PROVE IInv'
<1>1. Values'
    BY LedgerAssumption DEF IInv, Values, InsertTx, Goto, ws, engine, exec
<1>2. NotRunning'
    BY DEF IInv, Values, NotRunning, InsertTx, Goto, ws, engine, exec
<1>3. ASSUME ~ overlapped' PROVE Ordered'
    BY <1>3, LedgerAssumption DEF IInv, Values, NotRunning, Ordered, GenesisOrder, CommitOrder, Settled, Apart, InHand, Stored, InsertTx, Goto, ws, engine, exec
<1> QED BY <1>1, <1>2, <1>3 DEF IInv

\* InsertTxRecords keeps it.
LEMMA InsertTxRecordsIInv == ASSUME NEW c \in Committers, IInv, InsertTxRecords(c) PROVE IInv'
<1>1. Values'
    BY LedgerAssumption DEF IInv, Values, InsertTxRecords, Goto, ws, engine, exec
<1>2. NotRunning'
    BY DEF IInv, Values, NotRunning, InsertTxRecords, Goto, ws, engine, exec
<1>3. ASSUME ~ overlapped' PROVE Ordered'
    BY <1>3, LedgerAssumption DEF IInv, Values, NotRunning, Ordered, GenesisOrder, CommitOrder, Settled, Apart, InHand, Stored, InsertTxRecords, Goto, ws, engine, exec
<1> QED BY <1>1, <1>2, <1>3 DEF IInv

\* IncreaseBlockNum keeps it.
LEMMA IncreaseBlockNumIInv == ASSUME NEW c \in Committers, IInv, IncreaseBlockNum(c) PROVE IInv'
<1>1. Values'
    BY LedgerAssumption DEF IInv, Values, IncreaseBlockNum, Goto, disk, ws, engine, exec
<1>2. NotRunning'
    BY DEF IInv, Values, NotRunning, IncreaseBlockNum, Goto, disk, ws, engine, exec
<1>3. ASSUME ~ overlapped' PROVE Ordered'
    BY <1>3, LedgerAssumption DEF IInv, Values, NotRunning, Ordered, GenesisOrder, CommitOrder, Settled, Apart, InHand, Stored, IncreaseBlockNum, Goto, disk, ws, engine, exec
<1> QED BY <1>1, <1>2, <1>3 DEF IInv

\* SetValue keeps it.
LEMMA SetValueIInv == ASSUME NEW c \in Committers, IInv, SetValue(c) PROVE IInv'
<1>1. Values'
    BY LedgerAssumption DEF IInv, Values, SetValue, Goto, disk, ws, engine, exec
<1>2. NotRunning'
    BY DEF IInv, Values, NotRunning, SetValue, Goto, disk, ws, engine, exec
<1>3. ASSUME ~ overlapped' PROVE Ordered'
    BY <1>3, LedgerAssumption DEF IInv, Values, NotRunning, Ordered, GenesisOrder, CommitOrder, Settled, Apart, InHand, Stored, SetValue, Goto, disk, ws, engine, exec
<1> QED BY <1>1, <1>2, <1>3 DEF IInv

\* InsertBlock keeps it.
LEMMA InsertBlockIInv == ASSUME IInv, NEW c \in Committers, InsertBlock(c) PROVE IInv'
<1>1. block[c] \in 0 .. MaxHeight /\ blockDB \subseteq Nat /\ blockDB' = blockDB \cup {block[c]}
    BY DEF IInv, Values, InsertBlock
<1>2. blockDB' \subseteq Nat
  <2>1. block[c] \in Nat
      BY <1>1, LedgerAssumption
  <2> QED BY <1>1, <2>1
<1>3. pc' \in [Committers -> Statements]
    BY DEF IInv, Values, InsertBlock, Goto
<1>4. Values'
    BY <1>2, <1>3 DEF IInv, Values, InsertBlock, ws, engine
<1>5. NotRunning'
    BY DEF IInv, Values, NotRunning, InsertBlock, Goto, engine
<1>6. ASSUME ~ overlapped' PROVE Ordered'
    BY <1>6, LedgerAssumption DEF IInv, Values, NotRunning, Ordered, GenesisOrder, CommitOrder, Settled, Apart, InHand, Stored, InsertBlock, Goto, ws, engine
<1> QED BY <1>4, <1>5, <1>6 DEF IInv

\* InsertNumber keeps it.
LEMMA InsertNumberIInv == ASSUME IInv, NEW c \in Committers, InsertNumber(c) PROVE IInv'
<1>1. block[c] \in 0 .. MaxHeight /\ numDB \subseteq Nat /\ numDB' = numDB \cup {block[c]}
    BY DEF IInv, Values, InsertNumber
<1>2. numDB' \subseteq Nat
  <2>1. block[c] \in Nat
      BY <1>1, LedgerAssumption
  <2> QED BY <1>1, <2>1
<1>3. pc' \in [Committers -> Statements]
    BY DEF IInv, Values, InsertNumber, Goto
<1>4. Values'
    BY <1>2, <1>3 DEF IInv, Values, InsertNumber, ws, engine
<1>5. NotRunning'
    BY DEF IInv, Values, NotRunning, InsertNumber, Goto, engine
<1>6. ASSUME ~ overlapped' PROVE Ordered'
    BY <1>6, LedgerAssumption DEF IInv, Values, NotRunning, Ordered, GenesisOrder, CommitOrder, Settled, Apart, InHand, Stored, InsertNumber, Goto, ws, engine
<1> QED BY <1>4, <1>5, <1>6 DEF IInv

\* UpdateLastWorldState keeps it.
LEMMA UpdateLastWorldStateIInv ==
    ASSUME IInv, NEW c \in Committers, UpdateLastWorldState(c) PROVE IInv'
<1>1. /\ pc' = [pc EXCEPT ![c] = "idle"] /\ block' = [block EXCEPT ![c] = 0]
      /\ pc' \in [Committers -> Statements]
      /\ block' \in [Committers -> 0 .. MaxHeight]
    BY LedgerAssumption DEF IInv, Values, UpdateLastWorldState, Leave
<1>2. filed' \subseteq 1 .. MaxHeight /\ received' = 0 /\ StopFlag' = StopFlag
    BY DEF IInv, Values, UpdateLastWorldState, ChangeState
<1>3. Values'
    BY <1>1, <1>2, LedgerAssumption DEF IInv, Values, UpdateLastWorldState, ws
<1>4. NotRunning'
    BY DEF IInv, Values, NotRunning, UpdateLastWorldState, Leave, ChangeState
<1>5. ASSUME ~ overlapped' PROVE Ordered'
  <2>1. Ordered /\ Values
      BY <1>5 DEF IInv, UpdateLastWorldState
  <2>2. /\ metaDB \in Nat /\ blockNum = metaDB + 1
        /\ blockNum \in numDB /\ blockNum \in blockDB
      BY <2>1, LedgerAssumption
      DEF IInv, Values, NotRunning, Ordered, GenesisOrder, CommitOrder, UpdateLastWorldState
  <2>3. metaDB' = metaDB + 1 /\ numDB' = numDB /\ blockDB' = blockDB
      BY <2>2 DEF UpdateLastWorldState
  <2>8. metaDB' \in Nat /\ Stored'
    <3>1. 0 .. metaDB \subseteq numDB \cap blockDB
        BY <2>1, <2>2, LedgerAssumption DEF Ordered, Stored
    <3>2. ASSUME NEW k \in 0 .. metaDB + 1 PROVE k \in numDB /\ k \in blockDB
      <4>1. k \in 0 .. metaDB \/ k = blockNum
          BY <2>2
      <4> QED BY <2>2, <3>1, <4>1
    <3> QED BY <2>2, <2>3, <3>2 DEF Stored
  <2>4. pc'[c] = "idle" /\ \A d \in Committers : d # c => pc'[d] = pc[d] /\ pc[d] \notin Committing
      BY <1>1, <2>1 DEF Ordered, Apart, Values, UpdateLastWorldState
  <2>5. CommitOrder' /\ Settled' /\ GenesisOrder'
      BY <2>3, <2>8, <2>2, <2>4, LedgerAssumption DEF CommitOrder, Settled, GenesisOrder, UpdateLastWorldState, ws, Ordered,
         IInv, NotRunning
  <2>6. Apart' /\ InHand'
      BY <1>1, <2>1, <2>4 DEF Ordered, Apart, InHand, UpdateLastWorldState, ChangeState
  <2>7. phase' = "running"
      BY DEF IInv, NotRunning, UpdateLastWorldState
  <2> QED BY <2>8, <2>5, <2>6, <2>7 DEF Ordered
<1> QED BY <1>3, <1>4, <1>5 DEF IInv

\* Poll keeps it.
LEMMA PollIInv == ASSUME IInv, Poll PROVE IInv'
<1>1. Values'
    BY LedgerAssumption DEF IInv, Values, Poll, Goto, disk, ws, engine, exec
<1>2. NotRunning'
    BY DEF IInv, Values, NotRunning, Poll, Goto, disk, ws, engine, exec
<1>3. ASSUME ~ overlapped' PROVE Ordered'
    BY <1>3, LedgerAssumption DEF IInv, Values, NotRunning, Ordered, GenesisOrder, CommitOrder, Settled, Apart, InHand, Stored, Poll, Goto, disk, ws, engine, exec
<1> QED BY <1>1, <1>2, <1>3 DEF IInv

\* MigrateNotStarted keeps it.
LEMMA MigrateNotStartedIInv == ASSUME IInv, MigrateNotStarted PROVE IInv'
<1>0. \/ state' = state /\ received' = received /\ overlapped' = overlapped
      \/ /\ received' = blockNum + 1 /\ blockNum < MaxHeight
         /\ state' = "Committing"
         /\ overlapped' = (overlapped \/ pc["chain"] # "idle")
    BY DEF MigrateNotStarted
<1>1. received' \in 0 .. MaxHeight /\ overlapped' \in BOOLEAN
  <2>1. received' \in 0 .. MaxHeight
      BY <1>0, LedgerAssumption DEF IInv, Values
  <2>2. overlapped' \in BOOLEAN
      BY <1>0, Zenon DEF IInv, Values
  <2> QED BY <2>1, <2>2
<1>2. pc' = [pc EXCEPT !["daemon"] = "idle"] /\ pc' \in [Committers -> Statements]
    BY DEF IInv, Values, MigrateNotStarted, Goto
<1>3. Values'
    BY <1>1, <1>2 DEF IInv, Values, MigrateNotStarted, disk, ws
<1>4. NotRunning'
    BY <1>2 DEF IInv, NotRunning, Values, MigrateNotStarted
<1>5. ASSUME ~ overlapped' PROVE Ordered'
  <2>4. ~ overlapped
      BY <1>0, <1>5, Zenon
  <2>1. Ordered /\ Values
      BY <2>4 DEF IInv
  <2>2. CASE state' = state /\ received' = received
      BY <1>2, <2>1, <2>2 DEF Values, NotRunning, Ordered, GenesisOrder, CommitOrder, Settled, Apart, InHand, Stored, MigrateNotStarted, disk, ws
  <2>3. CASE received' = blockNum + 1 /\ state' = "Committing" /\ pc["chain"] = "idle"
      BY <1>2, <2>1, <2>3 DEF Values, NotRunning, Ordered, GenesisOrder, CommitOrder, Settled, Apart, InHand, Stored, MigrateNotStarted, disk, ws
  <2> QED BY <1>0, <1>5, <2>2, <2>3, Zenon
<1> QED BY <1>3, <1>4, <1>5 DEF IInv

\* MigrateCommitting keeps it.
LEMMA MigrateCommittingIInv == ASSUME IInv, MigrateCommitting PROVE IInv'
<1>1. Values'
    BY LedgerAssumption DEF IInv, Values, MigrateCommitting, Goto, ChangeState, disk, ws, engine, exec
<1>2. NotRunning'
    BY DEF IInv, Values, NotRunning, MigrateCommitting, Goto, ChangeState, disk, ws, engine, exec
<1>3. ASSUME ~ overlapped' PROVE Ordered'
    BY <1>3, LedgerAssumption DEF IInv, Values, NotRunning, Ordered, GenesisOrder, CommitOrder, Settled, Apart, InHand, Stored, MigrateCommitting, Goto, ChangeState, disk, ws, engine, exec
<1> QED BY <1>1, <1>2, <1>3 DEF IInv

\* EnterFinished keeps it.
LEMMA EnterFinishedIInv == ASSUME IInv, EnterFinished PROVE IInv'
<1>1. Values'
    BY LedgerAssumption DEF IInv, Values, EnterFinished, Goto, disk, ws, engine, exec
<1>2. NotRunning'
    BY DEF IInv, Values, NotRunning, EnterFinished, Goto, disk, ws, engine, exec
<1>3. ASSUME ~ overlapped' PROVE Ordered'
    BY <1>3, LedgerAssumption DEF IInv, Values, NotRunning, Ordered, GenesisOrder, CommitOrder, Settled, Apart, InHand, Stored, EnterFinished, Goto, disk, ws, engine, exec
<1> QED BY <1>1, <1>2, <1>3 DEF IInv

\* MigrateViewChanging keeps it.
LEMMA MigrateViewChangingIInv == ASSUME IInv, MigrateViewChanging PROVE IInv'
<1>1. Values'
    BY LedgerAssumption DEF IInv, Values, MigrateViewChanging, Goto, ChangeState, disk, ws, engine, exec
<1>2. NotRunning'
    BY DEF IInv, Values, NotRunning, MigrateViewChanging, Goto, ChangeState, disk, ws, engine, exec
<1>3. ASSUME ~ overlapped' PROVE Ordered'
    BY <1>3, LedgerAssumption DEF IInv, Values, NotRunning, Ordered, GenesisOrder, CommitOrder, Settled, Apart, InHand, Stored, MigrateViewChanging, Goto, ChangeState, disk, ws, engine, exec
<1> QED BY <1>1, <1>2, <1>3 DEF IInv

\* MigrateFinished keeps it.
LEMMA MigrateFinishedIInv == ASSUME IInv, MigrateFinished PROVE IInv'
<1>1. Values'
  <2>4. received' = 0 \/ received' = received
      BY DEF MigrateFinished, Forgotten, Fail, ChangeState, engine
  <2>5. filed' = {} \/ filed' = filed
      BY DEF MigrateFinished, Forgotten
  <2>6. blockNum' = 0 \/ blockNum' = blockNum
      BY DEF MigrateFinished, Forgotten, ws
  <2>7. received' \in 0 .. MaxHeight
      BY <2>4, LedgerAssumption DEF IInv, Values
  <2>8. filed' \subseteq 1 .. MaxHeight
      BY <2>5 DEF IInv, Values
  <2>9. blockNum' \in Nat
      BY <2>6 DEF IInv, Values
  <2>2. pc' \in [Committers -> Statements] /\ block' \in [Committers -> 0 .. MaxHeight]
      BY LedgerAssumption DEF IInv, Values, MigrateFinished, Forgotten, Begin, Fail, Leave
  <2>3. StopFlag' \in BOOLEAN
      BY DEF IInv, Values, MigrateFinished, Forgotten, Fail, ChangeState, engine
  <2> QED BY <2>7, <2>8, <2>9, <2>2, <2>3 DEF IInv, Values, MigrateFinished, disk
<1>2. NotRunning'
    BY DEF IInv, Values, NotRunning, MigrateFinished, Forgotten, Extends, Begin, Fail, Leave, ChangeState, disk, ws, engine, exec
<1>3. ASSUME ~ overlapped' PROVE Ordered'
    BY <1>3, LedgerAssumption DEF IInv, Values, NotRunning, Ordered, GenesisOrder, CommitOrder, Settled, Apart, InHand, Stored, MigrateFinished, Forgotten, Extends, Begin, Fail, Leave, ChangeState, disk, ws, engine, exec
<1> QED BY <1>1, <1>2, <1>3 DEF IInv

\* Download keeps it.
LEMMA DownloadIInv == ASSUME NEW h \in 1 .. MaxHeight, IInv, Download(h) PROVE IInv'
<1>1. Values'
    BY LedgerAssumption DEF IInv, Values, Download, disk, exec, ws, engine
<1>2. NotRunning'
    BY DEF IInv, Values, NotRunning, Download, disk, exec, ws, engine
<1>3. ASSUME ~ overlapped' PROVE Ordered'
    BY <1>3, LedgerAssumption DEF IInv, Values, NotRunning, Ordered, GenesisOrder, CommitOrder, Settled, Apart, InHand, Stored, Download, disk, exec, ws, engine
<1> QED BY <1>1, <1>2, <1>3 DEF IInv

\* CommitFiled keeps it.
LEMMA CommitFiledIInv ==
    ASSUME IInv, NEW h \in 1 .. MaxHeight, CommitFiled(h) PROVE IInv'
<1>1. CASE UNCHANGED <<pc, block, done, overlapped>>
  <2>1. filed' \subseteq 1 .. MaxHeight
      BY DEF IInv, Values, CommitFiled
  <2>2. Values'
      BY <1>1, <2>1 DEF IInv, Values, CommitFiled, disk, ws, engine
  <2>3. Ordered => Ordered'
      BY <1>1 DEF Values, NotRunning, Ordered, GenesisOrder, CommitOrder, Settled, Apart, InHand, Stored, CommitFiled, disk, ws, engine
  <2>4. NotRunning'
      BY <1>1 DEF IInv, NotRunning, CommitFiled, engine
  <2> QED BY <1>1, <2>2, <2>3, <2>4 DEF IInv
<1>2. CASE Extends(h) /\ Begin("chain", h) /\ overlapped' = (overlapped \/ DaemonAtWork) /\ UNCHANGED filed
  <2>1. /\ pc' = [pc EXCEPT !["chain"] = "apply"] /\ pc' \in [Committers -> Statements]
        /\ block' = [block EXCEPT !["chain"] = h]
        /\ block' \in [Committers -> 0 .. MaxHeight]
        /\ overlapped' \in BOOLEAN
      BY <1>2, LedgerAssumption DEF IInv, Values, Begin, DaemonAtWork
  <2>2. Values'
      BY <1>2, <2>1 DEF IInv, Values, CommitFiled, disk, ws, engine
  <2>3. ASSUME ~ overlapped' PROVE Ordered'
    <3>1. Ordered /\ Values /\ ~ DaemonAtWork
        BY <1>2, <2>3 DEF IInv
    <3>2. blockNum = metaDB /\ h = metaDB + 1 /\ pc["daemon"] = "idle"
        BY <1>2, <3>1 DEF Ordered, Settled, CommitFiled, Extends, DaemonAtWork
    <3>3. CommitOrder' /\ Settled' /\ Apart'
        BY <2>1, <3>1, <3>2 DEF Values, Ordered, CommitOrder, Settled, Apart, CommitFiled, DaemonAtWork, disk, ws, engine
    <3>4. GenesisOrder' /\ InHand' /\ Stored'
        BY <2>1, <3>1 DEF Ordered, GenesisOrder, InHand, Stored, CommitFiled, DaemonAtWork, disk, engine
    <3> QED BY <3>1, <3>3, <3>4 DEF Ordered, CommitFiled, disk
  <2>4. NotRunning'
      BY DEF NotRunning, CommitFiled
  <2> QED BY <2>2, <2>3, <2>4 DEF IInv
<1> QED BY <1>1, <1>2 DEF CommitFiled

\* StartEngine keeps it.
LEMMA StartEngineIInv == ASSUME IInv, StartEngine PROVE IInv'
<1>1. Values'
    BY LedgerAssumption DEF IInv, Values, StartEngine, disk, exec, ws, engine
<1>2. NotRunning'
    BY DEF IInv, Values, NotRunning, StartEngine, disk, exec, ws, engine
<1>3. ASSUME ~ overlapped' PROVE Ordered'
    BY <1>3, LedgerAssumption DEF IInv, Values, NotRunning, Ordered, GenesisOrder, CommitOrder, Settled, Apart, InHand, Stored, StartEngine, disk, exec, ws, engine
<1> QED BY <1>1, <1>2, <1>3 DEF IInv

\* StopEngine keeps it.
LEMMA StopEngineIInv == ASSUME IInv, StopEngine PROVE IInv'
<1>1. Values'
    BY LedgerAssumption DEF IInv, Values, StopEngine, Goto, disk, ws, engine, exec
<1>2. NotRunning'
    BY DEF IInv, Values, NotRunning, StopEngine, Goto, disk, ws, engine, exec
<1>3. ASSUME ~ overlapped' PROVE Ordered'
    BY <1>3, LedgerAssumption DEF IInv, Values, NotRunning, Ordered, GenesisOrder, CommitOrder, Settled, Apart, InHand, Stored, StopEngine, Goto, disk, ws, engine, exec
<1> QED BY <1>1, <1>2, <1>3 DEF IInv

\* EndStop keeps it.
LEMMA EndStopIInv == ASSUME IInv, EndStop PROVE IInv'
<1>1. Values'
    BY LedgerAssumption DEF IInv, Values, EndStop, Goto, disk, ws, engine, exec
<1>2. NotRunning'
    BY DEF IInv, Values, NotRunning, EndStop, Goto, disk, ws, engine, exec
<1>3. ASSUME ~ overlapped' PROVE Ordered'
    BY <1>3, LedgerAssumption DEF IInv, Values, NotRunning, Ordered, GenesisOrder, CommitOrder, Settled, Apart, InHand, Stored, EndStop, Goto, disk, ws, engine, exec
<1> QED BY <1>1, <1>2, <1>3 DEF IInv

\* A step that changes nothing.
LEMMA StutterIInv == ASSUME IInv, UNCHANGED vars PROVE IInv'
BY DEF IInv, Values, NotRunning, Ordered, GenesisOrder, CommitOrder, Settled, Apart,
       InHand, Stored, vars, disk, ws, engine, exec

\* A step of CommitBlock keeps it.
LEMMA CommitStepIInv ==
    ASSUME IInv, NEW c \in Committers, CommitStep(c) PROVE IInv'
BY ExecSenderIInv, ExecTransferIInv, InsertSenderIInv, InsertRecipientIInv,
   InsertTxIInv, InsertTxRecordsIInv, IncreaseBlockNumIInv, SetValueIInv,
   InsertBlockIInv, InsertNumberIInv, UpdateLastWorldStateIInv
DEF CommitStep

\* A step of the node keeps it.
LEMMA NextIInv == ASSUME IInv, [Next]_vars PROVE IInv'
<1>1. CASE Boot
    BY <1>1, SetGenesisNumberIInv, SetGenesisBlockIInv, SetGenesisMetaIInv,
       LoadAccountIInv, RunIInv DEF Boot
<1>2. CASE Crash \/ Restart
    BY <1>2, CrashIInv, RestartIInv
<1>3. CASE Daemon
    BY <1>3, PollIInv, MigrateNotStartedIInv, MigrateCommittingIInv, EnterFinishedIInv,
       MigrateFinishedIInv, MigrateViewChangingIInv, CommitStepIInv DEF Daemon
<1>4. CASE BlockChain
    BY <1>4, CommitFiledIInv, CommitStepIInv, StartEngineIInv, StopEngineIInv, EndStopIInv
    DEF BlockChain
<1>5. CASE \E h \in 1 .. MaxHeight : Download(h)
    BY <1>5, DownloadIInv
<1>6. CASE UNCHANGED vars
    BY <1>6, StutterIInv
<1> QED BY <1>1, <1>2, <1>3, <1>4, <1>5, <1>6 DEF Next

\* IInv is an invariant of every execution.
THEOREM Invariance == Spec => []IInv
BY InitIInv, NextIInv, PTL DEF Spec

\* At every moment, however often the process has died before, block_meta
\* names a height whose block and number are stored, with all those below
\* (block.go:88-93 store them in this order), unless the committers met.
THEOREM StoredHeightHasItsBlockHolds == Spec => []StoredHeightHasItsBlock
<1>1. IInv => StoredHeightHasItsBlock
    BY DEF IInv, Ordered, Stored, StoredHeightHasItsBlock
<1> QED BY <1>1, Invariance, PTL

\* Only a process that died in the middle of making its genesis, or whose
\* committers met, ever gives up (states.go:353, crud.go:29 and :43).
THEOREM StartsAgainHolds == Spec => []StartsAgain
<1>1. IInv => StartsAgain
    BY DEF IInv, Ordered, StartsAgain
<1> QED BY <1>1, Invariance, PTL

(***************************************************************************)
(* Evaluation.  Eval, Evaluate and Replay compute ledgers; a transaction   *)
(* of a decided block never fails, and one its sender can pay moves its    *)
(* amount.                                                                 *)
(***************************************************************************)

\* What Eval computes with.
LedgerType ==
    [balance : [Address -> Int \cup {None}], txs : SUBSET Tx, status : Seq({0, -1}),
     failed : BOOLEAN]

\* A ledger with nothing evaluated on it yet.
Fresh(l) == [balance |-> l.balance, txs |-> l.txs, status |-> <<>>, failed |-> FALSE]

\* Eval makes a ledger of a ledger.
LEMMA EvalType == ASSUME NEW l \in LedgerType, NEW t \in Tx PROVE Eval(l, t) \in LedgerType
<1>1. /\ l.balance \in [Address -> Int \cup {None}] /\ l.txs \in SUBSET Tx
      /\ l.status \in Seq({0, -1}) /\ l.failed \in BOOLEAN
      /\ t.from \in Address /\ t.to \in Address /\ t.amount \in Nat /\ None \notin Int
    BY LedgerAssumption DEF LedgerType
<1> DEFINE from == l.balance[t.from]
           to == l.balance[t.to]
           fails == t \in l.txs \/ from = None
           paid == [[l.balance EXCEPT ![t.from] = from - t.amount]
                       EXCEPT ![t.to] = (IF to = None THEN 0 ELSE to) + t.amount]
           refused == [l EXCEPT !.status = Append(@, -1), !.failed = @ \/ fails]
           executed == [balance |-> paid, txs |-> l.txs \cup {t},
                        status |-> Append(l.status, 0), failed |-> l.failed]
<1>2. Append(l.status, -1) \in Seq({0, -1}) /\ Append(l.status, 0) \in Seq({0, -1})
    BY <1>1
<1>3. refused \in LedgerType
    BY <1>1, <1>2 DEF LedgerType
<1>4. CASE fails \/ from < t.amount
    <2>1. Eval(l, t) = refused
        BY <1>4 DEF Eval
    <2> QED BY <1>3, <2>1
<1>5. CASE ~ (fails \/ from < t.amount)
    <2>1. Eval(l, t) = executed
        BY <1>5 DEF Eval
    <2>2. from \in Int /\ (IF to = None THEN 0 ELSE to) \in Int
        BY <1>1, <1>5
    <2>3. paid \in [Address -> Int \cup {None}]
        BY <1>1, <2>2
    <2> HIDE DEF paid
    <2>4. executed \in LedgerType
        BY <1>1, <1>2, <2>3 DEF LedgerType
    <2> QED BY <2>1, <2>4
<1> QED BY <1>4, <1>5

\* Evaluation is a recursive function; this is what it computes.
LEMMA EvaluationDef ==
    ASSUME NEW l, l.balance \in [Address -> Int \cup {None}], l.txs \in SUBSET Tx,
           NEW ts \in Seq(Tx)
    PROVE  /\ Evaluation(l, ts) \in [0 .. Len(ts) -> LedgerType]
           /\ Evaluation(l, ts)[0] = Fresh(l)
           /\ \A i \in 1 .. Len(ts) :
                 Evaluation(l, ts)[i] = Eval(Evaluation(l, ts)[i - 1], ts[i])
<1> DEFINE n == Len(ts)
           F == [p \in (1 .. n) \X LedgerType |-> Eval(p[2], ts[p[1]])]
           Def(f) == f = [i \in 0 .. n |-> IF i = 0 THEN Fresh(l) ELSE Eval(f[i - 1], ts[i])]
<1>1. n \in Nat /\ Fresh(l) \in LedgerType /\ \A i \in 1 .. n : ts[i] \in Tx
    BY DEF Fresh, LedgerType
<1>2. F \in [(1 .. n) \X LedgerType -> LedgerType]
    BY <1>1, EvalType
<1>3. PICK f \in [0 .. n -> LedgerType] : f[0] = Fresh(l) /\ \A i \in 1 .. n : f[i] = F[<<i, f[i - 1]>>]
    <2>1. \E f : IsRecursion(f, F, Fresh(l), n, LedgerType)
        <3> HIDE DEF F, n
        <3> QED BY <1>1, <1>2, Recursion
    <2> QED BY <2>1 DEF IsRecursion
<1>4. \A i \in 1 .. n : i - 1 \in 0 .. n /\ f[i - 1] \in LedgerType /\ <<i, f[i - 1]>> \in (1 .. n) \X LedgerType
    <2>1. \A i \in 1 .. n : i - 1 \in 0 .. n
        <3> HIDE DEF n
        <3> QED BY <1>1
    <2> HIDE DEF n, F
    <2>2. \A i \in 1 .. n : f[i - 1] \in LedgerType
        BY <2>1, <1>3
    <2> QED BY <2>1, <2>2
<1>5. \A i \in 1 .. n : f[i] = Eval(f[i - 1], ts[i])
    BY <1>3, <1>4
<1>6. Def(f)
    BY <1>1, <1>3, <1>5
<1> DEFINE w == Evaluation(l, ts)
<1>7. w = CHOOSE g : Def(g)
    BY DEF Evaluation, Fresh
<1>8. Def(w)
    <2> HIDE DEF Def, w
    <2> QED BY <1>6, <1>7
<1> HIDE DEF w
<1>9. /\ DOMAIN w = 0 .. n /\ w[0] = Fresh(l)
      /\ \A i \in 1 .. n : w[i] = Eval(w[i - 1], ts[i])
    BY <1>1, <1>8
<1> DEFINE T == {i \in Nat : i <= n => w[i] = f[i]}
<1>10. 0 \in T
    BY <1>3, <1>9
<1>11. ASSUME NEW i \in T PROVE i + 1 \in T
    <2> SUFFICES ASSUME i + 1 <= n PROVE w[i + 1] = f[i + 1]
        OBVIOUS
    <2>1. w[i] = f[i] /\ i + 1 \in 1 .. n /\ (i + 1) - 1 = i
        BY <1>1
    <2> QED BY <1>5, <1>9, <2>1
<1> HIDE DEF T
<1>12. T = Nat
    BY <1>10, <1>11, EveryNatural DEF T
<1>13. \A i \in 0 .. n : w[i] = f[i]
    BY <1>12 DEF T
<1>14. w = f
    BY <1>8, <1>13
<1> QED BY <1>9, <1>14 DEF w

\* The configured accounts, and one more of them.
LEMMA ConfiguredDef ==
    /\ Configured(0) = [a \in Address |-> None]
    /\ \A n \in 0 .. Len(AccountCfg) : Configured(n) \in [Address -> Int \cup {None}]
    /\ \A n \in 0 .. (Len(AccountCfg) - 1) :
          Configured(n + 1) =
             [Configured(n) EXCEPT ![AccountCfg[n + 1].id] = AccountCfg[n + 1].amount]
<1> DEFINE at(n, a) == {i \in 1 .. n : AccountCfg[i].id = a}
<1>0. /\ Len(AccountCfg) \in Nat
      /\ \A i \in 1 .. Len(AccountCfg) : AccountCfg[i].id \in Address /\ AccountCfg[i].amount \in Nat
    <2>1. AccountCfg \in Seq([id : Address, amount : Nat])
        BY LedgerAssumption
    <2>2. \A i \in 1 .. Len(AccountCfg) : AccountCfg[i] \in [id : Address, amount : Nat]
        <3> DEFINE R == [id : Address, amount : Nat]
        <3>1. AccountCfg \in Seq(R)
            BY <2>1
        <3> HIDE DEF R
        <3>2. \A i \in 1 .. Len(AccountCfg) : AccountCfg[i] \in R
            BY <3>1
        <3> QED BY <3>2 DEF R
    <2> QED BY <2>1, <2>2
<1>1. \A a : at(0, a) = {}
    OBVIOUS
<1>2. Configured(0) = [a \in Address |-> None]
    BY <1>1 DEF Configured
<1>3. ASSUME NEW n \in 0 .. (Len(AccountCfg) - 1)
      PROVE  Configured(n + 1) =
                [Configured(n) EXCEPT ![AccountCfg[n + 1].id] = AccountCfg[n + 1].amount]
    <2> DEFINE x == AccountCfg[n + 1].id
    <2>0. n \in Nat /\ n + 1 \in 1 .. Len(AccountCfg) /\ x \in Address
        BY <1>0
    <2>1. n + 1 \in at(n + 1, x) /\ \A i \in at(n + 1, x) : n + 1 >= i
        BY <2>0
    <2>2. Max(at(n + 1, x)) = n + 1
        <3> HIDE DEF at
        <3>1. \A m \in at(n + 1, x) : (\A i \in at(n + 1, x) : m >= i) => m >= n + 1 /\ n + 1 >= m
            BY <2>1
        <3>2. at(n + 1, x) \subseteq Int
            BY DEF at
        <3>3. Max(at(n + 1, x)) \in at(n + 1, x) /\ \A i \in at(n + 1, x) : Max(at(n + 1, x)) >= i
            BY <2>1 DEF Max
        <3> QED BY <2>0, <3>1, <3>2, <3>3
    <2>3. \A a \in Address : a # x => at(n + 1, a) = at(n, a)
        BY <2>0
    <2>4. Configured(n + 1)[x] = AccountCfg[n + 1].amount
        BY <2>0, <2>1, <2>2 DEF Configured
    <2>5. \A a \in Address : a # x => Configured(n + 1)[a] = Configured(n)[a]
        BY <2>3 DEF Configured
    <2>6. /\ DOMAIN Configured(n) = Address /\ DOMAIN Configured(n + 1) = Address
          /\ Configured(n + 1) = [a \in Address |-> Configured(n + 1)[a]]
        BY DEF Configured
    <2> QED BY <2>0, <2>4, <2>5, <2>6
<1> DEFINE T == {n \in Nat : n <= Len(AccountCfg) => Configured(n) \in [Address -> Int \cup {None}]}
<1>4. 0 \in T
    BY <1>2
<1>5. ASSUME NEW n \in T PROVE n + 1 \in T
    <2> SUFFICES ASSUME n + 1 <= Len(AccountCfg)
                 PROVE  Configured(n + 1) \in [Address -> Int \cup {None}]
        OBVIOUS
    <2>1. n \in 0 .. (Len(AccountCfg) - 1) /\ n + 1 \in 1 .. Len(AccountCfg)
        BY <1>0
    <2>2. Configured(n) \in [Address -> Int \cup {None}]
        BY <1>0
    <2>3. Configured(n + 1) =
             [Configured(n) EXCEPT ![AccountCfg[n + 1].id] = AccountCfg[n + 1].amount]
        BY <1>3, <2>1
    <2>4. AccountCfg[n + 1].amount \in Int
        BY <1>0, <2>1
    <2> QED BY <2>2, <2>3, <2>4
<1> HIDE DEF T
<1>6. T = Nat
    BY <1>4, <1>5, EveryNatural DEF T
<1>7. \A n \in 0 .. Len(AccountCfg) : Configured(n) \in [Address -> Int \cup {None}]
    BY <1>0, <1>6 DEF T
<1> QED BY <1>2, <1>3, <1>7

\* Every decided block is a sequence of transactions.
Decided == \A h \in 1 .. MaxHeight : chain[h] \in Seq(Tx)

\* Replays is a recursive function; this is what it computes.
LEMMA ReplaysDef ==
    ASSUME Decided
    PROVE  /\ \A h \in 0 .. MaxHeight : Replay(h) \in LedgerType
           /\ Replay(0) = Genesis
           /\ \A h \in 1 .. MaxHeight : Replay(h) = Evaluate(Replay(h - 1), chain[h])
<1> DEFINE n == MaxHeight
           F == [p \in (1 .. n) \X LedgerType |-> Evaluate(p[2], chain[p[1]])]
           Def(f) == f = [h \in 0 .. n |-> IF h = 0 THEN Genesis ELSE Evaluate(f[h - 1], chain[h])]
<1>1. n \in Nat /\ Genesis \in LedgerType
    <2>1. Configured(Len(AccountCfg)) \in [Address -> Int \cup {None}]
        BY ConfiguredDef, LedgerAssumption
    <2> QED BY <2>1, LedgerAssumption DEF Genesis, LedgerType
<1>2. ASSUME NEW h \in 1 .. n, NEW l \in LedgerType PROVE Evaluate(l, chain[h]) \in LedgerType
    <2>1. chain[h] \in Seq(Tx) /\ l.balance \in [Address -> Int \cup {None}] /\ l.txs \in SUBSET Tx
        BY DEF Decided, LedgerType
    <2>2. Evaluation(l, chain[h]) \in [0 .. Len(chain[h]) -> LedgerType]
        BY <2>1, EvaluationDef
    <2>3. Len(chain[h]) \in 0 .. Len(chain[h])
        BY <2>1
    <2> QED BY <2>2, <2>3 DEF Evaluate
<1>3. F \in [(1 .. n) \X LedgerType -> LedgerType]
    BY <1>2
<1>4. PICK f \in [0 .. n -> LedgerType] : f[0] = Genesis /\ \A i \in 1 .. n : f[i] = F[<<i, f[i - 1]>>]
    <2>1. \E f : IsRecursion(f, F, Genesis, n, LedgerType)
        <3> HIDE DEF F, n
        <3> QED BY <1>1, <1>3, Recursion
    <2> QED BY <2>1 DEF IsRecursion
<1>5. \A i \in 1 .. n : i - 1 \in 0 .. n /\ f[i - 1] \in LedgerType /\ <<i, f[i - 1]>> \in (1 .. n) \X LedgerType
    BY <1>1
<1>6. \A i \in 1 .. n : f[i] = Evaluate(f[i - 1], chain[i])
    BY <1>4, <1>5
<1>7. Def(f)
    BY <1>1, <1>4, <1>6
<1> DEFINE w == Replays(chain)
<1>8. w = CHOOSE g : Def(g)
    BY DEF Replays
<1>9. Def(w)
    <2> HIDE DEF Def, w
    <2> QED BY <1>7, <1>8
<1> HIDE DEF w
<1>10. /\ DOMAIN w = 0 .. n /\ w[0] = Genesis
       /\ \A i \in 1 .. n : w[i] = Evaluate(w[i - 1], chain[i])
    BY <1>1, <1>9
<1> DEFINE T == {i \in Nat : i <= n => w[i] \in LedgerType}
<1>11. 0 \in T
    BY <1>1, <1>10
<1>12. ASSUME NEW i \in T PROVE i + 1 \in T
    <2> SUFFICES ASSUME i + 1 <= n PROVE w[i + 1] \in LedgerType
        OBVIOUS
    <2>1. w[i] \in LedgerType /\ i + 1 \in 1 .. n /\ (i + 1) - 1 = i
        BY <1>1
    <2>2. w[i + 1] = Evaluate(w[i], chain[i + 1])
        BY <1>10, <2>1
    <2> QED BY <1>2, <2>1, <2>2
<1> HIDE DEF T
<1>13. T = Nat
    BY <1>11, <1>12, EveryNatural DEF T
<1>14. \A h \in 0 .. n : w[h] \in LedgerType
    BY <1>13 DEF T
<1> QED BY <1>10, <1>14 DEF w, Replay

\* What the verifiers have decided.
LEMMA DecidedBlocks ==
    ASSUME chain \in Chains
    PROVE  /\ Decided
           /\ \A h \in 1 .. MaxHeight : ~ Evaluate(Replay(h - 1), chain[h]).failed
<1> DEFINE B == {s \in BoundedSeq(Tx, MaxBlockTxs) : IsInjective(s)}
<1>1. chain \in [1 .. MaxHeight -> B]
      /\ \A h \in 1 .. MaxHeight : ~ Evaluate(Replays(chain)[h - 1], chain[h]).failed
    BY DEF Chains
<1>2. \A s \in B : s \in Seq(Tx)
    <2>1. ASSUME NEW s \in BoundedSeq(Tx, MaxBlockTxs) PROVE s \in Seq(Tx)
        <3>1. PICK m \in 0 .. MaxBlockTxs : s \in [1 .. m -> Tx]
            BY DEF BoundedSeq, SeqOf
        <3> QED BY <3>1, LedgerAssumption
    <2> QED BY <2>1
<1> HIDE DEF B
<1> QED BY <1>1, <1>2 DEF Decided, Replay

\* The ledger inside block h, after i of its transactions.
StepIn(c, h, i) == Evaluation(Replays(c)[h - 1], c[h])[i]

\* The same in the chain the verifiers decided.
StepOf(h, i) == StepIn(chain, h, i)

\* It begins with the replay of the blocks below, and ends with block h's.
LEMMA StepOfDef ==
    ASSUME chain \in Chains, NEW h \in 1 .. MaxHeight
    PROVE  /\ chain[h] \in Seq(Tx) /\ Len(chain[h]) \in Nat
           /\ \A i \in 0 .. Len(chain[h]) : StepOf(h, i) \in LedgerType
           /\ StepOf(h, 0) = Fresh(Replay(h - 1))
           /\ \A i \in 1 .. Len(chain[h]) :
                 StepOf(h, i) = Eval(StepOf(h, i - 1), chain[h][i]) /\ chain[h][i] \in Tx
           /\ StepOf(h, Len(chain[h])) = Replay(h)
<1>1. Decided
    BY DecidedBlocks
<1>2. chain[h] \in Seq(Tx) /\ Len(chain[h]) \in Nat /\ \A i \in 1 .. Len(chain[h]) : chain[h][i] \in Tx
    BY <1>1 DEF Decided
<1>3. h - 1 \in 0 .. MaxHeight /\ h \in 0 .. MaxHeight
    BY LedgerAssumption
<1>4. Replay(h - 1) \in LedgerType /\ Replay(h) = Evaluate(Replay(h - 1), chain[h])
    BY <1>1, <1>3, ReplaysDef
<1>5. Replay(h - 1).balance \in [Address -> Int \cup {None}] /\ Replay(h - 1).txs \in SUBSET Tx
    BY <1>4 DEF LedgerType
<1>6. /\ Evaluation(Replay(h - 1), chain[h]) \in [0 .. Len(chain[h]) -> LedgerType]
      /\ Evaluation(Replay(h - 1), chain[h])[0] = Fresh(Replay(h - 1))
      /\ \A i \in 1 .. Len(chain[h]) :
            Evaluation(Replay(h - 1), chain[h])[i] =
               Eval(Evaluation(Replay(h - 1), chain[h])[i - 1], chain[h][i])
    BY <1>2, <1>5, EvaluationDef
<1> QED BY <1>2, <1>4, <1>6 DEF StepOf, StepIn, Replay, Evaluate

\* No transaction of a decided block exists already or is without a sender.
LEMMA NothingFails ==
    ASSUME chain \in Chains, NEW h \in 1 .. MaxHeight, NEW i \in 1 .. Len(chain[h])
    PROVE  /\ chain[h][i] \notin StepOf(h, i - 1).txs
           /\ StepOf(h, i - 1).balance[chain[h][i].from] # None
<1> DEFINE n == Len(chain[h])
           t == chain[h][i]
           fails(l, x) == x \in l.txs \/ l.balance[x.from] = None
<1>1. /\ n \in Nat
      /\ \A k \in 0 .. n : StepOf(h, k) \in LedgerType
      /\ \A k \in 1 .. n : StepOf(h, k) = Eval(StepOf(h, k - 1), chain[h][k]) /\ chain[h][k] \in Tx
    BY StepOfDef
<1>2. ~ StepOf(h, n).failed
    BY DecidedBlocks DEF StepOf, StepIn, Replay, Evaluate
<1>3. ASSUME NEW l \in LedgerType, NEW x \in Tx, l.failed \/ fails(l, x) PROVE Eval(l, x).failed
    <2>1. CASE fails(l, x)
        <3>1. Eval(l, x) = [l EXCEPT !.status = Append(@, -1), !.failed = @ \/ fails(l, x)]
            BY <2>1 DEF Eval
        <3>2. Eval(l, x).failed = (l.failed \/ fails(l, x))
            BY <3>1 DEF LedgerType
        <3> QED BY <2>1, <3>2
    <2>2. CASE l.failed /\ ~ fails(l, x)
        <3>1. CASE l.balance[x.from] < x.amount
            <4>1. Eval(l, x) = [l EXCEPT !.status = Append(@, -1), !.failed = @ \/ fails(l, x)]
                BY <3>1 DEF Eval
            <4>2. Eval(l, x).failed = (l.failed \/ fails(l, x))
                BY <4>1 DEF LedgerType
            <4> QED BY <2>2, <4>2
        <3>2. CASE ~ (l.balance[x.from] < x.amount)
            <4>1. Eval(l, x).failed = l.failed
                BY <2>2, <3>2 DEF Eval
            <4> QED BY <2>2, <4>1
        <3> QED BY <3>1, <3>2
    <2> QED BY <1>3, <2>1, <2>2
<1> HIDE DEF fails
<1> DEFINE T == {k \in Nat : k <= n => ~ StepOf(h, n - k).failed}
<1>4. 0 \in T
    BY <1>1, <1>2
<1>5. ASSUME NEW k \in T PROVE k + 1 \in T
    <2> SUFFICES ASSUME k + 1 <= n, StepOf(h, n - (k + 1)).failed PROVE FALSE
        OBVIOUS
    <2>1. n - k \in 1 .. n /\ n - (k + 1) \in 0 .. n /\ (n - k) - 1 = n - (k + 1)
        BY <1>1
    <2>2. StepOf(h, n - k).failed
        BY <1>1, <1>3, <2>1
    <2>3. k <= n
        BY <1>1
    <2> QED BY <2>2, <2>3
<1> HIDE DEF T
<1>6. T = Nat
    BY <1>4, <1>5, EveryNatural DEF T
<1>7. n - i \in T /\ n - i <= n /\ n - (n - i) = i
    BY <1>1, <1>6
<1>8. ~ StepOf(h, i).failed
    BY <1>7 DEF T
<1>9. i - 1 \in 0 .. n
    BY <1>1
<1>10. ~ fails(StepOf(h, i - 1), t)
    BY <1>1, <1>3, <1>8, <1>9
<1> QED BY <1>10 DEF fails

\* An account that does not exist is worth nothing.
Worth(b) == IF b = None THEN 0 ELSE b

\* A payment, and one that the sender cannot make.
LEMMA StepPays ==
    ASSUME chain \in Chains, NEW h \in 1 .. MaxHeight, NEW i \in 1 .. Len(chain[h])
    PROVE  LET e == StepOf(h, i - 1)
               t == chain[h][i]
           IN  /\ t.amount <= e.balance[t.from] =>
                     /\ StepOf(h, i).balance =
                          [[e.balance EXCEPT ![t.from] = e.balance[t.from] - t.amount]
                              EXCEPT ![t.to] = Worth(e.balance[t.to]) + t.amount]
                     /\ StepOf(h, i).txs = e.txs \cup {t}
               /\ ~ (t.amount <= e.balance[t.from]) =>
                     StepOf(h, i).balance = e.balance /\ StepOf(h, i).txs = e.txs
<1> DEFINE e == StepOf(h, i - 1)
           t == chain[h][i]
<1>1. StepOf(h, i) = Eval(e, t) /\ t \in Tx /\ i - 1 \in 0 .. Len(chain[h])
    BY StepOfDef
<1>2. e \in LedgerType
    BY <1>1, StepOfDef
<1>3. t \notin e.txs /\ e.balance[t.from] # None
    BY NothingFails
<1>4. e.balance[t.from] \in Int /\ t.amount \in Nat
    BY <1>1, <1>2, <1>3, LedgerAssumption DEF LedgerType
<1> HIDE DEF e, t
<1>5. CASE t.amount <= e.balance[t.from]
    <2>1. /\ Eval(e, t).balance = [[e.balance EXCEPT ![t.from] = e.balance[t.from] - t.amount]
                                    EXCEPT ![t.to] = Worth(e.balance[t.to]) + t.amount]
          /\ Eval(e, t).txs = e.txs \cup {t}
        <3>1. ~ (t \in e.txs \/ e.balance[t.from] = None \/ e.balance[t.from] < t.amount)
            BY <1>3, <1>4, <1>5
        <3> QED BY <3>1 DEF Eval, Worth
    <2> QED BY <1>1, <1>5, <2>1 DEF e, t
<1>6. CASE ~ (t.amount <= e.balance[t.from])
    <2>1. Eval(e, t) = [e EXCEPT !.status = Append(@, -1),
                                 !.failed = @ \/ (t \in e.txs \/ e.balance[t.from] = None)]
        BY <1>4, <1>6 DEF Eval
    <2>2. Eval(e, t).balance = e.balance /\ Eval(e, t).txs = e.txs
        BY <1>2, <2>1 DEF LedgerType
    <2> QED BY <1>1, <1>6, <2>2 DEF e, t
<1> QED BY <1>5, <1>6 DEF e, t

(***************************************************************************)
(* The type of the state.                                                  *)
(***************************************************************************)

\* A committer at a transaction.
Paying == {"transfer", "debit", "credit", "record"}

\* The values of what is stored and of the world state.
StoreType ==
    /\ chain \in Chains
    /\ numDB \subseteq 0 .. MaxHeight /\ blockDB \subseteq 0 .. MaxHeight
    /\ metaDB = None \/ metaDB \in 0 .. (MaxHeight + 1)
    /\ phase \in {"setNumber", "setBlock", "setMeta", "loadAccounts", "restarting",
                  "running", "dead", "fatal", "panicked"}
    /\ blockNum \in 0 .. (MaxHeight + 1) /\ blockID \in 0 .. MaxHeight
    /\ state \in {"NotStarted", "Committing", "Finished", "ViewChanging"}
    /\ crashes \in 0 .. MaxCrashes

\* What a committer has in hand.
WorkInv ==
    /\ done \in [Committers -> Nat]
    /\ \A c \in Committers :
          /\ pc[c] \in Committing <=> block[c] # 0
          /\ pc[c] = "apply" => done[c] <= Len(chain[block[c]])
          /\ pc[c] \in Paying => done[c] < Len(chain[block[c]])

\* The committer has not increased the height yet.
Executes(c) == pc[c] \in Statement

\* Two committers at one block both increase the height, but not from the same
\* one, so it is at most one too high.
BoundInv ==
    /\ \A c \in Committers : Executes(c) => blockNum <= MaxHeight
    /\ Executes("daemon") /\ Executes("chain") => blockNum < MaxHeight
    /\ MaxHeight = 0 => blockNum = 0 /\ metaDB \in {None, 0}

USE DEF Paying, Committing, Statement, Statements, Committers, Running

\* Nobody begins to execute and the heights stay.
LEMMA BoundKept ==
    ASSUME BoundInv, \A c \in Committers : Executes(c)' => Executes(c),
           blockNum' = blockNum, metaDB' = metaDB
    PROVE  BoundInv'
BY DEF BoundInv

\* Where the committers are after a step.
LEMMA Going ==
    ASSUME IInv, NEW c \in Committers, NEW s, pc' = [pc EXCEPT ![c] = s]
    PROVE  pc'[c] = s /\ \A d \in Committers : d # c => pc'[d] = pc[d]
BY DEF IInv, Values

\* A committer that goes on in CommitBlock, or leaves it.
LEMMA GoingOn ==
    ASSUME IInv, BoundInv, NEW c \in Committers, NEW s, pc' = [pc EXCEPT ![c] = s],
           s \notin Statement \/ pc[c] \in Statement,
           blockNum' = blockNum, metaDB' = metaDB
    PROVE  BoundInv'
BY Going, BoundKept DEF Executes

\* Every step keeps BoundInv.
LEMMA BoundStep == ASSUME IInv, StoreType, WorkInv, BoundInv, [Next]_vars PROVE BoundInv'
<1>1. ASSUME SetGenesisNumber PROVE BoundInv'
    <2>1. pc' = pc /\ blockNum' = blockNum /\ metaDB' = metaDB
        BY <1>1 DEF SetGenesisNumber, ws, exec
    <2> QED BY <2>1, BoundKept DEF Executes
<1>2. ASSUME SetGenesisBlock PROVE BoundInv'
    <2>1. pc' = pc /\ blockNum' = blockNum /\ metaDB' = metaDB
        BY <1>2 DEF SetGenesisBlock, ws, exec
    <2> QED BY <2>1, BoundKept DEF Executes
<1>3. ASSUME SetGenesisMeta PROVE BoundInv'
    <2>1. /\ pc' = pc /\ blockNum' = blockNum /\ metaDB' = 0
        BY <1>3 DEF SetGenesisMeta, ws, exec
    <2> QED BY <2>1 DEF BoundInv, Executes
<1>4. ASSUME LoadAccount PROVE BoundInv'
    <2>1. pc' = pc /\ blockNum' = blockNum /\ metaDB' = metaDB
        BY <1>4 DEF LoadAccount, ws, exec
    <2> QED BY <2>1, BoundKept DEF Executes
<1>5. ASSUME Run PROVE BoundInv'
    <2>1. /\ pc' = pc /\ metaDB' = metaDB
          /\ \A c \in Committers : ~ Executes(c)
        BY <1>5 DEF IInv, NotRunning, Executes, Run, disk
    <2>2. blockNum' = blockNum \/ (blockNum' = metaDB /\ metaDB # None)
        BY <1>5 DEF Run, GetBlockMeta, ws
    <2> QED BY <2>1, <2>2, LedgerAssumption DEF BoundInv, Executes
<1>6. ASSUME Crash PROVE BoundInv'
    <2>1. blockNum' = 0 /\ metaDB' = metaDB /\ \A c \in Committers : ~ Executes(c)'
        BY <1>6 DEF Crash, Forgotten, disk, Executes
    <2> QED BY <2>1 DEF BoundInv
<1>7. ASSUME Restart PROVE BoundInv'
    <2>1. pc' = pc /\ blockNum' = blockNum /\ metaDB' = metaDB
        BY <1>7 DEF Restart, GetBlockByNum, disk, ws, exec
    <2> QED BY <2>1, BoundKept DEF Executes
<1>8. ASSUME Poll PROVE BoundInv'
    <2>1. /\ pc' = [pc EXCEPT !["daemon"] = "migrate"] /\ "daemon" \in Committers
          /\ "migrate" \notin Statement \/ pc["daemon"] \in Statement
          /\ blockNum' = blockNum /\ metaDB' = metaDB
        BY <1>8 DEF Poll, Goto, disk, ws
    <2> QED BY <2>1, GoingOn
<1>9. ASSUME MigrateNotStarted PROVE BoundInv'
    <2>1. /\ pc' = [pc EXCEPT !["daemon"] = "idle"] /\ "daemon" \in Committers
          /\ "idle" \notin Statement \/ pc["daemon"] \in Statement
          /\ blockNum' = blockNum /\ metaDB' = metaDB
        BY <1>9 DEF MigrateNotStarted, Goto, disk, ws
    <2> QED BY <2>1, GoingOn
<1>10. ASSUME MigrateCommitting PROVE BoundInv'
    <2>1. /\ \/ pc' = [pc EXCEPT !["daemon"] = "enterFinished"]
             \/ pc' = [pc EXCEPT !["daemon"] = "idle"]
          /\ blockNum' = blockNum /\ metaDB' = metaDB
        BY <1>10 DEF MigrateCommitting, Goto, disk, ws
    <2>2. "daemon" \in Committers /\ "enterFinished" \notin Statement /\ "idle" \notin Statement
        OBVIOUS
    <2> QED BY <2>1, <2>2, GoingOn
<1>11. ASSUME EnterFinished PROVE BoundInv'
    <2>1. /\ pc' = [pc EXCEPT !["daemon"] = "idle"] /\ "daemon" \in Committers
          /\ "idle" \notin Statement \/ pc["daemon"] \in Statement
          /\ blockNum' = blockNum /\ metaDB' = metaDB
        BY <1>11 DEF EnterFinished, Goto, disk, ws
    <2> QED BY <2>1, GoingOn
<1>12. ASSUME MigrateFinished PROVE BoundInv'
    <2>0. metaDB' = metaDB
        BY <1>12 DEF MigrateFinished, disk
    <2>1. CASE received = 0
        <3>1. blockNum' = 0 /\ \A c \in Committers : ~ Executes(c)'
            BY <1>12, <2>1 DEF MigrateFinished, Forgotten, Executes
        <3> QED BY <2>0, <3>1 DEF BoundInv
    <2>2. CASE received # 0 /\ Extends(received)
        <3>1. /\ pc' = [pc EXCEPT !["daemon"] = "apply"] /\ blockNum' = blockNum
              /\ blockNum < MaxHeight
            BY <1>12, <2>2, LedgerAssumption
            DEF MigrateFinished, Begin, Extends, IInv, Values, ws
        <3>2. Executes("chain")' => Executes("chain")
            BY <3>1, Going DEF Executes
        <3> QED BY <2>0, <3>1, <3>2, LedgerAssumption DEF BoundInv, StoreType
    <2>3. CASE received # 0 /\ ~ Extends(received)
        <3>1. pc' = [pc EXCEPT !["daemon"] = "idle"] /\ blockNum' = blockNum
            BY <1>12, <2>3 DEF MigrateFinished, Fail, Leave, ws
        <3>2. "daemon" \in Committers /\ "idle" \notin Statement
            OBVIOUS
        <3> QED BY <2>0, <3>1, <3>2, GoingOn
    <2> QED BY <2>1, <2>2, <2>3
<1>13. ASSUME MigrateViewChanging PROVE BoundInv'
    <2>1. /\ pc' = [pc EXCEPT !["daemon"] = "idle"] /\ "daemon" \in Committers
          /\ "idle" \notin Statement \/ pc["daemon"] \in Statement
          /\ blockNum' = blockNum /\ metaDB' = metaDB
        BY <1>13 DEF MigrateViewChanging, Goto, ChangeState, disk, ws
    <2> QED BY <2>1, GoingOn
<1>14. ASSUME NEW c \in Committers, ExecSender(c) PROVE BoundInv'
    <2>1. /\ \/ pc' = pc
             \/ pc' = [pc EXCEPT ![c] = "idle"]
             \/ pc' = [pc EXCEPT ![c] = "transfer"] /\ pc[c] = "apply"
          /\ blockNum' = blockNum /\ metaDB' = metaDB
        BY <1>14 DEF ExecSender, AtTx, Fail, Leave, Goto, disk, ws
    <2>2. CASE pc' = pc
        BY <2>1, <2>2, BoundKept DEF Executes
    <2>3. "idle" \notin Statement /\ "apply" \in Statement
        OBVIOUS
    <2> QED BY <2>1, <2>2, <2>3, GoingOn
<1>15. ASSUME NEW c \in Committers, ExecTransfer(c) PROVE BoundInv'
    <2>1. /\ pc' = [pc EXCEPT ![c] = "debit"] /\ c \in Committers
          /\ "debit" \notin Statement \/ pc[c] \in Statement
          /\ blockNum' = blockNum /\ metaDB' = metaDB
        BY <1>15 DEF ExecTransfer, Goto, disk, ws
    <2> QED BY <2>1, GoingOn
<1>16. ASSUME NEW c \in Committers, InsertSender(c) PROVE BoundInv'
    <2>1. /\ pc' = [pc EXCEPT ![c] = "credit"] /\ c \in Committers
          /\ "credit" \notin Statement \/ pc[c] \in Statement
          /\ blockNum' = blockNum /\ metaDB' = metaDB
        BY <1>16 DEF InsertSender, Goto, ws
    <2> QED BY <2>1, GoingOn
<1>17. ASSUME NEW c \in Committers, InsertRecipient(c) PROVE BoundInv'
    <2>1. /\ pc' = [pc EXCEPT ![c] = "record"] /\ c \in Committers
          /\ "record" \notin Statement \/ pc[c] \in Statement
          /\ blockNum' = blockNum /\ metaDB' = metaDB
        BY <1>17 DEF InsertRecipient, Goto, ws
    <2> QED BY <2>1, GoingOn
<1>18. ASSUME NEW c \in Committers, InsertTx(c) PROVE BoundInv'
    <2>1. /\ pc' = [pc EXCEPT ![c] = "apply"] /\ c \in Committers
          /\ "apply" \notin Statement \/ pc[c] \in Statement
          /\ blockNum' = blockNum /\ metaDB' = metaDB
        BY <1>18 DEF InsertTx, Goto, ws
    <2> QED BY <2>1, GoingOn
<1>19. ASSUME NEW c \in Committers, InsertTxRecords(c) PROVE BoundInv'
    <2>1. /\ pc' = [pc EXCEPT ![c] = "increase"] /\ c \in Committers
          /\ "increase" \notin Statement \/ pc[c] \in Statement
          /\ blockNum' = blockNum /\ metaDB' = metaDB
        BY <1>19 DEF InsertTxRecords, Goto, ws
    <2> QED BY <2>1, GoingOn
<1>20. ASSUME NEW c \in Committers, IncreaseBlockNum(c) PROVE BoundInv'
    <2>1. /\ pc' = [pc EXCEPT ![c] = "setValue"] /\ pc[c] = "increase"
          /\ blockNum' = blockNum + 1 /\ metaDB' = metaDB
        BY <1>20 DEF IncreaseBlockNum, Goto, disk
    <2>2. Executes(c) /\ ~ Executes(c)' /\ \A d \in Committers : d # c => (Executes(d)' <=> Executes(d))
        BY <2>1, Going DEF Executes
    <2>3. block[c] # 0 /\ MaxHeight # 0
        BY <2>1, LedgerAssumption DEF WorkInv, IInv, Values
    <2> QED BY <2>1, <2>2, <2>3, LedgerAssumption DEF BoundInv, StoreType
<1>21. ASSUME NEW c \in Committers, SetValue(c) PROVE BoundInv'
    <2>1. /\ pc' = [pc EXCEPT ![c] = "block"] /\ pc[c] = "setValue"
          /\ blockNum' = block[c] /\ metaDB' = metaDB
        BY <1>21 DEF SetValue, Goto, disk
    <2>2. ~ Executes(c)' /\ \A d \in Committers : d # c => (Executes(d)' <=> Executes(d))
        BY <2>1, Going DEF Executes
    <2>3. block[c] # 0 /\ MaxHeight # 0 /\ block[c] \in 0 .. MaxHeight
        BY <2>1, LedgerAssumption DEF WorkInv, IInv, Values
    <2> QED BY <2>1, <2>2, <2>3, LedgerAssumption DEF BoundInv, StoreType
<1>22. ASSUME NEW c \in Committers, InsertBlock(c) PROVE BoundInv'
    <2>1. /\ pc' = [pc EXCEPT ![c] = "number"] /\ c \in Committers
          /\ "number" \notin Statement \/ pc[c] \in Statement
          /\ blockNum' = blockNum /\ metaDB' = metaDB
        BY <1>22 DEF InsertBlock, Goto, ws
    <2> QED BY <2>1, GoingOn
<1>23. ASSUME NEW c \in Committers, InsertNumber(c) PROVE BoundInv'
    <2>1. /\ pc' = [pc EXCEPT ![c] = "meta"] /\ c \in Committers
          /\ "meta" \notin Statement \/ pc[c] \in Statement
          /\ blockNum' = blockNum /\ metaDB' = metaDB
        BY <1>23 DEF InsertNumber, Goto, ws
    <2> QED BY <2>1, GoingOn
<1>24. ASSUME NEW c \in Committers, UpdateLastWorldState(c) PROVE BoundInv'
    <2>1. /\ pc' = [pc EXCEPT ![c] = "idle"] /\ pc[c] = "meta"
          /\ blockNum' = blockNum /\ metaDB' = blockNum
        BY <1>24 DEF UpdateLastWorldState, Leave, ws
    <2>2. \A d \in Committers : Executes(d)' => Executes(d)
        BY <2>1, Going DEF Executes
    <2> QED BY <2>1, <2>2 DEF BoundInv
<1>25. ASSUME NEW h \in 1 .. MaxHeight, CommitFiled(h) PROVE BoundInv'
    <2>1. metaDB' = metaDB /\ blockNum' = blockNum
        BY <1>25 DEF CommitFiled, disk, ws
    <2>2. CASE pc' = pc
        BY <2>1, <2>2, BoundKept DEF Executes
    <2>3. CASE Extends(h) /\ pc' = [pc EXCEPT !["chain"] = "apply"]
        <3>1. blockNum < MaxHeight
            BY <2>3, LedgerAssumption DEF Extends, StoreType
        <3>2. Executes("daemon")' => Executes("daemon")
            BY <2>3, Going DEF Executes
        <3> QED BY <2>1, <2>3, <3>1, <3>2, LedgerAssumption DEF BoundInv, StoreType
    <2> QED BY <1>25, <2>2, <2>3 DEF CommitFiled, Begin
<1>26. ASSUME StartEngine PROVE BoundInv'
    <2>1. pc' = pc /\ blockNum' = blockNum /\ metaDB' = metaDB
        BY <1>26 DEF StartEngine, disk, ws, exec
    <2> QED BY <2>1, BoundKept DEF Executes
<1>27. ASSUME StopEngine PROVE BoundInv'
    <2>1. /\ pc' = [pc EXCEPT !["chain"] = "stop"] /\ "chain" \in Committers
          /\ "stop" \notin Statement \/ pc["chain"] \in Statement
          /\ blockNum' = blockNum /\ metaDB' = metaDB
        BY <1>27 DEF StopEngine, Goto, disk, ws
    <2> QED BY <2>1, GoingOn
<1>28. ASSUME EndStop PROVE BoundInv'
    <2>1. /\ pc' = [pc EXCEPT !["chain"] = "idle"] /\ "chain" \in Committers
          /\ "idle" \notin Statement \/ pc["chain"] \in Statement
          /\ blockNum' = blockNum /\ metaDB' = metaDB
        BY <1>28 DEF EndStop, Goto, disk, ws
    <2> QED BY <2>1, GoingOn
<1>29. ASSUME NEW h \in 1 .. MaxHeight, Download(h) PROVE BoundInv'
    <2>1. pc' = pc /\ blockNum' = blockNum /\ metaDB' = metaDB
        BY <1>29 DEF Download, disk, ws, exec
    <2> QED BY <2>1, BoundKept DEF Executes
<1>30. ASSUME UNCHANGED vars PROVE BoundInv'
    <2>1. pc' = pc /\ blockNum' = blockNum /\ metaDB' = metaDB
        BY <1>30 DEF vars, disk, ws, exec
    <2> QED BY <2>1, BoundKept DEF Executes
<1> QED
    BY <1>1, <1>2, <1>3, <1>4, <1>5, <1>6, <1>7, <1>8, <1>9, <1>10, <1>11, <1>12, <1>13, <1>14, <1>15, <1>16, <1>17, <1>18, <1>19, <1>20, <1>21, <1>22, <1>23, <1>24, <1>25, <1>26, <1>27, <1>28, <1>29, <1>30
    DEF Next, Boot, Daemon, BlockChain, CommitStep

\* Every step keeps StoreType.
LEMMA StoreStep == ASSUME IInv, StoreType, WorkInv, BoundInv, [Next]_vars PROVE StoreType'
<1>1. ASSUME SetGenesisNumber PROVE StoreType'
    BY <1>1, LedgerAssumption DEF StoreType, IInv, Values, SetGenesisNumber, ws, engine, exec
<1>2. ASSUME SetGenesisBlock PROVE StoreType'
    BY <1>2, LedgerAssumption DEF StoreType, IInv, Values, SetGenesisBlock, ws, engine, exec
<1>3. ASSUME SetGenesisMeta PROVE StoreType'
    BY <1>3, LedgerAssumption DEF StoreType, IInv, Values, SetGenesisMeta, ws, engine, exec
<1>4. ASSUME LoadAccount PROVE StoreType'
    BY <1>4, LedgerAssumption DEF StoreType, IInv, Values, LoadAccount, ws, engine, exec
<1>5. ASSUME Run PROVE StoreType'
    <2>1. blockNum' \in 0 .. (MaxHeight + 1) /\ blockID' \in 0 .. MaxHeight
        BY <1>5, LedgerAssumption DEF StoreType, Run, GetBlockMeta, GetBlockByNum, ws
    <2> QED BY <1>5, <2>1 DEF StoreType, Run, GetBlockMeta, disk, engine
<1>6. ASSUME Crash PROVE StoreType'
    BY <1>6, LedgerAssumption DEF StoreType, IInv, Values, Crash, Forgotten, disk, ws, engine, exec
<1>7. ASSUME Restart PROVE StoreType'
    BY <1>7, LedgerAssumption DEF StoreType, IInv, Values, Restart, GetBlockByNum, disk, ws, engine, exec
<1>8. ASSUME Poll PROVE StoreType'
    BY <1>8, LedgerAssumption DEF StoreType, IInv, Values, Poll, Goto, disk, ws, engine, exec
<1>9. ASSUME MigrateNotStarted PROVE StoreType'
    BY <1>9, LedgerAssumption DEF StoreType, IInv, Values, MigrateNotStarted, Goto, disk, ws, engine, exec
<1>10. ASSUME MigrateCommitting PROVE StoreType'
    BY <1>10, LedgerAssumption DEF StoreType, IInv, Values, MigrateCommitting, Goto, ChangeState, disk, ws, engine, exec
<1>11. ASSUME EnterFinished PROVE StoreType'
    BY <1>11, LedgerAssumption DEF StoreType, IInv, Values, EnterFinished, Goto, disk, ws, engine, exec
<1>12. ASSUME MigrateFinished PROVE StoreType'
    BY <1>12, LedgerAssumption DEF StoreType, IInv, Values, MigrateFinished, Forgotten, Extends, Begin, Fail, Leave, ChangeState, disk, ws, engine, exec
<1>13. ASSUME MigrateViewChanging PROVE StoreType'
    BY <1>13, LedgerAssumption DEF StoreType, IInv, Values, MigrateViewChanging, Goto, ChangeState, disk, ws, engine, exec
<1>14. ASSUME NEW c \in Committers, ExecSender(c) PROVE StoreType'
    BY <1>14, LedgerAssumption DEF StoreType, IInv, Values, ExecSender, AtTx, Fail, Leave, ChangeState, Goto, disk, ws, engine, exec
<1>15. ASSUME NEW c \in Committers, ExecTransfer(c) PROVE StoreType'
    BY <1>15, LedgerAssumption DEF StoreType, IInv, Values, ExecTransfer, Goto, disk, ws, engine, exec
<1>16. ASSUME NEW c \in Committers, InsertSender(c) PROVE StoreType'
    BY <1>16, LedgerAssumption DEF StoreType, IInv, Values, InsertSender, Goto, ws, engine, exec
<1>17. ASSUME NEW c \in Committers, InsertRecipient(c) PROVE StoreType'
    BY <1>17, LedgerAssumption DEF StoreType, IInv, Values, InsertRecipient, Goto, ws, engine, exec
<1>18. ASSUME NEW c \in Committers, InsertTx(c) PROVE StoreType'
    BY <1>18, LedgerAssumption DEF StoreType, IInv, Values, InsertTx, Goto, ws, engine, exec
<1>19. ASSUME NEW c \in Committers, InsertTxRecords(c) PROVE StoreType'
    BY <1>19, LedgerAssumption DEF StoreType, IInv, Values, InsertTxRecords, Goto, ws, engine, exec
<1>20. ASSUME NEW c \in Committers, IncreaseBlockNum(c) PROVE StoreType'
    <2>1. Executes(c) /\ blockNum <= MaxHeight
        BY <1>20 DEF IncreaseBlockNum, Executes, BoundInv
    <2> QED BY <1>20, <2>1, LedgerAssumption DEF StoreType, IncreaseBlockNum, disk, engine
<1>21. ASSUME NEW c \in Committers, SetValue(c) PROVE StoreType'
    BY <1>21, LedgerAssumption DEF StoreType, IInv, Values, SetValue, Goto, disk, ws, engine, exec
<1>22. ASSUME NEW c \in Committers, InsertBlock(c) PROVE StoreType'
    BY <1>22, LedgerAssumption DEF StoreType, IInv, Values, InsertBlock, Goto, ws, engine, exec
<1>23. ASSUME NEW c \in Committers, InsertNumber(c) PROVE StoreType'
    BY <1>23, LedgerAssumption DEF StoreType, IInv, Values, InsertNumber, Goto, ws, engine, exec
<1>24. ASSUME NEW c \in Committers, UpdateLastWorldState(c) PROVE StoreType'
    BY <1>24, LedgerAssumption DEF StoreType, IInv, Values, UpdateLastWorldState, Leave, ChangeState, ws, engine, exec
<1>25. ASSUME NEW h \in 1 .. MaxHeight, CommitFiled(h) PROVE StoreType'
    BY <1>25, LedgerAssumption DEF StoreType, IInv, Values, CommitFiled, Extends, Begin, disk, ws, engine, exec
<1>26. ASSUME StartEngine PROVE StoreType'
    BY <1>26, LedgerAssumption DEF StoreType, IInv, Values, StartEngine, disk, ws, engine, exec
<1>27. ASSUME StopEngine PROVE StoreType'
    BY <1>27, LedgerAssumption DEF StoreType, IInv, Values, StopEngine, Goto, disk, ws, engine, exec
<1>28. ASSUME EndStop PROVE StoreType'
    BY <1>28, LedgerAssumption DEF StoreType, IInv, Values, EndStop, Goto, disk, ws, engine, exec
<1>29. ASSUME NEW h \in 1 .. MaxHeight, Download(h) PROVE StoreType'
    BY <1>29, LedgerAssumption DEF StoreType, IInv, Values, Download, disk, ws, engine, exec
<1>30. ASSUME UNCHANGED vars PROVE StoreType'
    BY <1>30 DEF StoreType, IInv, Values, vars, disk, ws, engine, exec
<1> QED
    BY <1>1, <1>2, <1>3, <1>4, <1>5, <1>6, <1>7, <1>8, <1>9, <1>10, <1>11, <1>12, <1>13, <1>14, <1>15, <1>16, <1>17, <1>18, <1>19, <1>20, <1>21, <1>22, <1>23, <1>24, <1>25, <1>26, <1>27, <1>28, <1>29, <1>30
    DEF Next, Boot, Daemon, BlockChain, CommitStep

\* A committer at a transaction is at one of its block.
LEMMA CurrentIsTx ==
    ASSUME IInv, StoreType, WorkInv, NEW c \in Committers, pc[c] \in Paying \/ AtTx(c)
    PROVE  /\ Current(c) \in Tx /\ block[c] \in 1 .. MaxHeight
           /\ Current(c).from \in Address /\ Current(c).to \in Address /\ Current(c).amount \in Nat
<1>1. block[c] \in 1 .. MaxHeight
    <2>1. block[c] # 0 /\ block[c] \in 0 .. MaxHeight
        BY DEF IInv, Values, WorkInv, AtTx
    <2> QED BY <2>1, LedgerAssumption
<1>2. done[c] \in Nat /\ done[c] < Len(chain[block[c]])
    BY DEF WorkInv, AtTx
<1>3. chain[block[c]] \in Seq(Tx)
    BY <1>1, StepOfDef DEF StoreType
<1>4. Current(c) \in Tx
    <2> DEFINE s == chain[block[c]]
    <2>1. done[c] + 1 \in 1 .. Len(s)
        BY <1>2, <1>3
    <2> HIDE DEF s
    <2>2. s[done[c] + 1] \in Tx
        BY <1>3, <2>1 DEF s
    <2> QED BY <2>2 DEF s, Current
<1> QED BY <1>1, <1>4, LedgerAssumption

\* The stored transactions, and their rows, are transactions.
TxType == txDB \subseteq Tx /\ records \subseteq Tx \X (1 .. MaxHeight)

\* Every step keeps TxType.
LEMMA TxStep == ASSUME IInv, StoreType, WorkInv, TxType, [Next]_vars PROVE TxType'
<1>1. ASSUME SetGenesisNumber PROVE TxType'
    BY <1>1 DEF TxType, SetGenesisNumber
<1>2. ASSUME SetGenesisBlock PROVE TxType'
    BY <1>2 DEF TxType, SetGenesisBlock
<1>3. ASSUME SetGenesisMeta PROVE TxType'
    BY <1>3 DEF TxType, SetGenesisMeta
<1>4. ASSUME LoadAccount PROVE TxType'
    BY <1>4 DEF TxType, LoadAccount
<1>5. ASSUME Run PROVE TxType'
    BY <1>5 DEF TxType, Run, disk
<1>6. ASSUME Crash PROVE TxType'
    BY <1>6 DEF TxType, Crash, disk
<1>7. ASSUME Restart PROVE TxType'
    BY <1>7 DEF TxType, Restart, disk
<1>8. ASSUME Poll PROVE TxType'
    BY <1>8 DEF TxType, Poll, disk
<1>9. ASSUME MigrateNotStarted PROVE TxType'
    BY <1>9 DEF TxType, MigrateNotStarted, disk
<1>10. ASSUME MigrateCommitting PROVE TxType'
    BY <1>10 DEF TxType, MigrateCommitting, disk
<1>11. ASSUME EnterFinished PROVE TxType'
    BY <1>11 DEF TxType, EnterFinished, disk
<1>12. ASSUME MigrateFinished PROVE TxType'
    BY <1>12 DEF TxType, MigrateFinished, disk
<1>13. ASSUME MigrateViewChanging PROVE TxType'
    BY <1>13 DEF TxType, MigrateViewChanging, disk
<1>14. ASSUME NEW c \in Committers, ExecSender(c) PROVE TxType'
    BY <1>14 DEF TxType, ExecSender, disk
<1>15. ASSUME NEW c \in Committers, ExecTransfer(c) PROVE TxType'
    BY <1>15 DEF TxType, ExecTransfer, disk
<1>16. ASSUME NEW c \in Committers, InsertSender(c) PROVE TxType'
    BY <1>16 DEF TxType, InsertSender
<1>17. ASSUME NEW c \in Committers, InsertRecipient(c) PROVE TxType'
    BY <1>17 DEF TxType, InsertRecipient
<1>18. ASSUME NEW c \in Committers, InsertTx(c) PROVE TxType'
    BY <1>18, CurrentIsTx DEF TxType, InsertTx
<1>19. ASSUME NEW c \in Committers, InsertTxRecords(c) PROVE TxType'
    <2>1. block[c] \in 1 .. MaxHeight
        <3>1. block[c] # 0 /\ block[c] \in 0 .. MaxHeight
            BY <1>19 DEF IInv, Values, WorkInv, InsertTxRecords
        <3> QED BY <3>1, LedgerAssumption
    <2>2. chain[block[c]] \in Seq(Tx)
        BY <2>1, StepOfDef DEF StoreType
    <2>3. Range(chain[block[c]]) \subseteq Tx
        BY <2>2 DEF Range
    <2>4. {<<t, block[c]>> : t \in Range(chain[block[c]])} \subseteq Tx \X (1 .. MaxHeight)
        BY <2>1, <2>3
    <2> QED BY <1>19, <2>4 DEF TxType, InsertTxRecords
<1>20. ASSUME NEW c \in Committers, IncreaseBlockNum(c) PROVE TxType'
    BY <1>20 DEF TxType, IncreaseBlockNum, disk
<1>21. ASSUME NEW c \in Committers, SetValue(c) PROVE TxType'
    BY <1>21 DEF TxType, SetValue, disk
<1>22. ASSUME NEW c \in Committers, InsertBlock(c) PROVE TxType'
    BY <1>22 DEF TxType, InsertBlock
<1>23. ASSUME NEW c \in Committers, InsertNumber(c) PROVE TxType'
    BY <1>23 DEF TxType, InsertNumber
<1>24. ASSUME NEW c \in Committers, UpdateLastWorldState(c) PROVE TxType'
    BY <1>24 DEF TxType, UpdateLastWorldState
<1>25. ASSUME NEW h \in 1 .. MaxHeight, CommitFiled(h) PROVE TxType'
    BY <1>25 DEF TxType, CommitFiled, disk
<1>26. ASSUME StartEngine PROVE TxType'
    BY <1>26 DEF TxType, StartEngine, disk
<1>27. ASSUME StopEngine PROVE TxType'
    BY <1>27 DEF TxType, StopEngine, disk
<1>28. ASSUME EndStop PROVE TxType'
    BY <1>28 DEF TxType, EndStop, disk
<1>29. ASSUME NEW h \in 1 .. MaxHeight, Download(h) PROVE TxType'
    BY <1>29 DEF TxType, Download, disk
<1>30. ASSUME UNCHANGED vars PROVE TxType'
    BY <1>30 DEF TxType, vars, disk
<1> QED
    BY <1>1, <1>2, <1>3, <1>4, <1>5, <1>6, <1>7, <1>8, <1>9, <1>10, <1>11, <1>12, <1>13, <1>14, <1>15, <1>16, <1>17, <1>18, <1>19, <1>20, <1>21, <1>22, <1>23, <1>24, <1>25, <1>26, <1>27, <1>28, <1>29, <1>30
    DEF Next, Boot, Daemon, BlockChain, CommitStep

(***************************************************************************)
(* What the committers have in hand.                                       *)
(***************************************************************************)

\* A goroutine moves without a change of its block.
LEMMA WorkGoing ==
    ASSUME IInv, WorkInv, NEW c \in Committers, NEW s, pc' = [pc EXCEPT ![c] = s],
           s \in Committing <=> pc[c] \in Committing,
           s \in Paying => pc[c] \in Paying \/ AtTx(c),
           s = "apply" => pc[c] = "apply",
           UNCHANGED <<chain, block, done>>
    PROVE  WorkInv'
BY Going DEF WorkInv, AtTx

\* A committer leaves its block.
LEMMA WorkLeaves ==
    ASSUME IInv, WorkInv, NEW c \in Committers, Leave(c), chain' = chain PROVE WorkInv'
<1>1. pc'[c] = "idle" /\ \A d \in Committers : d # c => pc'[d] = pc[d]
    BY Going DEF Leave
<1>2. block'[c] = 0 /\ \A d \in Committers : d # c => block'[d] = block[d] /\ done'[d] = done[d]
    BY DEF Leave, IInv, Values, WorkInv
<1>3. done' \in [Committers -> Nat]
    BY DEF Leave, WorkInv
<1> QED BY <1>1, <1>2, <1>3 DEF WorkInv

\* A committer begins a block.
LEMMA WorkBegins ==
    ASSUME IInv, StoreType, WorkInv, NEW c \in Committers, NEW h \in 1 .. MaxHeight,
           Begin(c, h), chain' = chain
    PROVE  WorkInv'
<1>1. pc'[c] = "apply" /\ \A d \in Committers : d # c => pc'[d] = pc[d]
    BY Going DEF Begin
<1>2. /\ block'[c] = h /\ done'[c] = 0
      /\ \A d \in Committers : d # c => block'[d] = block[d] /\ done'[d] = done[d]
    BY DEF Begin, IInv, Values, WorkInv
<1>3. done' \in [Committers -> Nat]
    BY DEF Begin, WorkInv
<1>4. h # 0 /\ Len(chain[h]) \in Nat
    BY StepOfDef, LedgerAssumption DEF StoreType
<1> QED BY <1>1, <1>2, <1>3, <1>4 DEF WorkInv

\* A process without memory works on nothing.
LEMMA WorkForgotten == ASSUME Forgotten PROVE WorkInv'
BY DEF Forgotten, WorkInv

\* Every step keeps WorkInv.
LEMMA WorkStep == ASSUME IInv, StoreType, WorkInv, [Next]_vars PROVE WorkInv'
<1>1. ASSUME SetGenesisNumber PROVE WorkInv'
    BY <1>1 DEF WorkInv, SetGenesisNumber, exec
<1>2. ASSUME SetGenesisBlock PROVE WorkInv'
    BY <1>2 DEF WorkInv, SetGenesisBlock, exec
<1>3. ASSUME SetGenesisMeta PROVE WorkInv'
    BY <1>3 DEF WorkInv, SetGenesisMeta, exec
<1>4. ASSUME LoadAccount PROVE WorkInv'
    <2>1. /\ \A c \in Committers : pc[c] = "idle"
          /\ UNCHANGED <<chain, pc, block>> /\ done' \in [Committers -> Nat]
        BY <1>4 DEF IInv, NotRunning, WorkInv, LoadAccount
    <2> QED BY <2>1 DEF WorkInv
<1>5. ASSUME Run PROVE WorkInv'
    <2>1. /\ \A c \in Committers : pc[c] = "idle"
          /\ UNCHANGED <<chain, pc, block>> /\ done' \in [Committers -> Nat]
        BY <1>5 DEF IInv, NotRunning, WorkInv, Run
    <2> QED BY <2>1 DEF WorkInv
<1>6. ASSUME Crash PROVE WorkInv'
    BY <1>6, WorkForgotten DEF Crash
<1>7. ASSUME Restart PROVE WorkInv'
    BY <1>7 DEF WorkInv, Restart, exec
<1>8. ASSUME Poll PROVE WorkInv'
    <2>1. /\ pc' = [pc EXCEPT !["daemon"] = "migrate"] /\ "daemon" \in Committers
          /\ "migrate" \in Committing <=> pc["daemon"] \in Committing
          /\ "migrate" \in Paying => pc["daemon"] \in Paying
          /\ UNCHANGED <<chain, block, done>>
        BY <1>8 DEF Poll, Goto, disk
    <2> QED BY <2>1, WorkGoing
<1>9. ASSUME MigrateNotStarted PROVE WorkInv'
    <2>1. /\ pc' = [pc EXCEPT !["daemon"] = "idle"] /\ "daemon" \in Committers
          /\ "idle" \in Committing <=> pc["daemon"] \in Committing
          /\ "idle" \in Paying => pc["daemon"] \in Paying
          /\ UNCHANGED <<chain, block, done>>
        BY <1>9 DEF MigrateNotStarted, Goto, disk
    <2> QED BY <2>1, WorkGoing
<1>10. ASSUME MigrateCommitting PROVE WorkInv'
    <2>1. /\ \/ pc' = [pc EXCEPT !["daemon"] = "enterFinished"]
             \/ pc' = [pc EXCEPT !["daemon"] = "idle"]
          /\ pc["daemon"] = "migrate"
          /\ UNCHANGED <<chain, block, done>>
        BY <1>10 DEF MigrateCommitting, Goto
    <2>2. "daemon" \in Committers
        OBVIOUS
    <2> QED BY <2>1, <2>2, WorkGoing
<1>11. ASSUME EnterFinished PROVE WorkInv'
    <2>1. /\ pc' = [pc EXCEPT !["daemon"] = "idle"] /\ "daemon" \in Committers
          /\ "idle" \in Committing <=> pc["daemon"] \in Committing
          /\ "idle" \in Paying => pc["daemon"] \in Paying
          /\ UNCHANGED <<chain, block, done>>
        BY <1>11 DEF EnterFinished, Goto, disk
    <2> QED BY <2>1, WorkGoing
<1>12. ASSUME MigrateFinished PROVE WorkInv'
    <2>0. chain' = chain /\ "daemon" \in Committers
        BY <1>12 DEF MigrateFinished
    <2>1. CASE Forgotten
        BY <2>1, WorkForgotten
    <2>2. CASE received # 0 /\ Begin("daemon", received)
        <3>1. received \in 1 .. MaxHeight
            BY <2>2, LedgerAssumption DEF IInv, Values
        <3> QED BY <2>0, <2>2, <3>1, WorkBegins
    <2>3. CASE Fail("daemon")
        BY <2>0, <2>3, WorkLeaves DEF Fail
    <2> QED BY <1>12, <2>1, <2>2, <2>3 DEF MigrateFinished
<1>13. ASSUME MigrateViewChanging PROVE WorkInv'
    <2>1. /\ pc' = [pc EXCEPT !["daemon"] = "idle"] /\ "daemon" \in Committers
          /\ "idle" \in Committing <=> pc["daemon"] \in Committing
          /\ "idle" \in Paying => pc["daemon"] \in Paying
          /\ UNCHANGED <<chain, block, done>>
        BY <1>13 DEF MigrateViewChanging, Goto, ChangeState, disk
    <2> QED BY <2>1, WorkGoing
<1>14. ASSUME NEW c \in Committers, ExecSender(c) PROVE WorkInv'
    <2>0. chain' = chain /\ AtTx(c) /\ pc[c] = "apply"
        BY <1>14 DEF ExecSender, AtTx
    <2>1. CASE Fail(c)
        BY <2>0, <2>1, WorkLeaves DEF Fail
    <2>2. CASE done' = [done EXCEPT ![c] = @ + 1] /\ UNCHANGED <<pc, block>>
        <3>1. done[c] \in Nat /\ done[c] < Len(chain[block[c]]) /\ Len(chain[block[c]]) \in Nat
            BY <2>0, CurrentIsTx, StepOfDef DEF StoreType, AtTx, WorkInv
        <3>2. /\ done'[c] <= Len(chain[block[c]]) /\ done' \in [Committers -> Nat]
              /\ \A d \in Committers : d # c => done'[d] = done[d]
            BY <2>2, <3>1 DEF WorkInv
        <3> QED BY <2>0, <2>2, <3>2 DEF WorkInv
    <2>3. CASE Goto(c, "transfer") /\ UNCHANGED <<block, done>>
        BY <2>0, <2>3, WorkGoing DEF Goto
    <2> QED BY <1>14, <2>1, <2>2, <2>3 DEF ExecSender
<1>15. ASSUME NEW c \in Committers, ExecTransfer(c) PROVE WorkInv'
    <2>1. /\ pc' = [pc EXCEPT ![c] = "debit"] /\ c \in Committers
          /\ "debit" \in Committing <=> pc[c] \in Committing
          /\ "debit" \in Paying => pc[c] \in Paying
          /\ UNCHANGED <<chain, block, done>>
        BY <1>15 DEF ExecTransfer, Goto, disk
    <2> QED BY <2>1, WorkGoing
<1>16. ASSUME NEW c \in Committers, InsertSender(c) PROVE WorkInv'
    <2>1. /\ pc' = [pc EXCEPT ![c] = "credit"] /\ c \in Committers
          /\ "credit" \in Committing <=> pc[c] \in Committing
          /\ "credit" \in Paying => pc[c] \in Paying
          /\ UNCHANGED <<chain, block, done>>
        BY <1>16 DEF InsertSender, Goto
    <2> QED BY <2>1, WorkGoing
<1>17. ASSUME NEW c \in Committers, InsertRecipient(c) PROVE WorkInv'
    <2>1. /\ pc' = [pc EXCEPT ![c] = "record"] /\ c \in Committers
          /\ "record" \in Committing <=> pc[c] \in Committing
          /\ "record" \in Paying => pc[c] \in Paying
          /\ UNCHANGED <<chain, block, done>>
        BY <1>17 DEF InsertRecipient, Goto
    <2> QED BY <2>1, WorkGoing
<1>18. ASSUME NEW c \in Committers, InsertTx(c) PROVE WorkInv'
    <2>1. /\ pc'[c] = "apply" /\ pc[c] = "record"
          /\ \A d \in Committers : d # c => pc'[d] = pc[d] /\ done'[d] = done[d]
          /\ done'[c] = done[c] + 1 /\ done' \in [Committers -> Nat]
          /\ UNCHANGED <<chain, block>>
        <3>1. /\ pc' = [pc EXCEPT ![c] = "apply"] /\ pc[c] = "record"
              /\ done' = [done EXCEPT ![c] = @ + 1] /\ UNCHANGED <<chain, block>>
            BY <1>18 DEF InsertTx, Goto
        <3>2. pc'[c] = "apply" /\ \A d \in Committers : d # c => pc'[d] = pc[d]
            BY <3>1, Going
        <3>3. done \in [Committers -> Nat]
            BY DEF WorkInv
        <3>4. /\ done'[c] = done[c] + 1 /\ done' \in [Committers -> Nat]
              /\ \A d \in Committers : d # c => done'[d] = done[d]
            BY <3>1, <3>3
        <3> QED BY <3>1, <3>2, <3>4
    <2>2. done[c] < Len(chain[block[c]]) /\ done[c] \in Nat
        BY <2>1 DEF WorkInv
    <2>3. Len(chain[block[c]]) \in Nat
        BY <2>1, CurrentIsTx, StepOfDef DEF StoreType
    <2>4. done[c] + 1 <= Len(chain[block[c]])
        BY <2>2, <2>3
    <2> QED BY <2>1, <2>4 DEF WorkInv
<1>19. ASSUME NEW c \in Committers, InsertTxRecords(c) PROVE WorkInv'
    <2>1. /\ pc' = [pc EXCEPT ![c] = "increase"] /\ c \in Committers
          /\ "increase" \in Committing <=> pc[c] \in Committing
          /\ "increase" \in Paying => pc[c] \in Paying
          /\ UNCHANGED <<chain, block, done>>
        BY <1>19 DEF InsertTxRecords, Goto
    <2> QED BY <2>1, WorkGoing
<1>20. ASSUME NEW c \in Committers, IncreaseBlockNum(c) PROVE WorkInv'
    <2>1. /\ pc' = [pc EXCEPT ![c] = "setValue"] /\ c \in Committers
          /\ "setValue" \in Committing <=> pc[c] \in Committing
          /\ "setValue" \in Paying => pc[c] \in Paying
          /\ UNCHANGED <<chain, block, done>>
        BY <1>20 DEF IncreaseBlockNum, Goto, disk
    <2> QED BY <2>1, WorkGoing
<1>21. ASSUME NEW c \in Committers, SetValue(c) PROVE WorkInv'
    <2>1. /\ pc' = [pc EXCEPT ![c] = "block"] /\ c \in Committers
          /\ "block" \in Committing <=> pc[c] \in Committing
          /\ "block" \in Paying => pc[c] \in Paying
          /\ UNCHANGED <<chain, block, done>>
        BY <1>21 DEF SetValue, Goto, disk
    <2> QED BY <2>1, WorkGoing
<1>22. ASSUME NEW c \in Committers, InsertBlock(c) PROVE WorkInv'
    <2>1. /\ pc' = [pc EXCEPT ![c] = "number"] /\ c \in Committers
          /\ "number" \in Committing <=> pc[c] \in Committing
          /\ "number" \in Paying => pc[c] \in Paying
          /\ UNCHANGED <<chain, block, done>>
        BY <1>22 DEF InsertBlock, Goto
    <2> QED BY <2>1, WorkGoing
<1>23. ASSUME NEW c \in Committers, InsertNumber(c) PROVE WorkInv'
    <2>1. /\ pc' = [pc EXCEPT ![c] = "meta"] /\ c \in Committers
          /\ "meta" \in Committing <=> pc[c] \in Committing
          /\ "meta" \in Paying => pc[c] \in Paying
          /\ UNCHANGED <<chain, block, done>>
        BY <1>23 DEF InsertNumber, Goto
    <2> QED BY <2>1, WorkGoing
<1>24. ASSUME NEW c \in Committers, UpdateLastWorldState(c) PROVE WorkInv'
    BY <1>24, WorkLeaves DEF UpdateLastWorldState
<1>25. ASSUME NEW h \in 1 .. MaxHeight, CommitFiled(h) PROVE WorkInv'
    <2>0. chain' = chain /\ "chain" \in Committers
        BY <1>25 DEF CommitFiled
    <2>1. CASE UNCHANGED <<pc, block, done>>
        BY <2>0, <2>1 DEF WorkInv
    <2>2. CASE Begin("chain", h)
        BY <2>0, <2>2, <1>25, WorkBegins
    <2> QED BY <1>25, <2>1, <2>2 DEF CommitFiled
<1>26. ASSUME StartEngine PROVE WorkInv'
    BY <1>26 DEF WorkInv, StartEngine, exec
<1>27. ASSUME StopEngine PROVE WorkInv'
    <2>1. /\ pc' = [pc EXCEPT !["chain"] = "stop"] /\ "chain" \in Committers
          /\ "stop" \in Committing <=> pc["chain"] \in Committing
          /\ "stop" \in Paying => pc["chain"] \in Paying
          /\ UNCHANGED <<chain, block, done>>
        BY <1>27 DEF StopEngine, Goto, disk
    <2> QED BY <2>1, WorkGoing
<1>28. ASSUME EndStop PROVE WorkInv'
    <2>1. /\ pc' = [pc EXCEPT !["chain"] = "idle"] /\ "chain" \in Committers
          /\ "idle" \in Committing <=> pc["chain"] \in Committing
          /\ "idle" \in Paying => pc["chain"] \in Paying
          /\ UNCHANGED <<chain, block, done>>
        BY <1>28 DEF EndStop, Goto, disk
    <2> QED BY <2>1, WorkGoing
<1>29. ASSUME NEW h \in 1 .. MaxHeight, Download(h) PROVE WorkInv'
    BY <1>29 DEF WorkInv, Download, exec
<1>30. ASSUME UNCHANGED vars PROVE WorkInv'
    BY <1>30 DEF WorkInv, vars, exec
<1> QED
    BY <1>1, <1>2, <1>3, <1>4, <1>5, <1>6, <1>7, <1>8, <1>9, <1>10, <1>11, <1>12, <1>13, <1>14, <1>15, <1>16, <1>17, <1>18, <1>19, <1>20, <1>21, <1>22, <1>23, <1>24, <1>25, <1>26, <1>27, <1>28, <1>29, <1>30
    DEF Next, Boot, Daemon, BlockChain, CommitStep

(***************************************************************************)
(* Accounts in memory and on disk.                                         *)
(***************************************************************************)

\* Statements before which Exec holds an account.
Holding == {"transfer", "debit", "credit"}

\* A step that leaves the accounts alone, and does not disturb a committer
\* that holds one.
Quiet ==
    /\ UNCHANGED <<chain, accountDB, cache, account, recv>>
    /\ \A c \in Committers : pc[c] \in Holding \/ pc'[c] \in Holding =>
          pc'[c] = pc[c] /\ block'[c] = block[c] /\ done'[c] = done[c]

\* Nobody moves.
LEMMA QuietStays ==
    ASSUME UNCHANGED <<chain, accountDB, cache, account, recv>>,
           UNCHANGED <<pc, block, done>>
    PROVE  Quiet
BY DEF Quiet

\* One moves that holds no account.
LEMMA QuietGoing ==
    ASSUME IInv, UNCHANGED <<chain, accountDB, cache, account, recv>>,
           NEW c \in Committers, NEW s, pc' = [pc EXCEPT ![c] = s],
           s \notin Holding, pc[c] \notin Holding,
           \A d \in Committers : d # c => block'[d] = block[d] /\ done'[d] = done[d]
    PROVE  Quiet
BY Going DEF Quiet

\* One leaves its block, holding no account.
LEMMA QuietLeaves ==
    ASSUME IInv, WorkInv, UNCHANGED <<chain, accountDB, cache, account, recv>>,
           NEW c \in Committers, Leave(c), pc[c] \notin Holding
    PROVE  Quiet
<1>1. \A d \in Committers : d # c => block'[d] = block[d] /\ done'[d] = done[d]
    BY DEF Leave, IInv, Values, WorkInv
<1> QED BY <1>1, QuietGoing DEF Leave, Holding

\* One begins a block.
LEMMA QuietBegins ==
    ASSUME IInv, WorkInv, UNCHANGED <<chain, accountDB, cache, account, recv>>,
           NEW c \in Committers, NEW h, Begin(c, h), pc[c] \notin Holding
    PROVE  Quiet
<1>1. \A d \in Committers : d # c => block'[d] = block[d] /\ done'[d] = done[d]
    BY DEF Begin, IInv, Values, WorkInv
<1> QED BY <1>1, QuietGoing DEF Begin, Holding

\* A transaction whose sender is found and can pay: Exec takes his account.
TakesSender(c) ==
    /\ ExecSender(c)
    /\ account' = [account EXCEPT ![c] = Pointer(Current(c).from)]
    /\ GetAccountByID(Current(c).from) # None
    /\ ~ (GetAccountByID(Current(c).from) < Current(c).amount)
    /\ ~ GetTxByID(Current(c))
    /\ Goto(c, "transfer") /\ UNCHANGED <<block, done>>

\* The steps that touch an account.
Touches ==
    \/ LoadAccount
    \/ Forgotten /\ UNCHANGED <<chain, accountDB>>
    \/ \E c \in Committers :
          TakesSender(c) \/ ExecTransfer(c) \/ InsertSender(c) \/ InsertRecipient(c)

\* Every step of the node is one of these or quiet.
LEMMA Moves == ASSUME IInv, StoreType, WorkInv, [Next]_vars PROVE Quiet \/ Touches
<1>1. ASSUME SetGenesisNumber PROVE Quiet \/ Touches
    <2>1. UNCHANGED <<chain, accountDB, cache, account, recv>> /\ UNCHANGED <<pc, block, done>>
        BY <1>1 DEF SetGenesisNumber, exec
    <2> QED BY <2>1, QuietStays
<1>2. ASSUME SetGenesisBlock PROVE Quiet \/ Touches
    <2>1. UNCHANGED <<chain, accountDB, cache, account, recv>> /\ UNCHANGED <<pc, block, done>>
        BY <1>2 DEF SetGenesisBlock, exec
    <2> QED BY <2>1, QuietStays
<1>3. ASSUME SetGenesisMeta PROVE Quiet \/ Touches
    <2>1. UNCHANGED <<chain, accountDB, cache, account, recv>> /\ UNCHANGED <<pc, block, done>>
        BY <1>3 DEF SetGenesisMeta, exec
    <2> QED BY <2>1, QuietStays
<1>4. ASSUME LoadAccount PROVE Quiet \/ Touches
    BY <1>4 DEF Touches
<1>5. ASSUME Run PROVE Quiet \/ Touches
    <2>1. UNCHANGED <<chain, accountDB, cache, account, recv>> /\ UNCHANGED <<pc, block>>
        BY <1>5 DEF Run, disk
    <2>2. \A c \in Committers : pc[c] = "idle"
        BY <1>5 DEF IInv, NotRunning, Run
    <2> QED BY <2>1, <2>2 DEF Quiet, Holding
<1>6. ASSUME Crash PROVE Quiet \/ Touches
    BY <1>6 DEF Touches, Crash, disk
<1>7. ASSUME Restart PROVE Quiet \/ Touches
    <2>1. UNCHANGED <<chain, accountDB, cache, account, recv>> /\ UNCHANGED <<pc, block, done>>
        BY <1>7 DEF Restart, GetBlockByNum, disk, exec
    <2> QED BY <2>1, QuietStays
<1>8. ASSUME Poll PROVE Quiet \/ Touches
    <2>1. /\ UNCHANGED <<chain, accountDB, cache, account, recv>>
          /\ UNCHANGED <<block, done>>
        BY <1>8 DEF Poll, Goto, disk, exec
    <2>2. pc' = [pc EXCEPT !["daemon"] = "migrate"] /\ pc["daemon"] \notin Holding /\ "daemon" \in Committers
        BY <1>8 DEF Poll, Goto, ChangeState, Holding
    <2> QED BY <2>1, <2>2, QuietGoing DEF Holding
<1>9. ASSUME MigrateNotStarted PROVE Quiet \/ Touches
    <2>1. /\ UNCHANGED <<chain, accountDB, cache, account, recv>>
          /\ UNCHANGED <<block, done>>
        BY <1>9 DEF MigrateNotStarted, Goto, disk, exec
    <2>2. pc' = [pc EXCEPT !["daemon"] = "idle"] /\ pc["daemon"] \notin Holding /\ "daemon" \in Committers
        BY <1>9 DEF MigrateNotStarted, Goto, ChangeState, Holding
    <2> QED BY <2>1, <2>2, QuietGoing DEF Holding
<1>10. ASSUME MigrateCommitting PROVE Quiet \/ Touches
    <2>1. /\ UNCHANGED <<chain, accountDB, cache, account, recv>>
          /\ UNCHANGED <<block, done>>
        BY <1>10 DEF MigrateCommitting, Goto, ChangeState, disk, exec
    <2>2. /\ \/ pc' = [pc EXCEPT !["daemon"] = "enterFinished"]
             \/ pc' = [pc EXCEPT !["daemon"] = "idle"]
          /\ pc["daemon"] \notin Holding /\ "daemon" \in Committers
        BY <1>10 DEF MigrateCommitting, Goto, ChangeState, Holding
    <2> QED BY <2>1, <2>2, QuietGoing DEF Holding
<1>11. ASSUME EnterFinished PROVE Quiet \/ Touches
    <2>1. /\ UNCHANGED <<chain, accountDB, cache, account, recv>>
          /\ UNCHANGED <<block, done>>
        BY <1>11 DEF EnterFinished, Goto, disk, exec
    <2>2. pc' = [pc EXCEPT !["daemon"] = "idle"] /\ pc["daemon"] \notin Holding /\ "daemon" \in Committers
        BY <1>11 DEF EnterFinished, Goto, ChangeState, Holding
    <2> QED BY <2>1, <2>2, QuietGoing DEF Holding
<1>12. ASSUME MigrateFinished PROVE Quiet \/ Touches
    <2>1. CASE received = 0
        BY <1>12, <2>1 DEF Touches, MigrateFinished, disk
    <2>2. CASE received # 0
        <3>1. UNCHANGED <<chain, accountDB, cache, account, recv>> /\ pc["daemon"] \notin Holding /\ "daemon" \in Committers
            BY <1>12, <2>2 DEF MigrateFinished, disk, Holding
        <3>2. Begin("daemon", received) \/ Leave("daemon")
            BY <1>12, <2>2 DEF MigrateFinished, Fail
        <3> QED BY <3>1, <3>2, QuietBegins, QuietLeaves
    <2> QED BY <2>1, <2>2
<1>13. ASSUME MigrateViewChanging PROVE Quiet \/ Touches
    <2>1. /\ UNCHANGED <<chain, accountDB, cache, account, recv>>
          /\ UNCHANGED <<block, done>>
        BY <1>13 DEF MigrateViewChanging, Goto, ChangeState, disk, exec
    <2>2. pc' = [pc EXCEPT !["daemon"] = "idle"] /\ pc["daemon"] \notin Holding /\ "daemon" \in Committers
        BY <1>13 DEF MigrateViewChanging, Goto, ChangeState, Holding
    <2> QED BY <2>1, <2>2, QuietGoing DEF Holding
<1>14. ASSUME NEW c \in Committers, ExecSender(c) PROVE Quiet \/ Touches
    <2> DEFINE t == Current(c)
               b == GetAccountByID(t.from)
    <2>0. /\ UNCHANGED <<chain, accountDB, cache, recv>> /\ pc[c] \notin Holding
          /\ t.amount \in Nat
        BY <1>14, CurrentIsTx DEF ExecSender, AtTx, disk, Holding
    <2>1. CASE Fail(c) /\ UNCHANGED account
        BY <2>0, <2>1, QuietLeaves DEF Fail
    <2>2. CASE done' = [done EXCEPT ![c] = @ + 1] /\ UNCHANGED <<pc, block, account>>
        <3>1. \A d \in Committers : d # c => done'[d] = done[d]
            BY <2>2 DEF WorkInv
        <3> QED BY <2>0, <2>2, <3>1 DEF Quiet
    <2>3. CASE ~ (GetTxByID(t) \/ b = None) /\ ~ (b < t.amount)
               /\ account' = [account EXCEPT ![c] = Pointer(t.from)]
               /\ Goto(c, "transfer") /\ UNCHANGED <<block, done>>
        BY <1>14, <2>3 DEF TakesSender, Touches
    <2> QED BY <1>14, <2>1, <2>2, <2>3 DEF ExecSender
<1>15. ASSUME NEW c \in Committers, ExecTransfer(c) PROVE Quiet \/ Touches
    BY <1>15 DEF Touches
<1>16. ASSUME NEW c \in Committers, InsertSender(c) PROVE Quiet \/ Touches
    BY <1>16 DEF Touches
<1>17. ASSUME NEW c \in Committers, InsertRecipient(c) PROVE Quiet \/ Touches
    BY <1>17 DEF Touches
<1>18. ASSUME NEW c \in Committers, InsertTx(c) PROVE Quiet \/ Touches
    <2>1. /\ UNCHANGED <<chain, accountDB, cache, account, recv>> /\ UNCHANGED block
          /\ pc' = [pc EXCEPT ![c] = "apply"] /\ pc[c] \notin Holding
          /\ done' = [done EXCEPT ![c] = @ + 1]
        BY <1>18 DEF InsertTx, Goto, Holding
    <2>2. \A d \in Committers : d # c => done'[d] = done[d]
        BY <2>1 DEF WorkInv
    <2>3. "apply" \notin Holding
        BY DEF Holding
    <2> QED BY <2>1, <2>2, <2>3, QuietGoing
<1>19. ASSUME NEW c \in Committers, InsertTxRecords(c) PROVE Quiet \/ Touches
    <2>1. /\ UNCHANGED <<chain, accountDB, cache, account, recv>>
          /\ UNCHANGED <<block, done>>
        BY <1>19 DEF InsertTxRecords, Goto, exec
    <2>2. pc' = [pc EXCEPT ![c] = "increase"] /\ pc[c] \notin Holding /\ c \in Committers
        BY <1>19 DEF InsertTxRecords, Goto, ChangeState, Holding
    <2> QED BY <2>1, <2>2, QuietGoing DEF Holding
<1>20. ASSUME NEW c \in Committers, IncreaseBlockNum(c) PROVE Quiet \/ Touches
    <2>1. /\ UNCHANGED <<chain, accountDB, cache, account, recv>>
          /\ UNCHANGED <<block, done>>
        BY <1>20 DEF IncreaseBlockNum, Goto, disk, exec
    <2>2. pc' = [pc EXCEPT ![c] = "setValue"] /\ pc[c] \notin Holding /\ c \in Committers
        BY <1>20 DEF IncreaseBlockNum, Goto, ChangeState, Holding
    <2> QED BY <2>1, <2>2, QuietGoing DEF Holding
<1>21. ASSUME NEW c \in Committers, SetValue(c) PROVE Quiet \/ Touches
    <2>1. /\ UNCHANGED <<chain, accountDB, cache, account, recv>>
          /\ UNCHANGED <<block, done>>
        BY <1>21 DEF SetValue, Goto, disk, exec
    <2>2. pc' = [pc EXCEPT ![c] = "block"] /\ pc[c] \notin Holding /\ c \in Committers
        BY <1>21 DEF SetValue, Goto, ChangeState, Holding
    <2> QED BY <2>1, <2>2, QuietGoing DEF Holding
<1>22. ASSUME NEW c \in Committers, InsertBlock(c) PROVE Quiet \/ Touches
    <2>1. /\ UNCHANGED <<chain, accountDB, cache, account, recv>>
          /\ UNCHANGED <<block, done>>
        BY <1>22 DEF InsertBlock, Goto, exec
    <2>2. pc' = [pc EXCEPT ![c] = "number"] /\ pc[c] \notin Holding /\ c \in Committers
        BY <1>22 DEF InsertBlock, Goto, ChangeState, Holding
    <2> QED BY <2>1, <2>2, QuietGoing DEF Holding
<1>23. ASSUME NEW c \in Committers, InsertNumber(c) PROVE Quiet \/ Touches
    <2>1. /\ UNCHANGED <<chain, accountDB, cache, account, recv>>
          /\ UNCHANGED <<block, done>>
        BY <1>23 DEF InsertNumber, Goto, exec
    <2>2. pc' = [pc EXCEPT ![c] = "meta"] /\ pc[c] \notin Holding /\ c \in Committers
        BY <1>23 DEF InsertNumber, Goto, ChangeState, Holding
    <2> QED BY <2>1, <2>2, QuietGoing DEF Holding
<1>24. ASSUME NEW c \in Committers, UpdateLastWorldState(c) PROVE Quiet \/ Touches
    <2>1. UNCHANGED <<chain, accountDB, cache, account, recv>> /\ pc[c] \notin Holding /\ Leave(c)
        BY <1>24 DEF UpdateLastWorldState, Holding
    <2> QED BY <2>1, QuietLeaves
<1>25. ASSUME NEW h \in 1 .. MaxHeight, CommitFiled(h) PROVE Quiet \/ Touches
    <2>1. UNCHANGED <<chain, accountDB, cache, account, recv>> /\ pc["chain"] \notin Holding /\ "chain" \in Committers
        BY <1>25 DEF CommitFiled, disk, Holding
    <2>2. Begin("chain", h) \/ UNCHANGED <<pc, block, done>>
        BY <1>25 DEF CommitFiled
    <2> QED BY <2>1, <2>2, QuietBegins, QuietStays
<1>26. ASSUME StartEngine PROVE Quiet \/ Touches
    <2>1. UNCHANGED <<chain, accountDB, cache, account, recv>> /\ UNCHANGED <<pc, block, done>>
        BY <1>26 DEF StartEngine, disk, exec
    <2> QED BY <2>1, QuietStays
<1>27. ASSUME StopEngine PROVE Quiet \/ Touches
    <2>1. /\ UNCHANGED <<chain, accountDB, cache, account, recv>>
          /\ UNCHANGED <<block, done>>
        BY <1>27 DEF StopEngine, Goto, disk, exec
    <2>2. pc' = [pc EXCEPT !["chain"] = "stop"] /\ pc["chain"] \notin Holding /\ "chain" \in Committers
        BY <1>27 DEF StopEngine, Goto, ChangeState, Holding
    <2> QED BY <2>1, <2>2, QuietGoing DEF Holding
<1>28. ASSUME EndStop PROVE Quiet \/ Touches
    <2>1. /\ UNCHANGED <<chain, accountDB, cache, account, recv>>
          /\ UNCHANGED <<block, done>>
        BY <1>28 DEF EndStop, Goto, disk, exec
    <2>2. pc' = [pc EXCEPT !["chain"] = "idle"] /\ pc["chain"] \notin Holding /\ "chain" \in Committers
        BY <1>28 DEF EndStop, Goto, ChangeState, Holding
    <2> QED BY <2>1, <2>2, QuietGoing DEF Holding
<1>29. ASSUME NEW h \in 1 .. MaxHeight, Download(h) PROVE Quiet \/ Touches
    <2>1. UNCHANGED <<chain, accountDB, cache, account, recv>> /\ UNCHANGED <<pc, block, done>>
        BY <1>29 DEF Download, disk, exec
    <2> QED BY <2>1, QuietStays
<1>30. ASSUME UNCHANGED vars PROVE Quiet \/ Touches
    <2>1. UNCHANGED <<chain, accountDB, cache, account, recv>> /\ UNCHANGED <<pc, block, done>>
        BY <1>30 DEF vars, disk, exec
    <2> QED BY <2>1, QuietStays
<1> QED
    BY <1>1, <1>2, <1>3, <1>4, <1>5, <1>6, <1>7, <1>8, <1>9, <1>10, <1>11, <1>12, <1>13, <1>14, <1>15, <1>16, <1>17, <1>18, <1>19, <1>20, <1>21, <1>22, <1>23, <1>24, <1>25, <1>26, <1>27, <1>28, <1>29, <1>30
    DEF Next, Boot, Daemon, BlockChain, CommitStep

\* The cache has balances, and at most CacheSize of them.
CacheType ==
    /\ DOMAIN cache \subseteq Address /\ \A a \in DOMAIN cache : cache[a] \in Int
    /\ Cardinality(DOMAIN cache) <= CacheSize

\* A committer holds an account only where Exec needs it, and one it holds as
\* the cache's own is in the cache.
PointersOf(c) ==
    /\ account[c] \in Pointers /\ recv[c] \in Pointers
    /\ pc[c] \notin {"transfer", "debit"} => account[c] = NoAccount
    /\ pc[c] \notin {"debit", "credit"} => recv[c] = NoAccount
    /\ account[c].shared => Current(c).from \in DOMAIN cache
    /\ recv[c].shared => Current(c).to \in DOMAIN cache

\* To hold no account is to hold a copy of nothing.
LEMMA NoneHeld == NoAccount \in Pointers /\ NoAccount.shared = FALSE
BY DEF NoAccount, Pointers

\* One value for each committer.
IsHeld(f) == f = [c \in Committers |-> f[c]]

\* The accounts in the store, in the cache and in hand.
AccountInv ==
    /\ accountDB \in [Address -> Int \cup {None}]
    /\ CacheType
    /\ IsHeld(account) /\ IsHeld(recv)
    /\ \A c \in Committers : PointersOf(c)

\* An account is inserted into the cache.
LEMMA InsertedIn ==
    ASSUME CacheType, NEW a \in Address, NEW b \in Int, NEW inUse,
           NEW evicted \in Victims(a, inUse), cache' = Inserted(a, b, evicted)
    PROVE  /\ CacheType'
           /\ DOMAIN cache' = (DOMAIN cache \ evicted) \cup {a}
           /\ cache'[a] = b
           /\ \A x \in DOMAIN cache' : x # a => cache'[x] = cache[x] /\ x \in DOMAIN cache
           /\ evicted \cap inUse = {}
           /\ a \notin evicted
<1> DEFINE D == DOMAIN cache
<1>1. /\ DOMAIN cache' = (D \ evicted) \cup {a} /\ cache'[a] = b
      /\ \A x \in DOMAIN cache' : x # a => cache'[x] = cache[x] /\ x \in DOMAIN cache
    BY DEF Inserted
<1>2. IsFiniteSet(D) /\ Cardinality(D) \in Nat /\ CacheSize \in Nat
    <2>1. IsFiniteSet(Address) /\ D \in SUBSET Address
        BY LedgerAssumption DEF CacheType
    <2> QED BY <2>1, FS_Subset, FS_CardinalityType, LedgerAssumption
<1>3. evicted \cap inUse = {} /\ a \notin evicted
    BY DEF Victims
<1>4. Cardinality((D \ evicted) \cup {a}) <= CacheSize
    <2>1. CASE a \in D \/ Cardinality(D) < CacheSize
        <3>1. evicted = {} /\ (D \ evicted) \cup {a} = D \cup {a}
            BY <2>1 DEF Victims
        <3>2. Cardinality(D \cup {a}) = IF a \in D THEN Cardinality(D) ELSE Cardinality(D) + 1
            BY <1>2, FS_AddElement
        <3>3. Cardinality(D) <= CacheSize
            BY DEF CacheType
        <3> HIDE DEF D
        <3>4. Cardinality(D \cup {a}) <= CacheSize
            BY <1>2, <2>1, <3>2, <3>3
        <3> QED BY <3>1, <3>4
    <2>2. CASE ~ (a \in D \/ Cardinality(D) < CacheSize)
        <3>1. PICK v \in D : evicted = {v}
            BY <2>2 DEF Victims
        <3>2. IsFiniteSet(D \ {v}) /\ Cardinality(D \ {v}) = Cardinality(D) - 1
            BY <1>2, FS_RemoveElement
        <3>3. Cardinality((D \ {v}) \cup {a}) <= Cardinality(D \ {v}) + 1
            <4>1. Cardinality((D \ {v}) \cup {a}) =
                     IF a \in D \ {v} THEN Cardinality(D \ {v}) ELSE Cardinality(D \ {v}) + 1
                BY <3>2, FS_AddElement
            <4>2. Cardinality(D \ {v}) \in Nat
                BY <3>2, FS_CardinalityType
            <4> HIDE DEF D
            <4> QED BY <4>1, <4>2
        <3>4. Cardinality((D \ {v}) \cup {a}) \in Nat
            BY <3>2, FS_AddElement, FS_CardinalityType
        <3>5. Cardinality(D) <= CacheSize
            BY DEF CacheType
        <3> HIDE DEF D
        <3>6. Cardinality((D \ {v}) \cup {a}) <= CacheSize
            BY <1>2, <3>2, <3>3, <3>4, <3>5
        <3> QED BY <3>1, <3>6
    <2> QED BY <2>1, <2>2
<1>5. CacheType'
    BY <1>1, <1>4 DEF CacheType
<1> QED BY <1>1, <1>3, <1>5

\* Whom committer d pays does not change while its transaction does not.
LEMMA SameCurrent ==
    ASSUME chain' = chain, NEW d, block'[d] = block[d], done'[d] = done[d]
    PROVE  Current(d)' = Current(d)
BY DEF Current

\* A quiet step keeps AccountInv.
LEMMA QuietAccounts == ASSUME AccountInv, Quiet PROVE AccountInv'
<1>1. UNCHANGED <<chain, accountDB, cache, account, recv>>
    BY DEF Quiet
<1>2. ASSUME NEW c \in Committers PROVE PointersOf(c)'
    <2>1. CASE pc[c] \in Holding \/ pc'[c] \in Holding
        <3>1. pc'[c] = pc[c] /\ block'[c] = block[c] /\ done'[c] = done[c]
            BY <2>1 DEF Quiet
        <3>2. Current(c)' = Current(c)
            BY <1>1, <3>1, SameCurrent
        <3> QED BY <1>1, <3>1, <3>2 DEF AccountInv, PointersOf
    <2>2. CASE ~ (pc[c] \in Holding \/ pc'[c] \in Holding)
        <3>1. account[c] = NoAccount /\ recv[c] = NoAccount
            BY <2>2 DEF AccountInv, PointersOf, Holding
        <3> QED BY <1>1, <3>1 DEF AccountInv, PointersOf, NoAccount
    <2> QED BY <2>1, <2>2
<1> QED BY <1>1, <1>2 DEF AccountInv, CacheType

\* So does the end of the process.
LEMMA ForgottenAccounts == ASSUME AccountInv, Forgotten, accountDB' = accountDB PROVE AccountInv'
<1>1. DOMAIN cache' = {} /\ Cardinality({}) = 0
    BY FS_EmptySet DEF Forgotten
<1>2. CacheType'
    BY <1>1, LedgerAssumption DEF CacheType
<1>3. \A c \in Committers : account'[c] = NoAccount /\ recv'[c] = NoAccount
    BY DEF Forgotten
<1>4. \A c \in Committers : PointersOf(c)'
    BY <1>3, NoneHeld DEF PointersOf
<1> QED BY <1>2, <1>4 DEF AccountInv, Forgotten, IsHeld

\* The next configured account.
LEMMA LoadsOne ==
    ASSUME WorkInv, LoadAccount
    PROVE  LET acc == AccountCfg[done["chain"] + 1]
           IN  done["chain"] + 1 \in 1 .. Len(AccountCfg) /\ acc.id \in Address /\ acc.amount \in Nat
<1>1. done["chain"] \in Nat /\ done["chain"] < Len(AccountCfg)
    BY DEF LoadAccount, WorkInv
<1> DEFINE R == [id : Address, amount : Nat]
<1>2. AccountCfg \in Seq(R)
    BY LedgerAssumption
<1> HIDE DEF R
<1>3. done["chain"] + 1 \in 1 .. Len(AccountCfg)
    BY <1>1, <1>2
<1>4. AccountCfg[done["chain"] + 1] \in R
    BY <1>2, <1>3
<1> QED BY <1>3, <1>4 DEF R

\* So does LoadAccount.
LEMMA LoadAccounts == ASSUME IInv, WorkInv, AccountInv, LoadAccount PROVE AccountInv'
<1> DEFINE acc == AccountCfg[done["chain"] + 1]
<1>1. acc.id \in Address /\ acc.amount \in Nat /\ acc.amount \in Int
    BY LoadsOne
<1>2. PICK gone \in Victims(acc.id, {}) : cache' = Inserted(acc.id, acc.amount, gone)
    BY DEF LoadAccount
<1>3. accountDB' = [accountDB EXCEPT ![acc.id] = acc.amount] /\ UNCHANGED <<pc, account, recv>>
    BY DEF LoadAccount
<1> HIDE DEF acc
<1>4. CacheType'
    BY <1>1, <1>2, InsertedIn DEF AccountInv
<1>5. accountDB' \in [Address -> Int \cup {None}]
    BY <1>1, <1>3 DEF AccountInv
<1>6. \A c \in Committers : account[c] = NoAccount /\ recv[c] = NoAccount
    BY DEF IInv, NotRunning, LoadAccount, AccountInv, PointersOf
<1>7. \A c \in Committers : PointersOf(c)'
    BY <1>3, <1>6, NoneHeld DEF PointersOf, AccountInv
<1> QED BY <1>3, <1>4, <1>5, <1>7 DEF AccountInv

\* An account that is found is a number, and so is what points to it.
LEMMA Found ==
    ASSUME AccountInv, NEW a \in Address, GetAccountByID(a) # None
    PROVE  /\ GetAccountByID(a) \in Int /\ Pointer(a) \in Pointers
           /\ Pointer(a).shared => a \in DOMAIN cache
<1>1. None \notin Int
    BY LedgerAssumption
<1>2. CASE a \in DOMAIN cache
    BY <1>2 DEF AccountInv, CacheType, GetAccountByID, Pointer, Pointers
<1>3. CASE a \notin DOMAIN cache
    <2>1. accountDB[a] \in Int /\ GetAccountByID(a) = accountDB[a]
        BY <1>3 DEF AccountInv, GetAccountByID
    <2>2. Pointer(a) = [shared |-> FALSE, balance |-> accountDB[a]]
        <3>1. (a \in DOMAIN cache) = FALSE
            BY <1>3
        <3> QED BY <1>3, <3>1, Zenon DEF Pointer
    <2> QED BY <1>3, <2>1, <2>2 DEF Pointers
<1> QED BY <1>2, <1>3

\* Exec takes the sender's account.
LEMMA SenderAccounts ==
    ASSUME IInv, StoreType, WorkInv, AccountInv, NEW c \in Committers, TakesSender(c)
    PROVE  AccountInv'
<1> DEFINE t == Current(c)
<1>1. /\ UNCHANGED <<chain, accountDB, cache, recv, block, done>> /\ AtTx(c) /\ pc[c] = "apply"
      /\ account' = [account EXCEPT ![c] = Pointer(t.from)]
      /\ pc' = [pc EXCEPT ![c] = "transfer"]
      /\ GetAccountByID(t.from) # None
    BY DEF TakesSender, ExecSender, AtTx, Goto, disk
<1>2. t.from \in Address
    BY <1>1, CurrentIsTx
<1>3. pc'[c] = "transfer" /\ \A d \in Committers : d # c => pc'[d] = pc[d]
    BY <1>1, Going
<1>4. \A d \in Committers : Current(d)' = Current(d)
    BY <1>1, SameCurrent
<1>5. /\ account'[c] = Pointer(t.from) /\ \A d \in Committers : d # c => account'[d] = account[d]
      /\ IsHeld(account')
    BY <1>1 DEF AccountInv, IsHeld
<1>6. PointersOf(c)'
    BY <1>1, <1>2, <1>3, <1>4, <1>5, Found DEF AccountInv, PointersOf, NoAccount
<1>7. \A d \in Committers : d # c => PointersOf(d)'
    BY <1>1, <1>3, <1>4, <1>5 DEF AccountInv, PointersOf
<1> QED BY <1>1, <1>5, <1>6, <1>7 DEF AccountInv, CacheType

\* What AddAmount leaves the recipient, in the cache or in the hand.
Credited(c) ==
    LET t == Current(c)
        to == IF GetAccountByID(t.to) = None THEN NoAccount ELSE Pointer(t.to)
    IN  [to EXCEPT !.balance = @ + (IF to.shared THEN 0 ELSE t.amount)]

\* The sender's account after SubAmount.
Debited(c) ==
    [account[c] EXCEPT !.balance = @ - (IF account[c].shared THEN 0 ELSE Current(c).amount)]

\* The cached balance of a after both.
CachedAfter(c, a) ==
    cache[a] + (IF a = Current(c).to /\ Credited(c).shared THEN Current(c).amount ELSE 0)
             - (IF a = Current(c).from /\ account[c].shared THEN Current(c).amount ELSE 0)

\* What a transfer does, in these words.
LEMMA Transfer ==
    ASSUME IInv, StoreType, WorkInv, AccountInv, NEW c \in Committers, ExecTransfer(c)
    PROVE  /\ Current(c) \in Tx /\ pc[c] = "transfer"
           /\ pc'[c] = "debit" /\ \A d \in Committers : d # c => pc'[d] = pc[d]
           /\ UNCHANGED <<chain, accountDB, block, done>>
           /\ \A d \in Committers : Current(d)' = Current(d)
           /\ DOMAIN cache' = DOMAIN cache
           /\ \A a \in DOMAIN cache : cache'[a] = CachedAfter(c, a) /\ cache'[a] \in Int
           /\ recv'[c] = Credited(c) /\ account'[c] = Debited(c)
           /\ Credited(c) \in Pointers /\ Debited(c) \in Pointers
           /\ Debited(c).shared = account[c].shared
           /\ Credited(c).shared => Current(c).to \in DOMAIN cache
           /\ \A d \in Committers : d # c => recv'[d] = recv[d] /\ account'[d] = account[d]
           /\ IsHeld(account') /\ IsHeld(recv')
<1> DEFINE t == Current(c)
           to == IF GetAccountByID(t.to) = None THEN NoAccount ELSE Pointer(t.to)
           by(p) == IF p.shared THEN 0 ELSE t.amount
<1>1. /\ pc[c] = "transfer" /\ UNCHANGED <<chain, accountDB, block, done>>
      /\ pc' = [pc EXCEPT ![c] = "debit"]
      /\ cache' = [a \in DOMAIN cache |->
                            cache[a]
                            + (IF a = t.to /\ to.shared THEN t.amount ELSE 0)
                            - (IF a = t.from /\ account[c].shared THEN t.amount ELSE 0)]
      /\ recv' = [recv EXCEPT ![c] = [to EXCEPT !.balance = @ + by(to)]]
      /\ account' = [account EXCEPT ![c].balance = @ - by(account[c])]
    BY DEF ExecTransfer, Goto, disk
<1>2. t \in Tx /\ t.to \in Address /\ t.from \in Address /\ t.amount \in Nat
    BY <1>1, CurrentIsTx
<1>3. pc'[c] = "debit" /\ \A d \in Committers : d # c => pc'[d] = pc[d]
    BY <1>1, Going
<1>4. \A d \in Committers : Current(d)' = Current(d)
    BY <1>1, SameCurrent
<1>5. to \in Pointers /\ (to.shared => t.to \in DOMAIN cache)
    BY <1>2, Found, NoneHeld
<1>6. Credited(c) = [to EXCEPT !.balance = @ + by(to)]
    BY DEF Credited
<1>7. account[c] \in Pointers
    BY DEF AccountInv, PointersOf
<1>8. Debited(c) = [account[c] EXCEPT !.balance = @ - by(account[c])]
    BY DEF Debited
<1>9. /\ recv'[c] = Credited(c) /\ IsHeld(recv')
      /\ \A d \in Committers : d # c => recv'[d] = recv[d]
    BY <1>1, <1>6 DEF AccountInv, IsHeld
<1>10. /\ account'[c] = Debited(c) /\ IsHeld(account')
       /\ \A d \in Committers : d # c => account'[d] = account[d]
    BY <1>1, <1>8 DEF AccountInv, IsHeld
<1> HIDE DEF t, to
<1>11. Credited(c) \in Pointers /\ Credited(c).shared = to.shared
    BY <1>2, <1>5, <1>6 DEF Pointers
<1>12. Debited(c) \in Pointers /\ Debited(c).shared = account[c].shared
    BY <1>2, <1>7, <1>8 DEF Pointers
<1>13. ASSUME NEW a \in DOMAIN cache PROVE cache'[a] = CachedAfter(c, a) /\ cache'[a] \in Int
    <2>1. cache'[a] = CachedAfter(c, a)
        BY <1>1, <1>11 DEF CachedAfter, t
    <2>2. cache[a] \in Int
        BY DEF AccountInv, CacheType
    <2> QED BY <1>1, <1>2, <2>1, <2>2
<1>14. DOMAIN cache' = DOMAIN cache
    BY <1>1
<1> QED BY <1>1, <1>2, <1>3, <1>4, <1>5, <1>9, <1>10, <1>11, <1>12, <1>13, <1>14 DEF t

\* ExecTransfer keeps AccountInv.
LEMMA TransferAccounts ==
    ASSUME IInv, StoreType, WorkInv, AccountInv, NEW c \in Committers, ExecTransfer(c)
    PROVE  AccountInv'
<1>1. CacheType'
    BY Transfer DEF AccountInv, CacheType
<1>2. PointersOf(c)'
    BY Transfer DEF AccountInv, PointersOf
<1>3. \A d \in Committers : d # c => PointersOf(d)'
    BY Transfer DEF AccountInv, PointersOf
<1>4. accountDB' = accountDB /\ IsHeld(account') /\ IsHeld(recv')
    BY Transfer
<1> QED BY <1>1, <1>2, <1>3, <1>4 DEF AccountInv

\* The balance of an account that is held.
Value(p, a) == IF p.shared THEN cache[a] ELSE p.balance

\* A holder keeps what he holds when a stays in the cache, and keeps its value
\* when it does not.
LEMMA KeptOf ==
    ASSUME AccountInv, NEW p \in Pointers, NEW a \in Address, p.shared => a \in DOMAIN cache, NEW gone
    PROVE  /\ Kept(p, a, gone) \in Pointers
           /\ Kept(p, a, gone).shared => p.shared /\ a \notin gone
           /\ a \notin gone => Kept(p, a, gone) = p
           /\ ~ p.shared => Kept(p, a, gone) = p
           /\ Value(Kept(p, a, gone), a) = Value(p, a)
BY DEF AccountInv, CacheType, Kept, Pointers, Value

\* Who holds nothing keeps nothing.
LEMMA KeptNone == ASSUME NEW a, NEW gone PROVE Kept(NoAccount, a, gone) = NoAccount
BY NoneHeld DEF Kept

\* The objects that leave the cache at an Insert.
Gone(p, a, evicted) == evicted \cup (IF p.shared THEN {} ELSE {a})

\* What an Insert does, in these words.
Inserts(c, a, p, gone) ==
    /\ accountDB' = [accountDB EXCEPT ![a] = Value(p, a)] /\ Value(p, a) \in Int
    /\ CacheType' /\ a \in DOMAIN cache' /\ cache'[a] = Value(p, a)
    /\ \A x \in DOMAIN cache' : x # a => cache'[x] = cache[x] /\ x \in DOMAIN cache /\ x \notin gone
    /\ \A x \in DOMAIN cache : x \notin gone => x \in DOMAIN cache'
    /\ a \in gone <=> ~ p.shared
    /\ account' = [d \in Committers |->
               IF d = c THEN NoAccount ELSE Kept(account[d], Current(d).from, gone)]
    /\ recv' = [d \in Committers |->
               IF d = c /\ pc[c] = "credit" THEN NoAccount
               ELSE Kept(recv[d], Current(d).to, gone)]

\* Insert with a victim Victims allows.
LEMMA Inserting ==
    ASSUME AccountInv, NEW c \in Committers, NEW a \in Address, NEW p \in Pointers,
           p.shared => a \in DOMAIN cache, NEW inUse, NEW evicted \in Victims(a, inUse),
           Insert(c, a, p, evicted)
    PROVE  Inserts(c, a, p, Gone(p, a, evicted)) /\ evicted \cap inUse = {}
<1> DEFINE b == IF p.shared THEN cache[a] ELSE p.balance
           gone == evicted \cup (IF p.shared THEN {} ELSE {a})
<1>1. b = Value(p, a) /\ gone = Gone(p, a, evicted)
    BY DEF Value, Gone
<1>2. b \in Int
    BY DEF AccountInv, CacheType, Pointers
<1>3. /\ accountDB' = [accountDB EXCEPT ![a] = b]
      /\ cache' = Inserted(a, b, evicted)
      /\ account' = [d \in Committers |->
               IF d = c THEN NoAccount ELSE Kept(account[d], Current(d).from, gone)]
      /\ recv' = [d \in Committers |->
               IF d = c /\ pc[c] = "credit" THEN NoAccount
               ELSE Kept(recv[d], Current(d).to, gone)]
    BY DEF Insert
<1> HIDE DEF b
<1>4. /\ CacheType'
      /\ DOMAIN cache' = (DOMAIN cache \ evicted) \cup {a}
      /\ cache'[a] = b
      /\ \A x \in DOMAIN cache' : x # a => cache'[x] = cache[x] /\ x \in DOMAIN cache
      /\ evicted \cap inUse = {} /\ a \notin evicted
    BY <1>2, <1>3, InsertedIn DEF AccountInv
<1>5. /\ \A x \in DOMAIN cache : x \notin gone => x \in DOMAIN cache'
      /\ \A x \in DOMAIN cache' : x # a => x \notin gone
      /\ a \in gone <=> ~ p.shared
    BY <1>4
<1> HIDE DEF gone
<1> QED BY <1>1, <1>2, <1>3, <1>4, <1>5 DEF Inserts

\* Whoever holds an account at an Insert holds it, at its value, afterwards.
LEMMA Keeping ==
    ASSUME AccountInv, NEW c, NEW a \in Address, NEW p \in Pointers, NEW gone,
           p.shared => a \in DOMAIN cache, Inserts(c, a, p, gone),
           NEW q \in Pointers, NEW x \in Address, q.shared => x \in DOMAIN cache
    PROVE  LET q2 == Kept(q, x, gone)
           IN  /\ q2 \in Pointers
               /\ q2.shared => q.shared /\ x \in DOMAIN cache'
               /\ (IF q2.shared THEN cache'[x] ELSE q2.balance) = Value(q, x)
               /\ q2.shared \/ ~ q.shared \/ x \in gone
<1> DEFINE q2 == Kept(q, x, gone)
<1>1. /\ q2 \in Pointers
      /\ q2.shared => q.shared /\ x \notin gone
      /\ x \notin gone => q2 = q
      /\ Value(q2, x) = Value(q, x)
    BY KeptOf
<1> HIDE DEF q2
<1>2. CASE q2.shared
    <2>1. x \notin gone /\ q.shared /\ x \in DOMAIN cache /\ x \in DOMAIN cache'
        BY <1>1, <1>2 DEF Inserts
    <2>2. cache'[x] = cache[x]
        <3>1. CASE x = a
            <4>1. p.shared
                BY <2>1, <3>1 DEF Inserts
            <4> QED BY <3>1, <4>1 DEF Inserts, Value
        <3>2. CASE x # a
            BY <2>1, <3>2 DEF Inserts
        <3> QED BY <3>1, <3>2
    <2> QED BY <1>1, <1>2, <2>1, <2>2 DEF Value, q2
<1>3. CASE ~ q2.shared
    BY <1>1, <1>3 DEF Value, q2
<1> QED BY <1>2, <1>3 DEF q2

\* Afterwards q2 is at address x what q was.
Still(q, q2, x, gone) ==
    /\ q2 \in Pointers
    /\ q = NoAccount => q2 = NoAccount
    /\ q2.shared => q.shared /\ x \in DOMAIN cache'
    /\ (IF q2.shared THEN cache'[x] ELSE q2.balance) = Value(q, x)
    /\ q2.shared \/ ~ q.shared \/ x \in gone

\* So do both accounts of a committer.
LEMMA HoldersKeep ==
    ASSUME IInv, StoreType, WorkInv, AccountInv, NEW c, NEW a \in Address,
           NEW p \in Pointers, NEW gone,
           p.shared => a \in DOMAIN cache, Inserts(c, a, p, gone), NEW d \in Committers
    PROVE  /\ Still(account[d], Kept(account[d], Current(d).from, gone), Current(d).from, gone)
           /\ Still(recv[d], Kept(recv[d], Current(d).to, gone), Current(d).to, gone)
<1>1. account[d] \in Pointers /\ recv[d] \in Pointers /\ PointersOf(d)
    BY DEF AccountInv, PointersOf
<1>2. ASSUME NEW q \in Pointers, NEW x, q = NoAccount \/ x \in Address, q.shared => x \in DOMAIN cache
      PROVE  Still(q, Kept(q, x, gone), x, gone)
    <2>1. CASE q = NoAccount
        <3>1. Kept(q, x, gone) = NoAccount
            BY <2>1, KeptNone
        <3> QED BY <2>1, <3>1, NoneHeld DEF Still, Value
    <2>2. CASE q # NoAccount
        BY <1>2, <2>2, Keeping DEF Still
    <2> QED BY <2>1, <2>2
<1>3. account[d] = NoAccount \/ Current(d).from \in Address
    <2>1. CASE pc[d] \in {"transfer", "debit"}
        BY <2>1, CurrentIsTx
    <2> QED BY <1>1, <2>1 DEF PointersOf
<1>4. recv[d] = NoAccount \/ Current(d).to \in Address
    <2>1. CASE pc[d] \in {"debit", "credit"}
        BY <2>1, CurrentIsTx
    <2> QED BY <1>1, <2>1 DEF PointersOf
<1>5. /\ account[d].shared => Current(d).from \in DOMAIN cache
      /\ recv[d].shared => Current(d).to \in DOMAIN cache
    BY <1>1 DEF PointersOf
<1> QED BY <1>1, <1>2, <1>3, <1>4, <1>5

\* Where an Insert leaves its committer.
Moved(c, s) ==
    /\ UNCHANGED <<chain, block, done>>
    /\ pc'[c] = s /\ \A d \in Committers : d # c => pc'[d] = pc[d]
    /\ \A d \in Committers : Current(d)' = Current(d)

\* InsertSender in these words.
LEMMA SenderInserted ==
    ASSUME IInv, StoreType, WorkInv, AccountInv, NEW c \in Committers, InsertSender(c)
    PROVE  /\ pc[c] = "debit" /\ Moved(c, "credit") /\ Current(c) \in Tx
           /\ Current(c).from \in Address /\ account[c] \in Pointers
           /\ account[c].shared => Current(c).from \in DOMAIN cache
           /\ UNCHANGED txDB
           /\ \E gone : /\ Inserts(c, Current(c).from, account[c], gone)
                        /\ Current(c).to # Current(c).from => Current(c).to \notin gone
<1> DEFINE t == Current(c)
<1>1. /\ pc[c] = "debit" /\ UNCHANGED <<chain, block, done, txDB>>
      /\ pc' = [pc EXCEPT ![c] = "credit"]
    BY DEF InsertSender, Goto
<1>2. t \in Tx /\ t.from \in Address
    BY <1>1, CurrentIsTx
<1>3. account[c] \in Pointers /\ (account[c].shared => t.from \in DOMAIN cache)
    BY DEF AccountInv, PointersOf
<1>4. PICK evicted \in Victims(t.from, {t.to}) : Insert(c, t.from, account[c], evicted)
    BY DEF InsertSender
<1> HIDE DEF t
<1>5. Inserts(c, t.from, account[c], Gone(account[c], t.from, evicted)) /\ evicted \cap {t.to} = {}
    BY <1>2, <1>3, <1>4, Inserting
<1>6. t.to # t.from => t.to \notin Gone(account[c], t.from, evicted)
    BY <1>5 DEF Gone
<1>7. Moved(c, "credit")
    BY <1>1, Going, SameCurrent DEF Moved
<1> QED BY <1>1, <1>2, <1>3, <1>5, <1>6, <1>7 DEF t

\* InsertRecipient in these words.
LEMMA RecipientInserted ==
    ASSUME IInv, StoreType, WorkInv, AccountInv, NEW c \in Committers, InsertRecipient(c)
    PROVE  /\ pc[c] = "credit" /\ Moved(c, "record") /\ Current(c) \in Tx
           /\ Current(c).to \in Address /\ recv[c] \in Pointers
           /\ recv[c].shared => Current(c).to \in DOMAIN cache
           /\ UNCHANGED txDB
           /\ \E gone : Inserts(c, Current(c).to, recv[c], gone)
<1> DEFINE t == Current(c)
<1>1. /\ pc[c] = "credit" /\ UNCHANGED <<chain, block, done, txDB>>
      /\ pc' = [pc EXCEPT ![c] = "record"]
    BY DEF InsertRecipient, Goto
<1>2. t \in Tx /\ t.to \in Address
    BY <1>1, CurrentIsTx
<1>3. recv[c] \in Pointers /\ (recv[c].shared => t.to \in DOMAIN cache)
    BY DEF AccountInv, PointersOf
<1>4. PICK evicted \in Victims(t.to, {t.from}) : Insert(c, t.to, recv[c], evicted)
    BY DEF InsertRecipient
<1> HIDE DEF t
<1>5. Inserts(c, t.to, recv[c], Gone(recv[c], t.to, evicted))
    BY <1>2, <1>3, <1>4, Inserting
<1>7. Moved(c, "record")
    BY <1>1, Going, SameCurrent DEF Moved
<1> QED BY <1>1, <1>2, <1>3, <1>5, <1>7 DEF t

\* Both keep AccountInv.
LEMMA InsertAccounts ==
    ASSUME IInv, StoreType, WorkInv, AccountInv, NEW c \in Committers, NEW a \in Address,
           NEW p \in Pointers, NEW gone, p.shared => a \in DOMAIN cache, Inserts(c, a, p, gone),
           NEW s, Moved(c, s),
           \/ pc[c] = "debit" /\ s = "credit"
           \/ pc[c] = "credit" /\ s = "record"
    PROVE  AccountInv'
<1>1. CacheType' /\ IsHeld(account') /\ IsHeld(recv')
    BY DEF Inserts, IsHeld
<1>2. accountDB' \in [Address -> Int \cup {None}]
    BY DEF Inserts, AccountInv
<1>3. ASSUME NEW d \in Committers, d # c PROVE PointersOf(d)'
    <2>1. /\ account'[d] = Kept(account[d], Current(d).from, gone)
          /\ recv'[d] = Kept(recv[d], Current(d).to, gone)
          /\ pc'[d] = pc[d] /\ Current(d)' = Current(d)
        BY <1>3 DEF Inserts, Moved
    <2>2. /\ Still(account[d], account'[d], Current(d).from, gone)
          /\ Still(recv[d], recv'[d], Current(d).to, gone)
        BY <2>1, HoldersKeep
    <2> QED BY <2>1, <2>2 DEF PointersOf, AccountInv, Still
<1>4. PointersOf(c)'
    <2>1. account'[c] = NoAccount /\ Current(c)' = Current(c) /\ pc'[c] = s
        BY DEF Inserts, Moved
    <2>2. CASE pc[c] = "credit"
        <3>1. recv'[c] = NoAccount
            BY <2>2 DEF Inserts
        <3> QED BY <2>1, <2>2, <3>1, NoneHeld DEF PointersOf
    <2>3. CASE pc[c] = "debit"
        <3>1. recv'[c] = Kept(recv[c], Current(c).to, gone)
            BY <2>3 DEF Inserts
        <3>2. Still(recv[c], recv'[c], Current(c).to, gone)
            BY <3>1, HoldersKeep
        <3> QED BY <2>1, <2>3, <3>2, NoneHeld DEF PointersOf, Still
    <2> QED BY <2>2, <2>3
<1> QED BY <1>1, <1>2, <1>3, <1>4 DEF AccountInv

\* Every step keeps AccountInv.
LEMMA AccountStep ==
    ASSUME IInv, StoreType, WorkInv, AccountInv, [Next]_vars PROVE AccountInv'
<1>1. CASE Quiet
    BY <1>1, QuietAccounts
<1>2. CASE LoadAccount
    BY <1>2, LoadAccounts
<1>3. CASE Forgotten /\ UNCHANGED <<chain, accountDB>>
    BY <1>3, ForgottenAccounts
<1>4. ASSUME NEW c \in Committers, TakesSender(c) PROVE AccountInv'
    BY <1>4, SenderAccounts
<1>5. ASSUME NEW c \in Committers, ExecTransfer(c) PROVE AccountInv'
    BY <1>5, TransferAccounts
<1>6. ASSUME NEW c \in Committers, InsertSender(c) PROVE AccountInv'
    BY <1>6, SenderInserted, InsertAccounts
<1>7. ASSUME NEW c \in Committers, InsertRecipient(c) PROVE AccountInv'
    BY <1>7, RecipientInserted, InsertAccounts
<1> QED BY <1>1, <1>2, <1>3, <1>4, <1>5, <1>6, <1>7, Moves DEF Touches

\* The type invariant, with what makes it inductive.
TypeInv ==
    IInv /\ StoreType /\ WorkInv /\ BoundInv /\ TxType /\ AccountInv /\ selfPaid \in Nat

\* What accounts have paid to themselves never shrinks.
LEMMA PaidStep ==
    ASSUME TypeInv, [Next]_vars PROVE selfPaid' \in Nat /\ selfPaid <= selfPaid'
<1>0. IInv /\ StoreType /\ WorkInv /\ selfPaid \in Nat
    BY DEF TypeInv
<1>1. ASSUME NEW c \in Committers, CommitStep(c) PROVE selfPaid' \in Nat /\ selfPaid <= selfPaid'
    <2>1. CASE ExecTransfer(c)
        <3> DEFINE x == IF Current(c).from = Current(c).to THEN Current(c).amount ELSE 0
        <3>1. Current(c).amount \in Nat
            BY <1>0, <2>1, CurrentIsTx DEF ExecTransfer
        <3>2. selfPaid' = selfPaid + x /\ x \in Nat
            BY <2>1, <3>1 DEF ExecTransfer
        <3> QED BY <1>0, <3>2
    <2>2. CASE ~ ExecTransfer(c)
        BY <1>0, <1>1, <2>2 DEF CommitStep, ExecSender, InsertSender, InsertRecipient, InsertTx,
           InsertTxRecords, IncreaseBlockNum, SetValue, InsertBlock, InsertNumber,
           UpdateLastWorldState
    <2> QED BY <2>1, <2>2
<1>2. CASE CommitStep("daemon") \/ CommitStep("chain")
    BY <1>1, <1>2
<1>3. CASE ~ (CommitStep("daemon") \/ CommitStep("chain"))
    <2>1. selfPaid' = selfPaid
        BY <1>3 DEF Next, Boot, SetGenesisNumber, SetGenesisBlock, SetGenesisMeta, LoadAccount,
           Run, Crash, Restart, Daemon, Poll, MigrateNotStarted, MigrateCommitting, EnterFinished,
           MigrateFinished, MigrateViewChanging, BlockChain, CommitFiled, StartEngine, StopEngine,
           EndStop, Download, vars
    <2> QED BY <1>0, <2>1
<1> QED BY <1>2, <1>3

\* A node without data satisfies it.
LEMMA InitType == Init => TypeInv
<1> SUFFICES ASSUME Init PROVE TypeInv
    OBVIOUS
<1>1. IInv
    BY InitIInv
<1>2. StoreType
    BY LedgerAssumption DEF Init, StoreType
<1>3. WorkInv /\ BoundInv
    BY LedgerAssumption DEF Init, WorkInv, BoundInv, Executes
<1>4. TxType
    BY DEF Init, TxType
<1>5. CacheType
    <2>1. DOMAIN cache = {} /\ Cardinality({}) = 0
        BY FS_EmptySet DEF Init
    <2> QED BY <2>1, LedgerAssumption DEF CacheType
<1>6. \A c \in Committers : PointersOf(c)
    <2>1. \A c \in Committers : account[c] = NoAccount /\ recv[c] = NoAccount
        BY DEF Init
    <2> QED BY <2>1, NoneHeld DEF PointersOf
<1>7. AccountInv
    BY <1>5, <1>6 DEF AccountInv, Init, IsHeld
<1> QED BY <1>1, <1>2, <1>3, <1>4, <1>7 DEF TypeInv, Init

\* Every step keeps it.
LEMMA TypeStep == TypeInv /\ [Next]_vars => TypeInv'
BY NextIInv, StoreStep, WorkStep, BoundStep, TxStep, AccountStep, PaidStep DEF TypeInv

\* It holds always.
THEOREM TypeInvariance == Spec => []TypeInv
BY InitType, TypeStep, PTL DEF Spec

\* It implies the type the runs check.
LEMMA TypeInvType == TypeInv => TypeOK
<1> SUFFICES ASSUME TypeInv PROVE TypeOK
    OBVIOUS
<1>1. IInv /\ StoreType /\ WorkInv /\ BoundInv /\ TxType /\ AccountInv /\ selfPaid \in Nat
    BY DEF TypeInv
<1>2. MaxHeight \in Nat
    BY LedgerAssumption
<1>3. metaDB = None \/ metaDB \in 0 .. 2 * MaxHeight
    BY <1>1, <1>2 DEF StoreType, BoundInv
<1>4. blockNum \in 0 .. 2 * MaxHeight
    BY <1>1, <1>2 DEF StoreType, BoundInv
<1>5. /\ DOMAIN accountDB = Address
      /\ \A a \in Address : accountDB[a] = None \/ accountDB[a] \in Int
    BY <1>1 DEF AccountInv
<1>6. /\ DOMAIN cache \subseteq Address /\ \A a \in DOMAIN cache : cache[a] \in Int
      /\ Cardinality(DOMAIN cache) <= CacheSize
    BY <1>1 DEF AccountInv, CacheType
<1>8. /\ \A c \in Committers : account[c] \in Pointers /\ recv[c] \in Pointers
      /\ \A c \in Committers :
          /\ account[c].shared => Current(c).from \in DOMAIN cache
          /\ recv[c].shared => Current(c).to \in DOMAIN cache
    BY <1>1 DEF AccountInv, PointersOf
<1>7. account \in [Committers -> Pointers] /\ recv \in [Committers -> Pointers]
    <2>1. account = [c \in Committers |-> account[c]] /\ recv = [c \in Committers |-> recv[c]]
        BY <1>1 DEF AccountInv, IsHeld
    <2> QED BY <1>8, <2>1
<1>9. /\ pc \in [Committers -> Statements] /\ block \in [Committers -> 0 .. MaxHeight]
      /\ done \in [Committers -> Nat] /\ received \in 0 .. MaxHeight
      /\ StopFlag \in BOOLEAN /\ overlapped \in BOOLEAN /\ filed \subseteq 1 .. MaxHeight
    BY <1>1 DEF IInv, Values, WorkInv
<1> QED BY <1>1, <1>3, <1>4, <1>5, <1>6, <1>7, <1>8, <1>9 DEF TypeOK, StoreType, TxType

\* The state has its type: heights are those of decided blocks, the cache stays
\* within its capacity whatever is evicted (ca.go), and an object that Exec
\* holds as the cache's own is in the cache.
THEOREM TypeCorrect == Spec => []TypeOK
BY TypeInvariance, TypeInvType, PTL

(***************************************************************************)
(* The cache, and the height and the id of the world state.                *)
(***************************************************************************)

\* Committer c has changed the cached account a and not stored it yet.
Changing(c, a) ==
    \/ pc[c] = "debit" /\ account[c].shared /\ a = Current(c).from
    \/ pc[c] \in {"debit", "credit"} /\ recv[c].shared /\ a = Current(c).to

\* The cache agrees with the store, except for an account a committer is about
\* to insert.
CacheInv ==
    \A a \in DOMAIN cache : cache[a] = accountDB[a] \/ \E c \in Committers : Changing(c, a)

\* A committer that a step leaves alone changes the same accounts.
LEMMA ChangingStill ==
    ASSUME NEW d, NEW a, pc'[d] = pc[d], account'[d] = account[d], recv'[d] = recv[d],
           Current(d)' = Current(d)
    PROVE  Changing(d, a)' <=> Changing(d, a)
BY DEF Changing

\* Every step keeps CacheInv.
LEMMA CacheStep ==
    ASSUME TypeInv, CacheInv, [Next]_vars PROVE CacheInv'
<1>0. IInv /\ StoreType /\ WorkInv /\ AccountInv
    BY DEF TypeInv
<1>1. CASE Quiet
    <2>1. UNCHANGED <<chain, accountDB, cache, account, recv>>
        BY <1>1 DEF Quiet
    <2>2. ASSUME NEW c \in Committers, NEW a, Changing(c, a) PROVE Changing(c, a)'
        <3>1. pc'[c] = pc[c] /\ block'[c] = block[c] /\ done'[c] = done[c]
            BY <1>1, <2>2 DEF Quiet, Holding, Changing
        <3>2. Current(c)' = Current(c)
            BY <2>1, <3>1, SameCurrent
        <3> QED BY <2>1, <2>2, <3>1, <3>2, ChangingStill
    <2> QED BY <2>1, <2>2 DEF CacheInv
<1>2. CASE LoadAccount
    <2> DEFINE acc == AccountCfg[done["chain"] + 1]
    <2>1. acc.id \in Address /\ acc.amount \in Int
        BY <1>0, <1>2, LoadsOne
    <2>2. PICK gone \in Victims(acc.id, {}) : cache' = Inserted(acc.id, acc.amount, gone)
        BY <1>2 DEF LoadAccount
    <2>3. accountDB' = [accountDB EXCEPT ![acc.id] = acc.amount]
        BY <1>2 DEF LoadAccount
    <2>4. \A c \in Committers : pc[c] = "idle"
        BY <1>0, <1>2 DEF IInv, NotRunning, LoadAccount
    <2>5. \A a \in DOMAIN cache : cache[a] = accountDB[a]
        BY <2>4 DEF CacheInv, Changing
    <2> HIDE DEF acc
    <2>6. /\ cache'[acc.id] = acc.amount
          /\ \A x \in DOMAIN cache' : x # acc.id => cache'[x] = cache[x] /\ x \in DOMAIN cache
        <3>1. CacheType
            BY <1>0 DEF AccountInv
        <3>2. ASSUME NEW a \in Address, NEW b \in Int, cache' = Inserted(a, b, gone),
                     gone \in Victims(a, {})
              PROVE  /\ cache'[a] = b
                     /\ \A x \in DOMAIN cache' : x # a => cache'[x] = cache[x] /\ x \in DOMAIN cache
            BY <3>1, <3>2, InsertedIn
        <3> QED BY <2>1, <2>2, <3>2
    <2>7. \A a \in DOMAIN cache' : cache'[a] = accountDB'[a]
        BY <1>0, <2>1, <2>3, <2>5, <2>6 DEF AccountInv
    <2> QED BY <2>7 DEF CacheInv
<1>3. CASE Forgotten /\ UNCHANGED <<chain, accountDB>>
    BY <1>3 DEF Forgotten, CacheInv
<1>4. ASSUME NEW c \in Committers, TakesSender(c) PROVE CacheInv'
    <2>1. /\ UNCHANGED <<chain, accountDB, cache, recv, block, done>> /\ pc[c] = "apply"
          /\ pc' = [pc EXCEPT ![c] = "transfer"]
          /\ account' = [account EXCEPT ![c] = Pointer(Current(c).from)]
        BY <1>4 DEF TakesSender, ExecSender, AtTx, Goto, disk
    <2>2. ASSUME NEW d \in Committers, NEW a, Changing(d, a) PROVE Changing(d, a)'
        <3>1. d # c
            BY <2>1, <2>2 DEF Changing
        <3>2. pc'[d] = pc[d] /\ account'[d] = account[d] /\ recv'[d] = recv[d]
            BY <1>0, <2>1, <3>1, Going DEF AccountInv, IsHeld
        <3>3. Current(d)' = Current(d)
            BY <2>1, SameCurrent
        <3> QED BY <2>2, <3>2, <3>3, ChangingStill
    <2> QED BY <2>1, <2>2 DEF CacheInv
<1>5. ASSUME NEW c \in Committers, ExecTransfer(c) PROVE CacheInv'
    <2>1. \A d \in Committers, a \in DOMAIN cache : Changing(d, a) => Changing(d, a)'
        <3>1. SUFFICES ASSUME NEW d \in Committers, NEW a \in DOMAIN cache, Changing(d, a)
                       PROVE  Changing(d, a)'
            OBVIOUS
        <3>2. d # c
            BY <1>0, <1>5, <3>1, Transfer DEF Changing
        <3>3. /\ pc'[d] = pc[d] /\ account'[d] = account[d] /\ recv'[d] = recv[d]
              /\ Current(d)' = Current(d)
            BY <1>0, <1>5, <3>2, Transfer
        <3> QED BY <3>1, <3>3, ChangingStill
    <2>2. ASSUME NEW a \in DOMAIN cache, cache'[a] # cache[a] PROVE Changing(c, a)'
        <3>1. /\ cache'[a] = CachedAfter(c, a) /\ cache[a] \in Int
              /\ recv'[c] = Credited(c) /\ account'[c].shared = account[c].shared
              /\ Current(c)' = Current(c) /\ pc'[c] = "debit"
            BY <1>0, <1>5, Transfer DEF AccountInv, CacheType
        <3>2. \/ a = Current(c).to /\ Credited(c).shared
              \/ a = Current(c).from /\ account[c].shared
            BY <2>2, <3>1 DEF CachedAfter
        <3> QED BY <3>1, <3>2 DEF Changing
    <2>3. DOMAIN cache' = DOMAIN cache /\ accountDB' = accountDB
        BY <1>0, <1>5, Transfer
    <2> QED BY <2>1, <2>2, <2>3 DEF CacheInv
<1>6. ASSUME NEW c \in Committers, NEW a \in Address, NEW p \in Pointers, NEW gone,
             p.shared => a \in DOMAIN cache, Inserts(c, a, p, gone), NEW s, Moved(c, s),
             \/ pc[c] = "debit" /\ s = "credit" /\ a = Current(c).from
             \/ pc[c] = "credit" /\ s = "record" /\ a = Current(c).to
      PROVE  CacheInv'
    <2>1. ASSUME NEW d \in Committers, NEW x \in DOMAIN cache', x # a, Changing(d, x)
          PROVE  Changing(d, x)'
        <3>0. /\ Current(d)' = Current(d) /\ x \notin gone
              /\ Still(account[d], Kept(account[d], Current(d).from, gone), Current(d).from, gone)
              /\ Still(recv[d], Kept(recv[d], Current(d).to, gone), Current(d).to, gone)
            BY <1>0, <1>6, <2>1, HoldersKeep DEF Moved, Inserts
        <3>1. CASE d # c
            <4>1. /\ pc'[d] = pc[d]
                  /\ account'[d] = Kept(account[d], Current(d).from, gone)
                  /\ recv'[d] = Kept(recv[d], Current(d).to, gone)
                BY <1>6, <3>1 DEF Moved, Inserts
            <4> QED BY <2>1, <3>0, <4>1 DEF Changing, Still
        <3>2. CASE d = c /\ pc[c] = "debit"
            <4>1. recv'[c] = Kept(recv[c], Current(c).to, gone) /\ pc'[c] = "credit"
                BY <1>6, <3>2 DEF Moved, Inserts
            <4>2. recv[c].shared /\ x = Current(c).to
                BY <1>6, <2>1, <3>2 DEF Changing
            <4> QED BY <2>1, <3>0, <3>2, <4>1, <4>2 DEF Changing, Still
        <3>3. CASE d = c /\ pc[c] = "credit"
            BY <1>6, <2>1, <3>3 DEF Changing
        <3> QED BY <1>6, <3>1, <3>2, <3>3
    <2>2. cache'[a] = accountDB'[a]
        BY <1>0, <1>6 DEF Inserts, AccountInv
    <2>3. \A x \in DOMAIN cache' : x # a => /\ cache'[x] = cache[x] /\ x \in DOMAIN cache
                                            /\ accountDB'[x] = accountDB[x]
        BY <1>0, <1>6 DEF Inserts, AccountInv
    <2> QED BY <2>1, <2>2, <2>3 DEF CacheInv
<1>7. ASSUME NEW c \in Committers, InsertSender(c) PROVE CacheInv'
    BY <1>0, <1>6, <1>7, SenderInserted
<1>8. ASSUME NEW c \in Committers, InsertRecipient(c) PROVE CacheInv'
    BY <1>0, <1>6, <1>8, RecipientInserted
<1> QED BY <1>0, <1>1, <1>2, <1>3, <1>4, <1>5, <1>7, <1>8, Moves DEF Touches

\* The number of the world state goes up before its id.
HeightInv == (\A c \in Committers : pc[c] # "setValue") => blockNum = blockID

\* A step that leaves the world state and the committers.
LEMMA HeightStays ==
    ASSUME HeightInv, UNCHANGED ws, pc' = pc PROVE HeightInv'
BY DEF HeightInv, ws

\* A step of a goroutine that leaves the world state.
LEMMA HeightGoing ==
    ASSUME IInv, HeightInv, UNCHANGED ws, NEW c \in Committers, NEW s, pc' = [pc EXCEPT ![c] = s],
           pc[c] # "setValue"
    PROVE  HeightInv'
BY Going DEF HeightInv, ws

\* A process without memory.
LEMMA HeightForgotten == ASSUME Forgotten PROVE HeightInv'
BY DEF Forgotten, HeightInv

\* Every step keeps HeightInv.
LEMMA HeightStep == ASSUME IInv, HeightInv, [Next]_vars PROVE HeightInv'
<1>1. ASSUME SetGenesisNumber PROVE HeightInv'
    BY <1>1, HeightStays DEF SetGenesisNumber, exec
<1>2. ASSUME SetGenesisBlock PROVE HeightInv'
    BY <1>2, HeightStays DEF SetGenesisBlock, exec
<1>3. ASSUME SetGenesisMeta PROVE HeightInv'
    BY <1>3, HeightStays DEF SetGenesisMeta, exec
<1>4. ASSUME LoadAccount PROVE HeightInv'
    BY <1>4, HeightStays DEF LoadAccount, exec
<1>5. ASSUME Run PROVE HeightInv'
    <2>1. pc' = pc /\ (UNCHANGED ws \/ blockNum' = blockID')
        BY <1>5 DEF Run, GetBlockMeta
    <2> QED BY <2>1, HeightStays DEF HeightInv
<1>6. ASSUME Crash PROVE HeightInv'
    BY <1>6, HeightForgotten DEF Crash
<1>7. ASSUME Restart PROVE HeightInv'
    BY <1>7, HeightStays DEF Restart, GetBlockByNum, disk, exec
<1>8. ASSUME Poll PROVE HeightInv'
    <2>1. /\ UNCHANGED ws /\ "daemon" \in Committers /\ pc["daemon"] # "setValue"
          /\ pc' = [pc EXCEPT !["daemon"] = "migrate"]
        BY <1>8 DEF Poll, Goto, disk
    <2> QED BY <2>1, HeightGoing
<1>9. ASSUME MigrateNotStarted PROVE HeightInv'
    <2>1. /\ UNCHANGED ws /\ "daemon" \in Committers /\ pc["daemon"] # "setValue"
          /\ pc' = [pc EXCEPT !["daemon"] = "idle"]
        BY <1>9 DEF MigrateNotStarted, Goto, disk
    <2> QED BY <2>1, HeightGoing
<1>10. ASSUME MigrateCommitting PROVE HeightInv'
    <2>1. /\ UNCHANGED ws /\ "daemon" \in Committers /\ pc["daemon"] # "setValue"
          /\ pc' = [pc EXCEPT !["daemon"] = "enterFinished"] \/ pc' = [pc EXCEPT !["daemon"] = "idle"]
        BY <1>10 DEF MigrateCommitting, Goto, ChangeState, disk
    <2> QED BY <2>1, HeightGoing
<1>11. ASSUME EnterFinished PROVE HeightInv'
    <2>1. /\ UNCHANGED ws /\ "daemon" \in Committers /\ pc["daemon"] # "setValue"
          /\ pc' = [pc EXCEPT !["daemon"] = "idle"]
        BY <1>11 DEF EnterFinished, Goto, disk
    <2> QED BY <2>1, HeightGoing
<1>12. ASSUME MigrateFinished PROVE HeightInv'
    <2>1. CASE received = 0
        BY <1>12, <2>1, HeightForgotten DEF MigrateFinished
    <2>2. CASE received # 0
        <3>1. UNCHANGED ws /\ pc["daemon"] = "migrate" /\ "daemon" \in Committers
            BY <1>12, <2>2 DEF MigrateFinished
        <3>2. pc' = [pc EXCEPT !["daemon"] = "apply"] \/ pc' = [pc EXCEPT !["daemon"] = "idle"]
            BY <1>12, <2>2 DEF MigrateFinished, Fail, Begin, Leave
        <3> QED BY <3>1, <3>2, HeightGoing
    <2> QED BY <2>1, <2>2
<1>13. ASSUME MigrateViewChanging PROVE HeightInv'
    <2>1. /\ UNCHANGED ws /\ "daemon" \in Committers /\ pc["daemon"] # "setValue"
          /\ pc' = [pc EXCEPT !["daemon"] = "idle"]
        BY <1>13 DEF MigrateViewChanging, Goto, ChangeState, disk
    <2> QED BY <2>1, HeightGoing
<1>14. ASSUME NEW c \in Committers, ExecSender(c) PROVE HeightInv'
    <2>1. /\ UNCHANGED ws /\ pc[c] = "apply"
          /\ \/ pc' = pc
             \/ pc' = [pc EXCEPT ![c] = "idle"]
             \/ pc' = [pc EXCEPT ![c] = "transfer"]
        BY <1>14 DEF ExecSender, AtTx, Fail, Leave, Goto
    <2> QED BY <2>1, HeightStays, HeightGoing
<1>15. ASSUME NEW c \in Committers, ExecTransfer(c) PROVE HeightInv'
    <2>1. /\ UNCHANGED ws /\ c \in Committers /\ pc[c] # "setValue"
          /\ pc' = [pc EXCEPT ![c] = "debit"]
        BY <1>15 DEF ExecTransfer, Goto, disk
    <2> QED BY <2>1, HeightGoing
<1>16. ASSUME NEW c \in Committers, InsertSender(c) PROVE HeightInv'
    <2>1. /\ UNCHANGED ws /\ c \in Committers /\ pc[c] # "setValue"
          /\ pc' = [pc EXCEPT ![c] = "credit"]
        BY <1>16 DEF InsertSender, Goto
    <2> QED BY <2>1, HeightGoing
<1>17. ASSUME NEW c \in Committers, InsertRecipient(c) PROVE HeightInv'
    <2>1. /\ UNCHANGED ws /\ c \in Committers /\ pc[c] # "setValue"
          /\ pc' = [pc EXCEPT ![c] = "record"]
        BY <1>17 DEF InsertRecipient, Goto
    <2> QED BY <2>1, HeightGoing
<1>18. ASSUME NEW c \in Committers, InsertTx(c) PROVE HeightInv'
    <2>1. /\ UNCHANGED ws /\ c \in Committers /\ pc[c] # "setValue"
          /\ pc' = [pc EXCEPT ![c] = "apply"]
        BY <1>18 DEF InsertTx, Goto
    <2> QED BY <2>1, HeightGoing
<1>19. ASSUME NEW c \in Committers, InsertTxRecords(c) PROVE HeightInv'
    <2>1. /\ UNCHANGED ws /\ c \in Committers /\ pc[c] # "setValue"
          /\ pc' = [pc EXCEPT ![c] = "increase"]
        BY <1>19 DEF InsertTxRecords, Goto
    <2> QED BY <2>1, HeightGoing
<1>20. ASSUME NEW c \in Committers, IncreaseBlockNum(c) PROVE HeightInv'
    BY <1>20 DEF IncreaseBlockNum, Goto, IInv, Values, HeightInv
<1>21. ASSUME NEW c \in Committers, SetValue(c) PROVE HeightInv'
    BY <1>21 DEF SetValue, HeightInv
<1>22. ASSUME NEW c \in Committers, InsertBlock(c) PROVE HeightInv'
    <2>1. /\ UNCHANGED ws /\ c \in Committers /\ pc[c] # "setValue"
          /\ pc' = [pc EXCEPT ![c] = "number"]
        BY <1>22 DEF InsertBlock, Goto
    <2> QED BY <2>1, HeightGoing
<1>23. ASSUME NEW c \in Committers, InsertNumber(c) PROVE HeightInv'
    <2>1. /\ UNCHANGED ws /\ c \in Committers /\ pc[c] # "setValue"
          /\ pc' = [pc EXCEPT ![c] = "meta"]
        BY <1>23 DEF InsertNumber, Goto
    <2> QED BY <2>1, HeightGoing
<1>24. ASSUME NEW c \in Committers, UpdateLastWorldState(c) PROVE HeightInv'
    <2>1. /\ UNCHANGED ws /\ c \in Committers /\ pc[c] # "setValue"
          /\ pc' = [pc EXCEPT ![c] = "idle"]
        BY <1>24 DEF UpdateLastWorldState, Leave, ChangeState
    <2> QED BY <2>1, HeightGoing
<1>25. ASSUME NEW h \in 1 .. MaxHeight, CommitFiled(h) PROVE HeightInv'
    <2>1. /\ UNCHANGED ws /\ pc["chain"] = "idle" /\ "chain" \in Committers
          /\ pc' = pc \/ pc' = [pc EXCEPT !["chain"] = "apply"]
        BY <1>25 DEF CommitFiled, Begin
    <2> QED BY <2>1, HeightStays, HeightGoing
<1>26. ASSUME StartEngine PROVE HeightInv'
    BY <1>26, HeightStays DEF StartEngine, disk, exec
<1>27. ASSUME StopEngine PROVE HeightInv'
    <2>1. /\ UNCHANGED ws /\ "chain" \in Committers /\ pc["chain"] # "setValue"
          /\ pc' = [pc EXCEPT !["chain"] = "stop"]
        BY <1>27 DEF StopEngine, Goto, disk
    <2> QED BY <2>1, HeightGoing
<1>28. ASSUME EndStop PROVE HeightInv'
    <2>1. /\ UNCHANGED ws /\ "chain" \in Committers /\ pc["chain"] # "setValue"
          /\ pc' = [pc EXCEPT !["chain"] = "idle"]
        BY <1>28 DEF EndStop, Goto, disk
    <2> QED BY <2>1, HeightGoing
<1>29. ASSUME NEW h \in 1 .. MaxHeight, Download(h) PROVE HeightInv'
    BY <1>29, HeightStays DEF Download, disk, exec
<1>30. ASSUME UNCHANGED vars PROVE HeightInv'
    BY <1>30, HeightStays DEF vars, exec
<1> QED
    BY <1>1, <1>2, <1>3, <1>4, <1>5, <1>6, <1>7, <1>8, <1>9, <1>10, <1>11, <1>12, <1>13, <1>14, <1>15, <1>16, <1>17, <1>18, <1>19, <1>20, <1>21, <1>22, <1>23, <1>24, <1>25, <1>26, <1>27, <1>28, <1>29, <1>30
    DEF Next, Boot, Daemon, BlockChain, CommitStep

(***************************************************************************)
(* What a committer holds, when the committers keep apart.                 *)
(***************************************************************************)

\* When the committers keep apart, one at most is in CommitBlock.
LEMMA OneCommits ==
    ASSUME IInv, ~ overlapped, NEW c \in Committers, pc[c] \in Committing
    PROVE  \A d \in Committers : d # c => pc[d] \notin Committing
BY DEF IInv, Ordered, Apart

\* Once the committers have met, they have met.
LEMMA MetForever == ASSUME IInv, [Next]_vars, ~ overlapped' PROVE ~ overlapped
<1>1. overlapped \in BOOLEAN
    BY DEF IInv, Values
<1> DEFINE Grows == \/ overlapped' = overlapped
                    \/ \E b \in BOOLEAN : overlapped' = (overlapped \/ b)
<1>2. Grows
    <2>1. CASE Boot \/ Crash \/ Restart \/ UNCHANGED vars
        BY <2>1 DEF Boot, SetGenesisNumber, SetGenesisBlock, SetGenesisMeta, LoadAccount, Run,
                    Crash, Restart, vars
    <2>2. ASSUME NEW c \in Committers, CommitStep(c) PROVE overlapped' = overlapped
        BY <2>2 DEF CommitStep, ExecSender, ExecTransfer, InsertSender, InsertRecipient,
                    InsertTx, InsertTxRecords, IncreaseBlockNum, SetValue, InsertBlock,
                    InsertNumber, UpdateLastWorldState
    <2>3. CASE Daemon
        <3>1. CASE MigrateNotStarted
            BY <3>1 DEF MigrateNotStarted
        <3>2. CASE CommitStep("daemon")
            BY <2>2, <3>2
        <3> QED BY <2>3, <3>1, <3>2 DEF Daemon, Poll, MigrateCommitting, EnterFinished,
                MigrateFinished, MigrateViewChanging
    <2>4. CASE BlockChain
        <3>1. ASSUME NEW h \in 1 .. MaxHeight, CommitFiled(h) PROVE Grows
            BY <3>1 DEF CommitFiled, DaemonAtWork
        <3>2. CASE CommitStep("chain")
            BY <2>2, <3>2
        <3>3. CASE StopEngine
            BY <3>3 DEF StopEngine
        <3> QED BY <2>4, <3>1, <3>2, <3>3 DEF BlockChain, StartEngine, EndStop
    <2>5. ASSUME NEW h \in 1 .. MaxHeight, Download(h) PROVE overlapped' = overlapped
        BY <2>5 DEF Download
    <2> QED BY <2>1, <2>3, <2>4, <2>5 DEF Next
<1>3. CASE overlapped' = overlapped
    BY <1>3
<1>4. ASSUME NEW b \in BOOLEAN, overlapped' = (overlapped \/ b) PROVE ~ overlapped
    BY <1>4, Zenon
<1> QED BY <1>2, <1>3, <1>4

\* An account pays itself, which Exec may do on one object or on two.
SelfPays(t) == t.from = t.to /\ t.amount > 0

\* What the accounts a committer holds are, seen from the store: exactly, and
\* at most if an account pays itself.
InHandOf(c) ==
    LET t == Current(c)
    IN  /\ pc[c] \in {"transfer", "debit"} =>
              accountDB[t.from] \in Int /\ t.amount <= accountDB[t.from]
        /\ pc[c] \in {"debit", "credit"} /\ t.from = t.to => t.amount <= selfPaid
        /\ pc[c] = "transfer" => Value(account[c], t.from) = accountDB[t.from]
        /\ pc[c] = "debit" =>
              /\ Value(account[c], t.from) <= accountDB[t.from]
              /\ Value(recv[c], t.to) <= Worth(accountDB[t.to]) + t.amount
              /\ ~ SelfPays(t) => Value(account[c], t.from) = accountDB[t.from] - t.amount
        /\ pc[c] \in {"debit", "credit"} /\ ~ SelfPays(t) =>
              Value(recv[c], t.to) = Worth(accountDB[t.to]) + t.amount

\* What Exec holds is what the payment makes of the stored balances.
HandInv == ~ overlapped => \A c \in Committers : InHandOf(c)

\* An account that nobody is changing is read as it is stored.
LEMMA ReadAsStored ==
    ASSUME AccountInv, CacheInv, \A c \in Committers : pc[c] \notin {"debit", "credit"}
    PROVE  /\ \A a \in DOMAIN cache : cache[a] = accountDB[a]
           /\ \A a \in Address : GetAccountByID(a) = accountDB[a]
           /\ \A a \in Address : Value(Pointer(a), a) = accountDB[a]
<1>1. \A a \in DOMAIN cache : cache[a] = accountDB[a]
    BY DEF CacheInv, Changing
<1>2. \A a \in Address : GetAccountByID(a) = accountDB[a]
    BY <1>1 DEF GetAccountByID
<1>3. ASSUME NEW a \in Address PROVE Value(Pointer(a), a) = accountDB[a]
    <2>1. CASE a \in DOMAIN cache
        BY <1>1, <2>1 DEF Value, Pointer
    <2>2. CASE a \notin DOMAIN cache
        BY <2>2 DEF Value, Pointer
    <2> QED BY <2>1, <2>2
<1> QED BY <1>1, <1>2, <1>3

\* Every step keeps HandInv.
LEMMA HandStep ==
    ASSUME TypeInv, CacheInv, HandInv, [Next]_vars PROVE HandInv'
<1> SUFFICES ASSUME ~ overlapped', NEW d \in Committers PROVE InHandOf(d)'
    BY DEF HandInv
<1>0. /\ IInv /\ StoreType /\ WorkInv /\ AccountInv
      /\ ~ overlapped /\ \A c \in Committers : InHandOf(c)
      /\ selfPaid \in Nat /\ selfPaid' \in Nat /\ selfPaid <= selfPaid'
    BY MetForever, PaidStep DEF TypeInv, HandInv
<1>1. CASE Quiet
    <2>1. UNCHANGED <<chain, accountDB, cache, account, recv>>
        BY <1>1 DEF Quiet
    <2>2. CASE pc[d] \in Holding \/ pc'[d] \in Holding
        <3>1. pc'[d] = pc[d] /\ block'[d] = block[d] /\ done'[d] = done[d]
            BY <1>1, <2>2 DEF Quiet
        <3>2. Current(d)' = Current(d)
            BY <2>1, <3>1, SameCurrent
        <3>3. InHandOf(d)
            BY <1>0
        <3>4. pc[d] \in {"debit", "credit"} => Current(d).amount \in Nat
            BY <1>0, CurrentIsTx
        <3>5. pc[d] \in {"debit", "credit"} /\ Current(d).from = Current(d).to =>
                  Current(d).amount <= selfPaid'
            BY <1>0, <3>3, <3>4 DEF InHandOf
        <3> QED BY <2>1, <3>1, <3>2, <3>3, <3>5 DEF InHandOf, Value
    <2>3. CASE pc'[d] \notin Holding
        BY <2>3 DEF InHandOf, Holding
    <2> QED BY <2>2, <2>3
<1>2. CASE LoadAccount
    <2>1. pc'[d] = "idle"
        BY <1>0, <1>2 DEF IInv, NotRunning, LoadAccount
    <2> QED BY <2>1 DEF InHandOf
<1>3. CASE Forgotten
    BY <1>3 DEF Forgotten, InHandOf
<1>4. ASSUME NEW c \in Committers, pc[c] \in Committing, d # c, pc'[d] = pc[d] PROVE InHandOf(d)'
    <2>1. pc'[d] \notin Committing
        BY <1>0, <1>4, OneCommits
    <2> QED BY <2>1 DEF InHandOf
<1>5. ASSUME NEW c \in Committers, TakesSender(c) PROVE InHandOf(d)'
    <2>1. /\ UNCHANGED <<chain, accountDB, cache, block, done>> /\ AtTx(c) /\ pc[c] = "apply"
          /\ pc' = [pc EXCEPT ![c] = "transfer"]
          /\ account' = [account EXCEPT ![c] = Pointer(Current(c).from)]
          /\ GetAccountByID(Current(c).from) # None
          /\ ~ (GetAccountByID(Current(c).from) < Current(c).amount)
        BY <1>5 DEF TakesSender, ExecSender, AtTx, Goto, disk
    <2>2. pc'[c] = "transfer" /\ \A k \in Committers : k # c => pc'[k] = pc[k]
        BY <1>0, <2>1, Going
    <2>3. CASE d # c
        BY <1>4, <2>1, <2>2, <2>3
    <2>4. CASE d = c
        <3>1. \A k \in Committers : pc[k] \notin {"debit", "credit"}
            BY <1>0, <2>1, OneCommits
        <3>2. Current(c).from \in Address /\ Current(c).amount \in Nat
            BY <1>0, <2>1, CurrentIsTx
        <3>3. GetAccountByID(Current(c).from) \in Int
            BY <1>0, <2>1, <3>2, Found
        <3>4. /\ GetAccountByID(Current(c).from) = accountDB[Current(c).from]
              /\ Value(Pointer(Current(c).from), Current(c).from) = accountDB[Current(c).from]
            BY <1>0, <3>1, <3>2, ReadAsStored
        <3>5. Current(c).amount <= accountDB[Current(c).from] /\ accountDB[Current(c).from] \in Int
            BY <2>1, <3>2, <3>3, <3>4
        <3>6. Current(c)' = Current(c)
            BY <2>1, SameCurrent
        <3>7. account'[c] = Pointer(Current(c).from)
            BY <1>0, <2>1 DEF AccountInv, IsHeld
        <3>9. Value(account[c], Current(c).from)' = accountDB[Current(c).from]
            BY <2>1, <3>4, <3>6, <3>7 DEF Value
        <3> QED BY <2>1, <2>2, <2>4, <3>5, <3>6, <3>9 DEF InHandOf
    <2> QED BY <2>3, <2>4
<1>6. ASSUME NEW c \in Committers, ExecTransfer(c) PROVE InHandOf(d)'
    <2> DEFINE t == Current(c)
    <2>1. /\ t \in Tx /\ pc[c] = "transfer"
          /\ pc'[c] = "debit" /\ \A k \in Committers : k # c => pc'[k] = pc[k]
          /\ accountDB' = accountDB /\ Current(c)' = Current(c) /\ DOMAIN cache' = DOMAIN cache
          /\ \A a \in DOMAIN cache : cache'[a] = CachedAfter(c, a)
          /\ recv'[c] = Credited(c) /\ account'[c] = Debited(c)
          /\ Debited(c).shared = account[c].shared
          /\ Credited(c).shared => Current(c).to \in DOMAIN cache
        BY <1>0, <1>6, Transfer
    <2>2. CASE d # c
        BY <1>4, <2>1, <2>2
    <2>3. CASE d = c
        <3>1. t.from \in Address /\ t.to \in Address /\ t.amount \in Nat
            BY <2>1, LedgerAssumption
        <3>2. \A k \in Committers : pc[k] \notin {"debit", "credit"}
            BY <1>0, <2>1, OneCommits
        <3>3. /\ accountDB[t.from] \in Int /\ t.amount <= accountDB[t.from]
              /\ Value(account[c], t.from) = accountDB[t.from]
            BY <1>0, <2>1 DEF InHandOf
        <3>4. account[c] \in Pointers /\ (account[c].shared => t.from \in DOMAIN cache)
            BY <1>0 DEF AccountInv, PointersOf
        <3> DEFINE A == IF account'[c].shared THEN cache'[t.from] ELSE account'[c].balance
                   R == IF recv'[c].shared THEN cache'[t.to] ELSE recv'[c].balance
        <3>5. A <= accountDB[t.from] /\ (~ SelfPays(t) => A = accountDB[t.from] - t.amount)
            <4>1. CASE account[c].shared
                <5>1. cache'[t.from] = CachedAfter(c, t.from) /\ account'[c].shared
                    BY <2>1, <3>4, <4>1
                <5>2. cache[t.from] \in Int
                    BY <1>0, <3>4, <4>1 DEF AccountInv, CacheType
                <5>3. cache[t.from] = accountDB[t.from]
                    BY <3>3, <4>1 DEF Value
                <5>4. A = cache[t.from] + (IF t.from = t.to /\ Credited(c).shared THEN t.amount ELSE 0)
                            - t.amount
                    BY <4>1, <5>1 DEF CachedAfter
                <5> HIDE DEF A
                <5>5. CASE SelfPays(t)
                    BY <3>1, <5>2, <5>3, <5>4, <5>5
                <5>6. CASE ~ SelfPays(t)
                    <6>1. t.from # t.to \/ t.amount = 0
                        BY <3>1, <5>6 DEF SelfPays
                    <6> QED BY <3>1, <5>2, <5>3, <5>4, <6>1
                <5> QED BY <5>5, <5>6
            <4>2. CASE ~ account[c].shared
                <5>1. account'[c] = [account[c] EXCEPT !.balance = @ - t.amount]
                    BY <2>1, <4>2 DEF Debited
                <5>2. ~ account'[c].shared /\ account'[c].balance = account[c].balance - t.amount
                    BY <3>4, <4>2, <5>1 DEF Pointers
                <5>3. A = accountDB[t.from] - t.amount
                    BY <3>3, <4>2, <5>2 DEF Value
                <5> HIDE DEF A
                <5> QED BY <3>1, <3>3, <5>3
            <4> QED BY <4>1, <4>2
        <3>6. /\ R <= Worth(accountDB[t.to]) + t.amount
              /\ ~ SelfPays(t) => R = Worth(accountDB[t.to]) + t.amount
            <4> DEFINE to == IF GetAccountByID(t.to) = None THEN NoAccount ELSE Pointer(t.to)
            <4>1. /\ GetAccountByID(t.to) = accountDB[t.to]
                  /\ \A a \in DOMAIN cache : cache[a] = accountDB[a]
                BY <1>0, <3>1, <3>2, ReadAsStored
            <4>2. CASE accountDB[t.to] = None
                <5>1. Credited(c) = [NoAccount EXCEPT !.balance = @ + t.amount]
                    BY <4>1, <4>2, NoneHeld DEF Credited
                <5>2. ~ Credited(c).shared /\ Credited(c).balance = 0 + t.amount
                    BY <5>1 DEF NoAccount
                <5>3. R = Worth(accountDB[t.to]) + t.amount /\ Worth(accountDB[t.to]) = 0
                    BY <2>1, <4>2, <5>2 DEF Worth
                <5> HIDE DEF R
                <5> QED BY <3>1, <5>3
            <4>3. CASE accountDB[t.to] # None
                <5>1. Credited(c) =
                         [Pointer(t.to) EXCEPT !.balance = @ + (IF Pointer(t.to).shared THEN 0 ELSE t.amount)]
                    BY <4>1, <4>3 DEF Credited
                <5>2. /\ Pointer(t.to) \in Pointers /\ (Pointer(t.to).shared => t.to \in DOMAIN cache)
                      /\ accountDB[t.to] \in Int
                    BY <1>0, <3>1, <4>1, <4>3, Found
                <5>3. Value(Pointer(t.to), t.to) = accountDB[t.to]
                    BY <1>0, <3>1, <3>2, ReadAsStored
                <5>4. CASE Pointer(t.to).shared
                    <6>1. Credited(c).shared
                        BY <5>1, <5>2, <5>4 DEF Pointers
                    <6>2. cache'[t.to] = CachedAfter(c, t.to) /\ cache[t.to] \in Int
                        BY <1>0, <2>1, <5>2, <5>4 DEF AccountInv, CacheType
                    <6>3. R = cache[t.to] + t.amount
                                - (IF t.to = t.from /\ account[c].shared THEN t.amount ELSE 0)
                        BY <2>1, <6>1, <6>2 DEF CachedAfter
                    <6>4. cache[t.to] = Worth(accountDB[t.to])
                        BY <4>3, <5>3, <5>4 DEF Value, Worth
                    <6> HIDE DEF R
                    <6>5. CASE SelfPays(t)
                        BY <3>1, <6>2, <6>3, <6>4, <6>5
                    <6>6. CASE ~ SelfPays(t)
                        <7>1. t.from # t.to \/ t.amount = 0
                            BY <3>1, <6>6 DEF SelfPays
                        <7> QED BY <3>1, <6>2, <6>3, <6>4, <7>1
                    <6> QED BY <6>5, <6>6
                <5>5. CASE ~ Pointer(t.to).shared
                    <6>1. ~ Credited(c).shared /\ Credited(c).balance = Pointer(t.to).balance + t.amount
                        BY <5>1, <5>2, <5>5 DEF Pointers
                    <6>2. Pointer(t.to).balance = accountDB[t.to]
                        BY <5>3, <5>5 DEF Value
                    <6>3. R = Worth(accountDB[t.to]) + t.amount /\ Worth(accountDB[t.to]) \in Int
                        BY <2>1, <4>3, <5>2, <6>1, <6>2 DEF Worth
                    <6> HIDE DEF R
                    <6> QED BY <3>1, <6>3
                <5> QED BY <5>4, <5>5
            <4> QED BY <4>2, <4>3
        <3>9. t.from = t.to => t.amount <= selfPaid'
            <4> HIDE DEF t
            <4>1. t.from = t.to => selfPaid' = selfPaid + t.amount
                BY <1>6 DEF ExecTransfer, t
            <4> QED BY <1>0, <3>1, <4>1
        <3>7. Value(account[c], Current(c).from)' = A
            BY <2>1 DEF Value
        <3>8. Value(recv[c], Current(c).to)' = R
            BY <2>1 DEF Value
        <3>10. pc'[d] = "debit" /\ Current(d)' = t /\ accountDB' = accountDB
            BY <2>1, <2>3
        <3>11. /\ Value(account[d], Current(d).from)' = A
               /\ Value(recv[d], Current(d).to)' = R
            BY <2>3, <3>7, <3>8
        <3> HIDE DEF t, A, R
        <3> QED BY <3>3, <3>5, <3>6, <3>9, <3>10, <3>11 DEF InHandOf
    <2> QED BY <2>2, <2>3
<1>7. ASSUME NEW c \in Committers, InsertSender(c) PROVE InHandOf(d)'
    <2> DEFINE t == Current(c)
    <2>1. /\ pc[c] = "debit" /\ Moved(c, "credit") /\ t \in Tx /\ t.from \in Address
          /\ account[c] \in Pointers /\ (account[c].shared => t.from \in DOMAIN cache)
        BY <1>0, <1>7, SenderInserted
    <2>2. PICK gone : Inserts(c, t.from, account[c], gone)
        BY <1>0, <1>7, SenderInserted
    <2>3. CASE d # c
        BY <1>4, <2>1, <2>3 DEF Moved
    <2>4. CASE d = c
        <3>1. /\ t.from = t.to => t.amount <= selfPaid
              /\ Value(account[c], t.from) = accountDB[t.from] - t.amount \/ SelfPays(t)
              /\ Value(recv[c], t.to) = Worth(accountDB[t.to]) + t.amount \/ SelfPays(t)
              /\ accountDB[t.from] \in Int
            BY <1>0, <2>1 DEF InHandOf
        <3>2. recv'[c] = Kept(recv[c], t.to, gone) /\ pc'[c] = "credit" /\ Current(c)' = t
            BY <2>1, <2>2 DEF Inserts, Moved
        <3>3. Still(recv[c], Kept(recv[c], t.to, gone), t.to, gone)
            BY <1>0, <2>1, <2>2, HoldersKeep
        <3>4. t.amount \in Nat
            BY <2>1, LedgerAssumption
        <3>5. ~ SelfPays(t) => accountDB'[t.to] = accountDB[t.to]
            <4>1. CASE t.from # t.to
                BY <1>0, <2>2, <4>1 DEF Inserts, AccountInv
            <4>2. CASE t.from = t.to /\ ~ SelfPays(t)
                <5>1. t.amount = 0
                    BY <3>4, <4>2 DEF SelfPays
                <5>2. Value(account[c], t.from) = accountDB[t.from]
                    BY <3>1, <4>2, <5>1
                <5> QED BY <1>0, <2>2, <4>2, <5>2 DEF Inserts, AccountInv
            <4> QED BY <4>1, <4>2
        <3>6. t.from = t.to => t.amount <= selfPaid'
            BY <1>0, <3>1, <3>4
        <3>7. Value(recv[c], Current(c).to)' = Value(recv[c], t.to)
            BY <3>2, <3>3 DEF Value, Still
        <3>8. Current(d)' = t /\ pc'[d] = "credit"
              /\ Value(recv[d], Current(d).to)' = Value(recv[c], t.to)
            BY <2>4, <3>2, <3>7
        <3> DEFINE R == Value(recv[c], t.to)
        <3>9. ~ SelfPays(t) => R = Worth(accountDB'[t.to]) + t.amount
            BY <3>1, <3>5
        <3>10. Value(recv[d], Current(d).to)' = R
            BY <3>8
        <3> HIDE DEF t, R
        <3> QED BY <3>6, <3>8, <3>9, <3>10 DEF InHandOf
    <2> QED BY <2>3, <2>4
<1>8. ASSUME NEW c \in Committers, InsertRecipient(c) PROVE InHandOf(d)'
    <2>1. pc[c] = "credit" /\ Moved(c, "record")
        BY <1>0, <1>8, RecipientInserted
    <2>2. CASE d # c
        BY <1>4, <2>1, <2>2 DEF Moved
    <2>3. CASE d = c
        BY <2>1, <2>3 DEF Moved, InHandOf
    <2> QED BY <2>2, <2>3
<1> QED BY <1>0, <1>1, <1>2, <1>3, <1>5, <1>6, <1>7, <1>8, Moves DEF Touches

(***************************************************************************)
(* A starting node.                                                        *)
(***************************************************************************)

\* A node that is making its genesis has an empty ledger, or has loaded as many
\* of the configured accounts as it has counted.
BootInv ==
    /\ phase \in {"dead", "restarting"} => crashes > 0
    /\ phase \in {"setBlock", "setMeta", "loadAccounts", "restarting", "running"} => 0 \in numDB
    /\ phase \in {"setNumber", "setBlock", "setMeta", "loadAccounts"} => txDB = {} /\ records = {}
    /\ phase \in {"setNumber", "setBlock", "setMeta"} => metaDB = None /\ accountDB = Configured(0)
    /\ phase \in {"dead", "setNumber", "setBlock", "setMeta"} => done["chain"] = 0
    /\ phase = "loadAccounts" =>
          /\ metaDB = 0 /\ done["chain"] <= Len(AccountCfg)
          /\ accountDB = Configured(done["chain"])
    /\ 0 \notin numDB =>
          metaDB = None /\ accountDB = Configured(0) /\ txDB = {} /\ records = {}

\* A node without data satisfies it.
LEMMA InitBoot == Init => BootInv
<1>1. Configured(0) = [a \in Address |-> None]
    BY ConfiguredDef
<1> QED BY <1>1 DEF Init, BootInv

\* Whatever a goroutine does, the process is running.
LEMMA RunningStep ==
    ASSUME IInv, Daemon \/ BlockChain \/ \E h \in 1 .. MaxHeight : Download(h)
    PROVE  /\ phase = "running" /\ phase' \in {"running", "panicked"}
           /\ numDB \subseteq numDB'
<1>1. \A c \in Committers : pc[c] # "idle" => phase = "running"
    BY DEF IInv, NotRunning
<1>2. ASSUME NEW c \in Committers, CommitStep(c)
      PROVE  phase = "running" /\ phase' = phase /\ numDB \subseteq numDB'
    BY <1>1, <1>2 DEF CommitStep, ExecSender, AtTx, ExecTransfer, InsertSender, InsertRecipient,
       InsertTx, InsertTxRecords, IncreaseBlockNum, SetValue, InsertBlock, InsertNumber,
       UpdateLastWorldState, disk
<1>3. CASE Daemon
    <2>1. CASE CommitStep("daemon")
        BY <1>2, <2>1
    <2> QED BY <1>1, <1>3, <2>1 DEF Daemon, Poll, MigrateNotStarted, MigrateCommitting,
            EnterFinished, MigrateFinished, MigrateViewChanging, disk
<1>4. CASE BlockChain
    <2>1. CASE CommitStep("chain")
        BY <1>2, <2>1
    <2> QED BY <1>1, <1>4, <2>1 DEF BlockChain, CommitFiled, StartEngine, StopEngine, EndStop, disk
<1>5. ASSUME NEW h \in 1 .. MaxHeight, Download(h) PROVE phase = "running" /\ phase' = phase /\ numDB \subseteq numDB'
    BY <1>5 DEF Download, disk
<1> QED BY <1>3, <1>4, <1>5

\* Every step keeps BootInv.
LEMMA BootStep == ASSUME TypeInv, BootInv, [Next]_vars PROVE BootInv'
<1>0. IInv /\ StoreType /\ WorkInv /\ AccountInv /\ crashes \in Nat
    BY LedgerAssumption DEF TypeInv, StoreType
<1>1. CASE SetGenesisNumber
    BY <1>1 DEF BootInv, SetGenesisNumber, exec
<1>2. CASE SetGenesisBlock
    BY <1>2 DEF BootInv, SetGenesisBlock, exec
<1>3. CASE SetGenesisMeta
    <2>1. Len(AccountCfg) \in Nat
        BY LedgerAssumption
    <2> QED BY <1>3, <2>1 DEF BootInv, SetGenesisMeta, exec
<1>4. CASE LoadAccount
    <2> DEFINE n == done["chain"]
    <2>1. n \in Nat /\ n < Len(AccountCfg) /\ Len(AccountCfg) \in Nat
        BY <1>0, <1>4, LedgerAssumption DEF LoadAccount, WorkInv
    <2>2. done'["chain"] = n + 1
        BY <1>0, <1>4 DEF LoadAccount, WorkInv
    <2>3. accountDB = Configured(n)
        BY <1>4 DEF BootInv, LoadAccount
    <2>4. n \in 0 .. (Len(AccountCfg) - 1)
        BY <2>1
    <2>5. accountDB' = Configured(n + 1)
        <3>1. accountDB' = [accountDB EXCEPT ![AccountCfg[n + 1].id] = AccountCfg[n + 1].amount]
            BY <1>4 DEF LoadAccount
        <3> QED BY <2>3, <2>4, <3>1, ConfiguredDef
    <2> HIDE DEF n
    <2>6. n + 1 <= Len(AccountCfg)
        BY <2>1
    <2> QED BY <1>4, <2>2, <2>5, <2>6 DEF BootInv, LoadAccount
<1>5. CASE Run
    BY <1>5 DEF BootInv, Run, GetBlockMeta, disk
<1>6. CASE Crash
    <2>1. crashes' > 0
        BY <1>0, <1>6 DEF Crash
    <2> QED BY <1>6, <2>1 DEF BootInv, Crash, Forgotten, disk
<1>7. CASE Restart
    BY <1>7 DEF BootInv, Restart, GetBlockByNum, disk, exec
<1>8. CASE Daemon \/ BlockChain \/ \E h \in 1 .. MaxHeight : Download(h)
    <2>1. /\ phase = "running" /\ phase' \in {"running", "panicked"}
          /\ numDB \subseteq numDB'
        BY <1>0, <1>8, RunningStep
    <2> QED BY <2>1 DEF BootInv
<1>9. CASE UNCHANGED vars
    BY <1>9 DEF BootInv, vars, disk, exec
<1> QED BY <1>1, <1>2, <1>3, <1>4, <1>5, <1>6, <1>7, <1>8, <1>9 DEF Next, Boot

(***************************************************************************)
(* The databases and the replay of the decided blocks.                     *)
(***************************************************************************)

\* The rows of the SQL table for the first h blocks.
RowsIn(c, h) == UNION {{<<t, k>> : t \in Range(c[k])} : k \in 1 .. h}

\* The same for the decided blocks.
Rows(h) == RowsIn(chain, h)

\* Balances, transactions and rows are those of the first h blocks.
AtIn(c, h, balance, txs, rows) ==
    balance = Replays(c)[h].balance /\ txs = Replays(c)[h].txs /\ rows = RowsIn(c, h)

\* The same for the decided blocks.
At(h, balance, txs, rows) == AtIn(chain, h, balance, txs, rows)

\* They are those of a committer that stands at statement s of block h, with i
\* of its transactions done.
InsideIn(c, s, h, i, balance, txs, rows) ==
    LET e == StepIn(c, h, i)
        t == c[h][i + 1]
    IN  /\ s \in Statement \ {"increase"} => rows = RowsIn(c, h - 1)
        /\ s \in {"apply", "transfer", "debit"} => balance = e.balance /\ txs = e.txs
        /\ s \in {"credit", "record"} => t.amount <= e.balance[t.from] /\ txs = e.txs
        /\ s = "credit" => balance = [e.balance EXCEPT ![t.from] = @ - t.amount]
        /\ s = "record" => balance = StepIn(c, h, i + 1).balance
        /\ s \in Committing \ (Statement \ {"increase"}) => AtIn(c, h, balance, txs, rows)

\* The same for the decided blocks.
Inside(s, h, i, balance, txs, rows) == InsideIn(chain, s, h, i, balance, txs, rows)

\* The databases are where the committer stands.
CommitInv(c) == Inside(pc[c], block[c], done[c], accountDB, txDB, records)

\* Between blocks the databases hold the replay of the blocks up to blockNum;
\* inside one, the replay up to the committer's statement.
ReplayInv ==
    crashes = 0 /\ ~ overlapped /\ selfPaid = 0 /\ Running =>
        /\ (\A c \in Committers : pc[c] \notin Committing) => At(blockNum, accountDB, txDB, records)
        /\ \A c \in Committers : CommitInv(c)

\* The decided blocks do not change, so neither does their replay.
LEMMA SameAt ==
    ASSUME chain' = chain, At(blockNum', accountDB', txDB', records')
    PROVE  At(blockNum, accountDB, txDB, records)'
BY DEF At

\* Nor does what a committer's place says of the databases.
LEMMA SameInside ==
    ASSUME chain' = chain, NEW c,
           Inside(pc'[c], block'[c], done'[c], accountDB', txDB', records')
    PROVE  CommitInv(c)'
BY DEF CommitInv, Inside

\* The rows of a block are added to those of the blocks below.
LEMMA RowsOf ==
    /\ Rows(0) = {}
    /\ \A h \in Nat \ {0} : Rows(h) = Rows(h - 1) \cup {<<t, h>> : t \in Range(chain[h])}
<1>1. Rows(0) = {}
    BY DEF Rows, RowsIn
<1>2. ASSUME NEW h \in Nat \ {0}
      PROVE  Rows(h) = Rows(h - 1) \cup {<<t, h>> : t \in Range(chain[h])}
    <2> DEFINE R(k) == {<<t, k>> : t \in Range(chain[k])}
    <2>1. 1 .. h = (1 .. (h - 1)) \cup {h}
        OBVIOUS
    <2>2. Rows(h) = UNION {R(k) : k \in 1 .. h} /\ Rows(h - 1) = UNION {R(k) : k \in 1 .. (h - 1)}
        BY DEF Rows, RowsIn
    <2> HIDE DEF R
    <2>3. \A x : x \in UNION {R(k) : k \in 1 .. h} <=> \E k \in 1 .. h : x \in R(k)
        OBVIOUS
    <2>4. \A x : x \in UNION {R(k) : k \in 1 .. (h - 1)} <=> \E k \in 1 .. (h - 1) : x \in R(k)
        OBVIOUS
    <2>5. \A x : (\E k \in 1 .. h : x \in R(k)) <=> (\E k \in 1 .. (h - 1) : x \in R(k)) \/ x \in R(h)
        BY <2>1
    <2>6. \A x : x \in Rows(h) <=> x \in Rows(h - 1) \/ x \in R(h)
        BY <2>2, <2>3, <2>4, <2>5
    <2>7. Rows(h) = Rows(h - 1) \cup R(h)
        BY <2>6
    <2> QED BY <2>7 DEF R
<1> QED BY <1>1, <1>2

\* A step that neither stores anything nor moves a committer in its block.
LEMMA ReplayStays ==
    ASSUME ReplayInv, UNCHANGED <<chain, accountDB, txDB, records, blockNum, phase, crashes>>,
           overlapped' \/ ~ overlapped, selfPaid = 0,
           \A c \in Committers : pc[c] \in Committing \/ pc'[c] \in Committing =>
              pc'[c] = pc[c] /\ block'[c] = block[c] /\ done'[c] = done[c]
    PROVE  ReplayInv'
<1> SUFFICES ASSUME crashes' = 0, ~ overlapped', selfPaid' = 0, Running'
             PROVE  /\ (\A c \in Committers : pc'[c] \notin Committing) =>
                          At(blockNum, accountDB, txDB, records)'
                    /\ \A c \in Committers : CommitInv(c)'
    BY DEF ReplayInv
<1>1. /\ (\A c \in Committers : pc[c] \notin Committing) => At(blockNum, accountDB, txDB, records)
      /\ \A c \in Committers : CommitInv(c)
    BY DEF ReplayInv
<1>2. (\A c \in Committers : pc'[c] \notin Committing) =>
          At(blockNum', accountDB', txDB', records')
    BY <1>1
<1>3. ASSUME NEW c \in Committers
      PROVE  Inside(pc'[c], block'[c], done'[c], accountDB', txDB', records')
    <2>1. CASE pc'[c] \in Committing
        BY <1>1, <2>1 DEF CommitInv
    <2>2. CASE pc'[c] \notin Committing
        BY <2>2 DEF Inside, InsideIn
    <2> QED BY <2>1, <2>2
<1> QED BY <1>2, <1>3, SameAt, SameInside

\* One committer goes on in its block, or begins it.
LEMMA ReplayGoesOn ==
    ASSUME chain' = chain, NEW c \in Committers, pc'[c] \in Committing,
           \A d \in Committers : d # c => pc'[d] \notin Committing,
           Inside(pc'[c], block'[c], done'[c], accountDB', txDB', records')
    PROVE  ReplayInv'
<1>1. \A d \in Committers : d # c =>
          Inside(pc'[d], block'[d], done'[d], accountDB', txDB', records')
    BY DEF Inside, InsideIn
<1>2. \A d \in Committers : CommitInv(d)'
    BY <1>1, SameInside
<1> QED BY <1>2 DEF ReplayInv

\* All are outside.
LEMMA ReplaySettles ==
    ASSUME chain' = chain, \A c \in Committers : pc'[c] \notin Committing,
           At(blockNum', accountDB', txDB', records')
    PROVE  ReplayInv'
<1>1. \A d \in Committers : Inside(pc'[d], block'[d], done'[d], accountDB', txDB', records')
    BY DEF Inside, InsideIn
<1>2. \A d \in Committers : CommitInv(d)'
    BY <1>1, SameInside
<1> QED BY <1>2, SameAt DEF ReplayInv

\* The first transaction of the next block.
LEMMA ReplayBegins ==
    ASSUME TypeInv, ReplayInv, crashes = 0, ~ overlapped, selfPaid = 0, Running,
           NEW c \in Committers, NEW h \in 1 .. MaxHeight, h = blockNum + 1,
           Begin(c, h), UNCHANGED <<chain, accountDB, txDB, records>>,
           \A d \in Committers : pc[d] \notin Committing
    PROVE  ReplayInv'
<1>1. pc'[c] = "apply" /\ \A d \in Committers : d # c => pc'[d] = pc[d]
    BY Going DEF Begin, TypeInv
<1>2. block'[c] = h /\ done'[c] = 0
    BY DEF Begin, TypeInv, IInv, Values, WorkInv
<1>3. At(h - 1, accountDB, txDB, records)
    <2>1. blockNum = h - 1
        BY DEF TypeInv, IInv, Values
    <2> QED BY <2>1 DEF ReplayInv
<1>4. StepOf(h, 0) = Fresh(Replay(h - 1))
    BY StepOfDef DEF TypeInv, StoreType
<1>5. Inside("apply", h, 0, accountDB, txDB, records)
    BY <1>3, <1>4 DEF Inside, InsideIn, At, AtIn, Fresh, StepOf, Replay
<1> QED BY <1>1, <1>2, <1>5, ReplayGoesOn

\* What the argument knows of committer c in block h after i transactions.
Busy(c, h, i) ==
    /\ c \in Committers /\ pc[c] \in Committing /\ block[c] = h /\ done[c] = i
    /\ h \in 1 .. MaxHeight /\ i \in Nat
    /\ Inside(pc[c], h, i, accountDB, txDB, records)
    /\ \A d \in Committers : d # c => pc[d] \notin Committing
    /\ pc[c] \in Paying \/ AtTx(c) => i + 1 \in 1 .. Len(chain[h]) /\ chain[h][i + 1] = Current(c)

\* ReplayInv tells it.
LEMMA BusyWith ==
    ASSUME TypeInv, ReplayInv, crashes = 0, ~ overlapped, selfPaid = 0, NEW c \in Committers, pc[c] \in Committing
    PROVE  Busy(c, block[c], done[c]) /\ Running
<1>0. /\ IInv /\ StoreType /\ WorkInv
      /\ Running
    BY DEF TypeInv, IInv, NotRunning
<1>1. block[c] \in 1 .. MaxHeight /\ done[c] \in Nat
    <2>1. block[c] # 0 /\ block[c] \in 0 .. MaxHeight /\ done[c] \in Nat
        BY <1>0 DEF IInv, Values, WorkInv
    <2> QED BY <2>1, LedgerAssumption
<1>2. Inside(pc[c], block[c], done[c], accountDB, txDB, records)
    BY <1>0 DEF ReplayInv, CommitInv
<1>3. \A d \in Committers : d # c => pc[d] \notin Committing
    BY <1>0, OneCommits
<1>4. ASSUME pc[c] \in Paying \/ AtTx(c)
      PROVE  done[c] + 1 \in 1 .. Len(chain[block[c]])
    <2>1. done[c] < Len(chain[block[c]])
        BY <1>0, <1>4 DEF WorkInv, AtTx
    <2>2. Len(chain[block[c]]) \in Nat
        BY <1>0, <1>1, StepOfDef DEF StoreType
    <2> QED BY <1>1, <2>1, <2>2
<1> QED BY <1>0, <1>1, <1>2, <1>3, <1>4 DEF Busy, Current

\* Block h from its ledger after i transactions to the one after k.
PaysNext(h, i, k) ==
    LET e == StepOf(h, i)
        t == chain[h][k]
    IN  /\ t \notin e.txs /\ e.balance[t.from] # None
        /\ t.amount <= e.balance[t.from] =>
              /\ StepOf(h, k).balance =
                   [[e.balance EXCEPT ![t.from] = e.balance[t.from] - t.amount]
                       EXCEPT ![t.to] = Worth(e.balance[t.to]) + t.amount]
              /\ StepOf(h, k).txs = e.txs \cup {t}
        /\ ~ (t.amount <= e.balance[t.from]) =>
              StepOf(h, k).balance = e.balance /\ StepOf(h, k).txs = e.txs

\* The next transaction of a block.
LEMMA NextPays ==
    ASSUME chain \in Chains, NEW h \in 1 .. MaxHeight, NEW i \in Nat, i + 1 \in 1 .. Len(chain[h])
    PROVE  PaysNext(h, i, i + 1)
<1>1. \A k \in 1 .. Len(chain[h]) : PaysNext(h, k - 1, k)
    BY StepPays, NothingFails DEF PaysNext
<1>2. (i + 1) - 1 = i
    OBVIOUS
<1> QED BY <1>1, <1>2

\* Exec decides as Eval did.
LEMMA ReplaySender ==
    ASSUME TypeInv, CacheInv, ReplayInv, crashes = 0, ~ overlapped, selfPaid = 0,
           NEW c \in Committers, ExecSender(c)
    PROVE  ReplayInv'
<1> DEFINE h == block[c]
           i == done[c]
           e == StepOf(h, i)
           t == chain[h][i + 1]
           b == GetAccountByID(t.from)
<1>0. IInv /\ StoreType /\ WorkInv /\ AccountInv
    BY DEF TypeInv
<1>1. /\ pc[c] = "apply" /\ AtTx(c)
      /\ UNCHANGED <<chain, accountDB, txDB, records, phase, crashes, blockNum>>
    BY DEF ExecSender, AtTx, disk, ws
<1>2. Busy(c, h, i) /\ Running
    BY <1>1, BusyWith
<1>3. /\ accountDB = e.balance /\ txDB = e.txs /\ records = Rows(h - 1)
      /\ h \in 1 .. MaxHeight /\ i \in Nat /\ i + 1 \in 1 .. Len(chain[h])
      /\ t = Current(c) /\ (i + 1) - 1 = i
      /\ \A d \in Committers : d # c => pc[d] \notin Committing
    BY <1>1, <1>2 DEF Busy, Inside, InsideIn, StepOf, Rows
<1>4. t.from \in Address /\ t.amount \in Nat
    BY <1>0, <1>1, <1>3, CurrentIsTx
<1>5. t \notin txDB /\ accountDB[t.from] # None
    BY <1>0, <1>3, NextPays DEF StoreType, PaysNext
<1>6. b = accountDB[t.from] /\ b \in Int
    <2>1. \A d \in Committers : pc[d] \notin {"debit", "credit"}
        BY <1>1, <1>3
    <2>2. b = accountDB[t.from]
        BY <1>0, <1>4, <2>1, ReadAsStored
    <2> QED BY <1>0, <1>4, <1>5, <2>2 DEF AccountInv
<1>7. ~ (GetTxByID(t) \/ b = None)
    BY <1>5, <1>6 DEF GetTxByID
<1>8. CASE b < t.amount
    <2>1. done' = [done EXCEPT ![c] = @ + 1] /\ UNCHANGED <<pc, block>>
        BY <1>3, <1>7, <1>8 DEF ExecSender
    <2>2. ~ (t.amount <= e.balance[t.from])
        BY <1>3, <1>4, <1>6, <1>8
    <2>3. StepOf(h, i + 1).balance = e.balance /\ StepOf(h, i + 1).txs = e.txs
        BY <1>0, <1>3, <2>2, NextPays DEF StoreType, PaysNext
    <2>4. done'[c] = i + 1
        BY <1>0, <2>1 DEF WorkInv
    <2> HIDE DEF i, h
    <2>5. Inside("apply", h, i + 1, accountDB, txDB, records)
        BY <1>3, <2>3 DEF Inside, InsideIn, StepOf, Rows
    <2> QED BY <1>1, <1>3, <2>1, <2>4, <2>5, ReplayGoesOn DEF h
<1>9. CASE ~ (b < t.amount)
    <2>1. pc' = [pc EXCEPT ![c] = "transfer"] /\ UNCHANGED <<block, done>>
        BY <1>3, <1>7, <1>9 DEF ExecSender, Goto
    <2>2. pc'[c] = "transfer" /\ \A d \in Committers : d # c => pc'[d] = pc[d]
        BY <1>0, <2>1, Going
    <2> HIDE DEF i, h
    <2>3. Inside("transfer", h, i, accountDB, txDB, records)
        BY <1>3 DEF Inside, InsideIn, StepOf, Rows
    <2> QED BY <1>1, <1>3, <2>1, <2>2, <2>3, ReplayGoesOn DEF h, i
<1> QED BY <1>8, <1>9

\* Exec moves the amount between the objects, which the databases do not see.
LEMMA ReplayTransfer ==
    ASSUME TypeInv, ReplayInv, crashes = 0, ~ overlapped, selfPaid = 0,
           NEW c \in Committers, ExecTransfer(c)
    PROVE  ReplayInv'
<1>0. IInv
    BY DEF TypeInv
<1>1. /\ pc[c] = "transfer" /\ pc' = [pc EXCEPT ![c] = "debit"]
      /\ UNCHANGED <<chain, accountDB, txDB, records, block, done>>
    BY DEF ExecTransfer, Goto, disk
<1>2. pc'[c] = "debit" /\ \A d \in Committers : d # c => pc'[d] = pc[d]
    BY <1>0, <1>1, Going
<1>3. Busy(c, block[c], done[c])
    BY <1>1, BusyWith
<1>4. Inside("debit", block[c], done[c], accountDB, txDB, records)
    BY <1>1, <1>3 DEF Busy, Inside, InsideIn
<1> QED BY <1>1, <1>2, <1>3, <1>4, ReplayGoesOn DEF Busy

\* The sender's account is stored, as Eval left it in its snapshot.
LEMMA ReplayInsertSender ==
    ASSUME TypeInv, HandInv, ReplayInv, crashes = 0, ~ overlapped, selfPaid = 0,
           NEW c \in Committers, InsertSender(c)
    PROVE  ReplayInv'
<1> DEFINE h == block[c]
           i == done[c]
           e == StepOf(h, i)
           t == chain[h][i + 1]
<1>0. IInv /\ StoreType /\ WorkInv /\ AccountInv
    BY DEF TypeInv
<1>1. pc[c] = "debit" /\ Moved(c, "credit") /\ txDB' = txDB /\ records' = records
    BY <1>0, SenderInserted DEF InsertSender
<1>2. Busy(c, h, i)
    BY <1>1, BusyWith
<1>3. /\ accountDB = e.balance /\ txDB = e.txs /\ records = Rows(h - 1)
      /\ t = Current(c)
      /\ \A d \in Committers : d # c => pc[d] \notin Committing
    BY <1>1, <1>2 DEF Busy, Inside, InsideIn, StepOf, Rows
<1>4. accountDB' = [accountDB EXCEPT ![t.from] = Value(account[c], t.from)]
    BY <1>0, <1>3, SenderInserted DEF Inserts
<1>5. /\ Value(account[c], t.from) = accountDB[t.from] - t.amount
      /\ t.amount <= accountDB[t.from]
    <2>1. Current(c).amount \in Nat
        BY <1>0, <1>1, CurrentIsTx
    <2>2. ~ SelfPays(Current(c))
        BY <1>1, <2>1 DEF HandInv, InHandOf, SelfPays
    <2> QED BY <1>1, <1>3, <2>2 DEF HandInv, InHandOf
<1>6. /\ UNCHANGED <<chain, block, done>> /\ pc'[c] = "credit"
      /\ \A d \in Committers : d # c => pc'[d] = pc[d]
    BY <1>1 DEF Moved
<1> HIDE DEF h, i
<1>7. Inside("credit", h, i, accountDB', txDB', records')
    BY <1>1, <1>3, <1>4, <1>5 DEF Inside, InsideIn, StepOf, Rows
<1> QED BY <1>3, <1>6, <1>7, ReplayGoesOn DEF h, i

\* And the recipient's.
LEMMA ReplayInsertRecipient ==
    ASSUME TypeInv, HandInv, ReplayInv, crashes = 0, ~ overlapped, selfPaid = 0,
           NEW c \in Committers, InsertRecipient(c)
    PROVE  ReplayInv'
<1> DEFINE h == block[c]
           i == done[c]
           e == StepOf(h, i)
           t == chain[h][i + 1]
<1>0. IInv /\ StoreType /\ WorkInv /\ AccountInv
    BY DEF TypeInv
<1>1. /\ pc[c] = "credit" /\ Moved(c, "record") /\ txDB' = txDB /\ records' = records
      /\ Current(c) \in Tx
    BY <1>0, RecipientInserted DEF InsertRecipient
<1>2. Busy(c, h, i)
    BY <1>1, BusyWith
<1>3. /\ accountDB = [e.balance EXCEPT ![t.from] = @ - t.amount]
      /\ t.amount <= e.balance[t.from] /\ txDB = e.txs /\ records = Rows(h - 1)
    BY <1>1, <1>2 DEF Busy, Inside, InsideIn, StepOf, Rows
<1>11. /\ t = Current(c) /\ h \in 1 .. MaxHeight /\ i \in Nat /\ i + 1 \in 1 .. Len(chain[h])
      /\ (i + 1) - 1 = i
      /\ \A d \in Committers : d # c => pc[d] \notin Committing
    BY <1>1, <1>2 DEF Busy
<1>4. accountDB' = [accountDB EXCEPT ![t.to] = Value(recv[c], t.to)]
    BY <1>0, <1>3, <1>11, RecipientInserted DEF Inserts
<1>12. Current(c).amount \in Nat /\ ~ SelfPays(Current(c))
    <2>1. Current(c).amount \in Nat
        BY <1>0, <1>1, CurrentIsTx
    <2> QED BY <1>1, <2>1 DEF HandInv, InHandOf, SelfPays
<1>5. Value(recv[c], t.to) = Worth(accountDB[t.to]) + t.amount
    BY <1>1, <1>3, <1>11, <1>12 DEF HandInv, InHandOf
<1>6. /\ UNCHANGED <<chain, block, done>> /\ pc'[c] = "record"
      /\ \A d \in Committers : d # c => pc'[d] = pc[d]
    BY <1>1 DEF Moved
<1>7. accountDB[t.to] = e.balance[t.to]
    <2>4. t.from \in Address /\ t.to \in Address /\ chain \in Chains
        BY <1>0, <1>1, <1>11, LedgerAssumption DEF StoreType
    <2>1. e.balance \in [Address -> Int \cup {None}] /\ t.from \in Address
        <3>1. i \in 0 .. Len(chain[h])
            BY <1>11, <2>4, StepOfDef
        <3>2. e \in LedgerType
            BY <1>11, <2>4, <3>1, StepOfDef
        <3> QED BY <2>4, <3>2 DEF LedgerType
    <2>2. CASE t.from # t.to
        <3>1. accountDB = [e.balance EXCEPT ![t.from] = @ - t.amount]
            BY <1>3
        <3> HIDE DEF e, t
        <3> QED BY <2>1, <2>2, <2>4, <3>1
    <2>3. CASE t.from = t.to
        <3>1. t.amount = 0
            BY <1>11, <1>12, <2>3 DEF SelfPays
        <3>4. PaysNext(h, i, i + 1)
            BY <1>11, <2>4, NextPays
        <3>5. e.balance[t.from] # None
            BY <3>4 DEF PaysNext
        <3>2. e.balance[t.from] \in Int
            BY <2>1, <3>5
        <3>3. e.balance[t.from] - 0 = e.balance[t.from]
            BY <3>2
        <3> QED BY <1>3, <2>1, <2>3, <3>1, <3>3
    <2> QED BY <2>2, <2>3
<1>8. StepOf(h, i + 1).balance =
         [[e.balance EXCEPT ![t.from] = e.balance[t.from] - t.amount]
             EXCEPT ![t.to] = Worth(e.balance[t.to]) + t.amount]
    BY <1>0, <1>3, <1>11, NextPays DEF StoreType, PaysNext
<1>9. accountDB' = StepOf(h, i + 1).balance
    BY <1>3, <1>11, <1>4, <1>5, <1>7, <1>8
<1> HIDE DEF h, i
<1>10. Inside("record", h, i, accountDB', txDB', records')
    BY <1>1, <1>3, <1>11, <1>9 DEF Inside, InsideIn, StepOf, Rows
<1> QED BY <1>3, <1>11, <1>6, <1>10, ReplayGoesOn DEF h, i

\* The transaction is done.
LEMMA ReplayInsertTx ==
    ASSUME TypeInv, ReplayInv, crashes = 0, ~ overlapped, selfPaid = 0, NEW c \in Committers, InsertTx(c)
    PROVE  ReplayInv'
<1> DEFINE h == block[c]
           i == done[c]
           e == StepOf(h, i)
           t == chain[h][i + 1]
<1>0. IInv /\ StoreType /\ WorkInv
    BY DEF TypeInv
<1>1. /\ pc[c] = "record" /\ pc' = [pc EXCEPT ![c] = "apply"]
      /\ txDB' = txDB \cup {Current(c)} /\ done' = [done EXCEPT ![c] = @ + 1]
      /\ UNCHANGED <<chain, accountDB, records, block>>
    BY DEF InsertTx, Goto
<1>2. Busy(c, h, i)
    BY <1>1, BusyWith
<1>3. /\ accountDB = StepOf(h, i + 1).balance /\ t.amount <= e.balance[t.from]
      /\ txDB = e.txs /\ records = Rows(h - 1)
    BY <1>1, <1>2 DEF Busy, Inside, InsideIn, StepOf, Rows
<1>4. /\ t = Current(c) /\ h \in 1 .. MaxHeight /\ i \in Nat /\ i + 1 \in 1 .. Len(chain[h])
      /\ \A d \in Committers : d # c => pc[d] \notin Committing
    BY <1>1, <1>2 DEF Busy
<1>5. StepOf(h, i + 1).txs = e.txs \cup {t}
    BY <1>0, <1>3, <1>4, NextPays DEF StoreType, PaysNext
<1>6. done'[c] = i + 1 /\ block'[c] = h
    BY <1>0, <1>1 DEF WorkInv
<1>7. pc'[c] = "apply" /\ \A d \in Committers : d # c => pc'[d] = pc[d]
    BY <1>0, <1>1, Going
<1> HIDE DEF h, i
<1>8. Inside("apply", h, i + 1, accountDB', txDB', records')
    BY <1>1, <1>3, <1>4, <1>5 DEF Inside, InsideIn, StepOf, Rows
<1> QED BY <1>1, <1>4, <1>6, <1>7, <1>8, ReplayGoesOn

\* All the block's transactions are done.
LEMMA ReplayInsertTxRecords ==
    ASSUME TypeInv, ReplayInv, crashes = 0, ~ overlapped, selfPaid = 0, NEW c \in Committers, InsertTxRecords(c)
    PROVE  ReplayInv'
<1> DEFINE h == block[c]
           i == done[c]
<1>0. IInv /\ StoreType /\ WorkInv
    BY DEF TypeInv
<1>1. /\ pc[c] = "apply" /\ i = Len(chain[h]) /\ pc' = [pc EXCEPT ![c] = "increase"]
      /\ records' = records \cup {<<t, h>> : t \in Range(chain[h])}
      /\ UNCHANGED <<chain, accountDB, txDB, block, done>>
    BY DEF InsertTxRecords, Goto
<1>2. Busy(c, h, i)
    BY <1>1, BusyWith
<1>3. accountDB = StepOf(h, i).balance /\ txDB = StepOf(h, i).txs /\ records = Rows(h - 1)
    BY <1>1, <1>2 DEF Busy, Inside, InsideIn, StepOf, Rows
<1>4. h \in 1 .. MaxHeight /\ \A d \in Committers : d # c => pc[d] \notin Committing
    BY <1>2 DEF Busy
<1>5. StepOf(h, i) = Replay(h)
    BY <1>0, <1>1, <1>4, StepOfDef DEF StoreType
<1>6. records' = Rows(h)
    <2>1. h \in Nat \ {0}
        BY <1>4
    <2> QED BY <1>1, <1>3, <2>1, RowsOf
<1>7. pc'[c] = "increase" /\ \A d \in Committers : d # c => pc'[d] = pc[d]
    BY <1>0, <1>1, Going
<1> HIDE DEF h, i
<1>8. Inside("increase", h, i, accountDB', txDB', records')
    BY <1>1, <1>3, <1>5, <1>6 DEF Inside, InsideIn, AtIn, Replay, Rows
<1> QED BY <1>1, <1>4, <1>7, <1>8, ReplayGoesOn DEF h, i

\* A committer that has executed its block.
Executed == Committing \ (Statement \ {"increase"})

\* What comes after that writes nothing of the ledger.
LEMMA ReplayExecuted ==
    ASSUME TypeInv, ReplayInv, crashes = 0, ~ overlapped, selfPaid = 0, NEW c \in Committers, NEW s \in Executed,
           pc[c] \in Executed, pc' = [pc EXCEPT ![c] = s],
           UNCHANGED <<chain, accountDB, txDB, records, block, done>>
    PROVE  ReplayInv'
<1>1. pc'[c] = s /\ \A d \in Committers : d # c => pc'[d] = pc[d]
    BY Going DEF TypeInv
<1>2. Busy(c, block[c], done[c])
    BY BusyWith DEF Executed
<1>3. AtIn(chain, block[c], accountDB, txDB, records)
    BY <1>2 DEF Busy, Inside, InsideIn, Executed
<1>4. Inside(s, block[c], done[c], accountDB, txDB, records)
    BY <1>3 DEF Inside, InsideIn, Executed
<1>5. pc'[c] \in Committing
    BY <1>1 DEF Executed
<1> QED BY <1>1, <1>2, <1>4, <1>5, ReplayGoesOn DEF Busy

\* The block is committed.
LEMMA ReplayEnds ==
    ASSUME TypeInv, ReplayInv, crashes = 0, ~ overlapped, selfPaid = 0, NEW c \in Committers,
           UpdateLastWorldState(c)
    PROVE  ReplayInv'
<1>0. IInv
    BY DEF TypeInv
<1>1. /\ pc[c] = "meta" /\ pc' = [pc EXCEPT ![c] = "idle"]
      /\ UNCHANGED <<chain, accountDB, txDB, records, blockNum>>
    BY DEF UpdateLastWorldState, Leave, ws
<1>2. pc'[c] = "idle" /\ \A d \in Committers : d # c => pc'[d] = pc[d]
    BY <1>0, <1>1, Going
<1>3. Busy(c, block[c], done[c])
    BY <1>1, BusyWith
<1>4. AtIn(chain, block[c], accountDB, txDB, records)
    BY <1>1, <1>3 DEF Busy, Inside, InsideIn
<1>5. blockNum = block[c]
    BY <1>0, <1>1 DEF IInv, Ordered, CommitOrder
<1>6. At(blockNum', accountDB', txDB', records')
    BY <1>1, <1>4, <1>5 DEF At
<1>7. \A d \in Committers : pc'[d] \notin Committing
    BY <1>2, <1>3 DEF Busy
<1> QED BY <1>1, <1>6, <1>7, ReplaySettles

\* The node begins to run, with the ledger its configuration gives.
LEMMA ReplayRuns ==
    ASSUME TypeInv, BootInv, Run, Running', crashes = 0
    PROVE  ReplayInv'
<1>0. IInv /\ StoreType
    BY DEF TypeInv
<1>1. /\ phase = "loadAccounts" /\ done["chain"] = Len(AccountCfg)
      /\ UNCHANGED <<chain, accountDB, txDB, records, pc>>
      /\ blockNum' = metaDB
    BY DEF Run, GetBlockMeta, BootInv, disk
<1>2. \A c \in Committers : pc'[c] \notin Committing
    BY <1>0, <1>1 DEF IInv, NotRunning
<1>3. metaDB = 0 /\ accountDB = Genesis.balance /\ txDB = Genesis.txs /\ records = {}
    BY <1>1 DEF BootInv, Genesis
<1>4. Replay(0) = Genesis /\ Rows(0) = {}
    BY <1>0, DecidedBlocks, ReplaysDef, RowsOf DEF StoreType
<1>5. At(0, accountDB, txDB, records)
    BY <1>3, <1>4 DEF At, AtIn, Replay, Rows
<1> QED BY <1>1, <1>2, <1>3, <1>5, ReplaySettles

\* A step of a goroutine outside CommitBlock.
LEMMA ReplayOutside ==
    ASSUME TypeInv, ReplayInv, ~ overlapped, selfPaid = 0,
           UNCHANGED <<chain, accountDB, txDB, records, blockNum, phase, crashes, block, done>>,
           NEW c \in Committers, NEW s, pc' = [pc EXCEPT ![c] = s],
           pc[c] \notin Committing, s \notin Committing
    PROVE  ReplayInv'
<1>1. pc'[c] = s /\ \A d \in Committers : d # c => pc'[d] = pc[d]
    BY Going DEF TypeInv
<1>2. \A d \in Committers : pc[d] \in Committing \/ pc'[d] \in Committing =>
          pc'[d] = pc[d] /\ block'[d] = block[d] /\ done'[d] = done[d]
    BY <1>1
<1> QED BY <1>2, ReplayStays

\* CommitBlock is not entered.
LEMMA ReplayFails ==
    ASSUME TypeInv, ReplayInv, ~ overlapped, selfPaid = 0,
           UNCHANGED <<chain, accountDB, txDB, records, blockNum, phase, crashes>>,
           NEW c \in Committers, Leave(c), pc[c] \notin Committing
    PROVE  ReplayInv'
<1>1. pc'[c] = "idle" /\ \A d \in Committers : d # c => pc'[d] = pc[d]
    BY Going DEF TypeInv, Leave
<1>2. \A d \in Committers : d # c => block'[d] = block[d] /\ done'[d] = done[d]
    BY DEF Leave, TypeInv, IInv, Values, WorkInv
<1>3. \A d \in Committers : pc[d] \in Committing \/ pc'[d] \in Committing =>
          pc'[d] = pc[d] /\ block'[d] = block[d] /\ done'[d] = done[d]
    BY <1>1, <1>2
<1> QED BY <1>3, ReplayStays

\* Every statement of CommitBlock.
LEMMA ReplayCommits ==
    ASSUME TypeInv, CacheInv, HandInv, ReplayInv, crashes = 0, ~ overlapped, selfPaid = 0,
           NEW c \in Committers, CommitStep(c)
    PROVE  ReplayInv'
<1>1. CASE ExecSender(c)
    BY <1>1, ReplaySender
<1>2. CASE ExecTransfer(c)
    BY <1>2, ReplayTransfer
<1>3. CASE InsertSender(c)
    BY <1>3, ReplayInsertSender
<1>4. CASE InsertRecipient(c)
    BY <1>4, ReplayInsertRecipient
<1>5. CASE InsertTx(c)
    BY <1>5, ReplayInsertTx
<1>6. CASE InsertTxRecords(c)
    BY <1>6, ReplayInsertTxRecords
<1>7. CASE IncreaseBlockNum(c)
    <2>1. /\ pc[c] \in Executed /\ pc' = [pc EXCEPT ![c] = "setValue"] /\ "setValue" \in Executed
          /\ UNCHANGED <<chain, accountDB, txDB, records, block, done>>
        BY <1>7 DEF IncreaseBlockNum, Goto, disk, Executed
    <2> QED BY <2>1, ReplayExecuted
<1>8. CASE SetValue(c)
    <2>1. /\ pc[c] \in Executed /\ pc' = [pc EXCEPT ![c] = "block"] /\ "block" \in Executed
          /\ UNCHANGED <<chain, accountDB, txDB, records, block, done>>
        BY <1>8 DEF SetValue, Goto, disk, Executed
    <2> QED BY <2>1, ReplayExecuted
<1>9. CASE InsertBlock(c)
    <2>1. /\ pc[c] \in Executed /\ pc' = [pc EXCEPT ![c] = "number"] /\ "number" \in Executed
          /\ UNCHANGED <<chain, accountDB, txDB, records, block, done>>
        BY <1>9 DEF InsertBlock, Goto, Executed
    <2> QED BY <2>1, ReplayExecuted
<1>10. CASE InsertNumber(c)
    <2>1. /\ pc[c] \in Executed /\ pc' = [pc EXCEPT ![c] = "meta"] /\ "meta" \in Executed
          /\ UNCHANGED <<chain, accountDB, txDB, records, block, done>>
        BY <1>10 DEF InsertNumber, Goto, Executed
    <2> QED BY <2>1, ReplayExecuted
<1>11. CASE UpdateLastWorldState(c)
    BY <1>11, ReplayEnds
<1> QED BY <1>1, <1>2, <1>3, <1>4, <1>5, <1>6, <1>7, <1>8, <1>9, <1>10, <1>11 DEF CommitStep

\* The daemon's steps outside CommitBlock.
LEMMA ReplayDaemon ==
    ASSUME TypeInv, ReplayInv, crashes = 0, ~ overlapped, selfPaid = 0, Running',
           \/ Poll \/ MigrateNotStarted \/ MigrateCommitting \/ EnterFinished
           \/ MigrateFinished \/ MigrateViewChanging
    PROVE  ReplayInv'
<1>0. IInv /\ StoreType /\ "daemon" \in Committers
    BY DEF TypeInv
<1>1. /\ pc["daemon"] \in {"idle", "migrate", "enterFinished"}
      /\ UNCHANGED <<chain, accountDB, txDB, records, crashes>>
    BY DEF Poll, MigrateNotStarted, MigrateCommitting, EnterFinished, MigrateFinished,
           MigrateViewChanging, disk
<1>2. CASE ~ MigrateFinished
    <2>1. /\ UNCHANGED <<blockNum, phase, block, done>>
          /\ \E s \in {"migrate", "idle", "enterFinished"} : pc' = [pc EXCEPT !["daemon"] = s]
        BY <1>2 DEF Poll, MigrateNotStarted, MigrateCommitting, EnterFinished,
               MigrateViewChanging, Goto, disk, ws
    <2>2. PICK s \in {"migrate", "idle", "enterFinished"} : pc' = [pc EXCEPT !["daemon"] = s]
        BY <2>1
    <2>3. s \notin Committing /\ pc["daemon"] \notin Committing
        BY <1>1
    <2> QED BY <1>0, <1>1, <2>1, <2>2, <2>3, ReplayOutside
<1>3. CASE MigrateFinished
    <2>1. /\ received # 0 /\ pc["daemon"] = "migrate" /\ state = "Finished"
          /\ UNCHANGED <<blockNum, phase>>
        BY <1>3 DEF MigrateFinished, ws
    <2>2. CASE Extends(received)
        <3>1. Begin("daemon", received) /\ received = blockNum + 1
            BY <1>3, <2>1, <2>2 DEF MigrateFinished, Extends
        <3>2. \A d \in Committers : pc[d] \notin Committing
            BY <1>0, <2>1 DEF IInv, Ordered, Apart
        <3>3. received \in 1 .. MaxHeight /\ Running
            BY <1>0, <2>1, LedgerAssumption DEF IInv, Values, NotRunning
        <3> QED BY <1>0, <1>1, <3>1, <3>2, <3>3, ReplayBegins
    <2>3. CASE ~ Extends(received)
        <3>1. Leave("daemon")
            BY <1>3, <2>1, <2>3 DEF MigrateFinished, Fail
        <3> QED BY <1>0, <1>1, <2>1, <3>1, ReplayFails
    <2> QED BY <2>2, <2>3
<1> QED BY <1>2, <1>3

\* And the blockchain module's.
LEMMA ReplayBlockChain ==
    ASSUME TypeInv, ReplayInv, crashes = 0, ~ overlapped, selfPaid = 0, ~ overlapped',
           \/ \E h \in 1 .. MaxHeight : CommitFiled(h) \/ Download(h)
           \/ StartEngine \/ StopEngine \/ EndStop
    PROVE  ReplayInv'
<1>0. IInv /\ StoreType /\ "chain" \in Committers
    BY DEF TypeInv
<1>1. UNCHANGED <<chain, accountDB, txDB, records, crashes, blockNum, phase>>
    BY DEF CommitFiled, Download, StartEngine, StopEngine, EndStop, disk, ws
<1>2. ASSUME NEW h \in 1 .. MaxHeight, CommitFiled(h) PROVE ReplayInv'
    <2>1. CASE UNCHANGED <<pc, block, done>>
        BY <1>1, <2>1, ReplayStays
    <2>2. CASE Extends(h) /\ Begin("chain", h) /\ overlapped' = (overlapped \/ DaemonAtWork)
        <3>1. h = blockNum + 1 /\ Running /\ pc["chain"] = "idle"
            BY <1>2, <2>2 DEF CommitFiled, Extends
        <3>2. ~ DaemonAtWork
            BY <2>2, Zenon
        <3>3. \A d \in Committers : pc[d] \notin Committing
            BY <3>1, <3>2 DEF DaemonAtWork
        <3> QED BY <1>0, <1>1, <2>2, <3>1, <3>3, ReplayBegins
    <2> QED BY <1>2, <2>1, <2>2 DEF CommitFiled
<1>3. CASE StartEngine \/ \E h \in 1 .. MaxHeight : Download(h)
    <2>1. UNCHANGED <<pc, block, done>>
        BY <1>3 DEF StartEngine, Download, exec
    <2> QED BY <1>1, <2>1, ReplayStays
<1>4. CASE StopEngine
    <2>1. pc' = [pc EXCEPT !["chain"] = "stop"] /\ pc["chain"] = "idle" /\ UNCHANGED <<block, done>>
        BY <1>4 DEF StopEngine, Goto
    <2>2. "stop" \notin Committing /\ pc["chain"] \notin Committing
        BY <2>1
    <2> QED BY <1>0, <1>1, <2>1, <2>2, ReplayOutside
<1>5. CASE EndStop
    <2>1. pc' = [pc EXCEPT !["chain"] = "idle"] /\ pc["chain"] = "stop" /\ UNCHANGED <<block, done>>
        BY <1>5 DEF EndStop, Goto
    <2>2. "idle" \notin Committing /\ pc["chain"] \notin Committing
        BY <2>1
    <2> QED BY <1>0, <1>1, <2>1, <2>2, ReplayOutside
<1> QED BY <1>2, <1>3, <1>4, <1>5

\* Every step keeps ReplayInv.
LEMMA ReplayStep ==
    ASSUME TypeInv, BootInv, CacheInv, HandInv, ReplayInv, [Next]_vars
    PROVE  ReplayInv'
<1> SUFFICES ASSUME crashes' = 0, ~ overlapped', selfPaid' = 0, Running' PROVE ReplayInv'
    BY DEF ReplayInv
<1>0. IInv /\ StoreType /\ ~ overlapped /\ selfPaid = 0
    BY MetForever, PaidStep DEF TypeInv
<1>1. CASE Run
    <2>1. crashes = 0
        BY <1>1 DEF Run
    <2> QED BY <1>1, <2>1, ReplayRuns
<1>2. CASE (Boot /\ ~ Run) \/ Crash \/ Restart
    <2>1. ~ Running'
        BY <1>2 DEF Boot, SetGenesisNumber, SetGenesisBlock, SetGenesisMeta, LoadAccount, Crash, Restart,
           GetBlockByNum
    <2> QED BY <2>1
<1>3. CASE Daemon \/ BlockChain \/ \E h \in 1 .. MaxHeight : Download(h)
    <2>1. crashes = 0
        <3>1. ASSUME NEW c \in Committers, CommitStep(c) PROVE crashes' = crashes
            BY <3>1 DEF CommitStep, ExecSender, ExecTransfer, InsertSender, InsertRecipient,
                    InsertTx, InsertTxRecords, IncreaseBlockNum, SetValue, InsertBlock,
                    InsertNumber, UpdateLastWorldState
        <3>2. CASE CommitStep("daemon") \/ CommitStep("chain")
            BY <3>1, <3>2
        <3>3. CASE ~ (CommitStep("daemon") \/ CommitStep("chain"))
            BY <1>3, <3>3 DEF Daemon, BlockChain, Poll, MigrateNotStarted, MigrateCommitting,
               EnterFinished, MigrateFinished, MigrateViewChanging, CommitFiled, StartEngine,
               StopEngine, EndStop, Download
        <3> QED BY <3>2, <3>3
    <2>2. ASSUME NEW c \in Committers, CommitStep(c) PROVE ReplayInv'
        BY <1>0, <2>1, <2>2, ReplayCommits
    <2>3. CASE Daemon
        BY <1>0, <2>1, <2>2, <2>3, ReplayDaemon DEF Daemon
    <2>4. CASE BlockChain
        BY <1>0, <2>1, <2>2, <2>4, ReplayBlockChain DEF BlockChain
    <2>5. CASE \E h \in 1 .. MaxHeight : Download(h)
        BY <1>0, <2>1, <2>5, ReplayBlockChain
    <2> QED BY <1>3, <2>3, <2>4, <2>5
<1>4. CASE UNCHANGED vars
    <2>1. UNCHANGED <<chain, accountDB, txDB, records, blockNum, phase, crashes, pc, block, done>>
        BY <1>4 DEF vars, disk, ws, exec
    <2> QED BY <1>0, <2>1, ReplayStays
<1> QED BY <1>1, <1>2, <1>3, <1>4 DEF Next

\* What the ledger theorems rest on.
LedgerInv == TypeInv /\ BootInv /\ CacheInv /\ HeightInv /\ HandInv /\ ReplayInv

\* A node without data satisfies it.
LEMMA InitLedger == Init => LedgerInv
<1> SUFFICES ASSUME Init PROVE LedgerInv
    OBVIOUS
<1>1. \A c \in Committers : pc[c] = "idle"
    BY DEF Init
<1>2. DOMAIN cache = {} /\ blockNum = blockID /\ ~ Running
    BY DEF Init
<1> QED BY <1>1, <1>2, InitType, InitBoot
    DEF LedgerInv, CacheInv, HeightInv, HandInv, InHandOf, ReplayInv

\* Every step keeps it.
LEMMA LedgerStep == LedgerInv /\ [Next]_vars => LedgerInv'
<1> SUFFICES ASSUME LedgerInv, [Next]_vars PROVE LedgerInv'
    OBVIOUS
<1>1. TypeInv /\ BootInv /\ CacheInv /\ HeightInv /\ HandInv /\ ReplayInv /\ IInv
    BY DEF LedgerInv, TypeInv
<1>2. TypeInv'
    BY <1>1, TypeStep
<1>3. BootInv' /\ CacheInv' /\ HeightInv'
    BY <1>1, BootStep, CacheStep, HeightStep
<1>4. HandInv'
    BY <1>1, HandStep
<1>5. ReplayInv'
    BY <1>1, ReplayStep
<1> QED BY <1>2, <1>3, <1>4, <1>5 DEF LedgerInv

\* It holds always.
THEOREM LedgerInvariance == Spec => []LedgerInv
BY InitLedger, LedgerStep, PTL DEF Spec

\* Between blocks.
LEMMA BetweenBlocks ==
    ASSUME LedgerInv, \A c \in Committers : block[c] = 0
    PROVE  /\ \A c \in Committers : pc[c] \notin Committing
           /\ blockNum = blockID
           /\ \A a \in DOMAIN cache : cache[a] = accountDB[a]
           /\ \A a \in Address : GetAccountByID(a) = accountDB[a]
<1>0. WorkInv /\ AccountInv /\ CacheInv /\ HeightInv
    BY DEF LedgerInv, TypeInv
<1>1. \A c \in Committers : pc[c] \notin Committing
    BY <1>0 DEF WorkInv
<1>2. blockNum = blockID
    BY <1>0, <1>1 DEF HeightInv
<1>3. \A c \in Committers : pc[c] \notin {"debit", "credit"}
    BY <1>1
<1> QED BY <1>0, <1>1, <1>2, <1>3, ReadAsStored

\* It implies that the ledger is the replay.
LEMMA LedgerInvReplay == LedgerInv => LedgerIsReplay
<1> SUFFICES ASSUME LedgerInv, Running, crashes = 0, ~ overlapped, selfPaid = 0,
                    \A c \in Committers : block[c] = 0
             PROVE  /\ accountDB = Replay(blockNum).balance
                    /\ \A a \in DOMAIN cache : cache[a] = accountDB[a]
                    /\ txDB = Replay(blockNum).txs
                    /\ records = UNION {{<<t, h>> : t \in Range(chain[h])} : h \in 1 .. blockNum}
    BY DEF LedgerIsReplay
<1>1. At(blockNum, accountDB, txDB, records)
    BY BetweenBlocks DEF LedgerInv, ReplayInv
<1>2. \A a \in DOMAIN cache : cache[a] = accountDB[a]
    BY BetweenBlocks
<1> QED BY <1>1, <1>2 DEF At, AtIn, RowsIn, Replay

\* Without a crash, when the committers keep apart and until an account pays
\* itself, the databases between blocks are those of the decided blocks replayed
\* by their evaluation: Exec does to the store, through a cache that shares and
\* evicts objects, what Eval did to a snapshot (vm.go:25-188).
THEOREM ReplayCorrect == Spec => []LedgerIsReplay
BY LedgerInvariance, LedgerInvReplay, PTL

\* The transactions of more blocks are more.
LEMMA TxsGrow ==
    ASSUME NEW g \in Int, NEW h \in Int, g <= h PROVE TxsUpTo(g) \subseteq TxsUpTo(h)
<1>1. 1 .. g \subseteq 1 .. h
    OBVIOUS
<1> QED BY <1>1 DEF TxsUpTo

\* Every step leaves no more than one block half executed.
LEMMA HalfDoneStep ==
    ASSUME TypeInv, BootInv, OneBlockIsHalfDone, [Next]_vars PROVE OneBlockIsHalfDone'
<1> SUFFICES ASSUME ~ overlapped'
             PROVE  (IF metaDB = None THEN txDB = {}
                     ELSE txDB \subseteq TxsUpTo(IF metaDB < MaxHeight THEN metaDB + 1 ELSE MaxHeight))'
    BY DEF OneBlockIsHalfDone
<1>0. /\ IInv /\ StoreType /\ WorkInv /\ ~ overlapped /\ MaxHeight \in Nat /\ None \notin Int
      /\ IF metaDB = None THEN txDB = {}
         ELSE txDB \subseteq TxsUpTo(IF metaDB < MaxHeight THEN metaDB + 1 ELSE MaxHeight)
    BY MetForever, LedgerAssumption DEF TypeInv, OneBlockIsHalfDone
<1>1. CASE UNCHANGED <<chain, metaDB, txDB>>
    BY <1>0, <1>1 DEF TxsUpTo
<1>2. CASE SetGenesisMeta
    <2>1. txDB' = {} /\ metaDB' # None
        BY <1>0, <1>2 DEF SetGenesisMeta, BootInv
    <2> QED BY <2>1
<1>3. ASSUME NEW c \in Committers, pc[c] \in Committing
      PROVE  /\ block[c] \in 1 .. MaxHeight /\ block[c] = metaDB + 1
             /\ metaDB \in 0 .. (MaxHeight - 1) /\ metaDB # None
    <2>1. block[c] \in 1 .. MaxHeight
        <3>1. block[c] # 0 /\ block[c] \in 0 .. MaxHeight
            BY <1>0, <1>3 DEF IInv, Values, WorkInv
        <3> QED BY <1>0, <3>1
    <2>2. Running
        BY <1>0, <1>3 DEF IInv, NotRunning
    <2>3. metaDB # None /\ block[c] = metaDB + 1
        BY <1>0, <1>3, <2>2 DEF IInv, Ordered, GenesisOrder, CommitOrder
    <2>4. metaDB \in 0 .. (MaxHeight + 1)
        BY <1>0, <2>3 DEF StoreType
    <2> QED BY <1>0, <2>1, <2>3, <2>4
<1>4. ASSUME NEW c \in Committers, InsertTx(c)
      PROVE  /\ metaDB' # None
             /\ txDB' \subseteq TxsUpTo(IF metaDB < MaxHeight THEN metaDB + 1 ELSE MaxHeight)'
    <2>1. /\ pc[c] = "record" /\ UNCHANGED <<chain, metaDB>> /\ txDB' = txDB \cup {Current(c)}
        BY <1>4 DEF InsertTx
    <2>2. /\ block[c] \in 1 .. MaxHeight /\ block[c] = metaDB + 1
          /\ metaDB \in 0 .. (MaxHeight - 1) /\ metaDB # None
        BY <1>3, <2>1
    <2>3. (IF metaDB < MaxHeight THEN metaDB + 1 ELSE MaxHeight) = block[c]
        BY <1>0, <2>2
    <2>4. Current(c) \in Range(chain[block[c]])
        <3>1. done[c] \in Nat /\ done[c] < Len(chain[block[c]])
            BY <1>0, <2>1 DEF WorkInv
        <3>2. chain[block[c]] \in Seq(Tx)
            BY <1>0, <2>2, StepOfDef DEF StoreType
        <3> DEFINE q == chain[block[c]]
        <3>3. done[c] + 1 \in DOMAIN q
            BY <3>1, <3>2
        <3> HIDE DEF q
        <3>4. q[done[c] + 1] \in Range(q)
            BY <3>3 DEF Range
        <3> QED BY <3>4 DEF q, Current
    <2>5. block[c] \in 1 .. block[c]
        BY <2>2
    <2>6. Current(c) \in TxsUpTo(block[c])
        BY <2>4, <2>5 DEF TxsUpTo
    <2>7. txDB' \subseteq TxsUpTo(block[c])
        BY <1>0, <2>1, <2>2, <2>3, <2>6
    <2>8. TxsUpTo(IF metaDB < MaxHeight THEN metaDB + 1 ELSE MaxHeight)' = TxsUpTo(block[c])
        BY <2>1, <2>3 DEF TxsUpTo
    <2> QED BY <2>1, <2>2, <2>7, <2>8
<1>5. ASSUME NEW c \in Committers, UpdateLastWorldState(c)
      PROVE  /\ metaDB' # None
             /\ txDB' \subseteq TxsUpTo(IF metaDB < MaxHeight THEN metaDB + 1 ELSE MaxHeight)'
    <2>1. /\ pc[c] = "meta" /\ UNCHANGED <<chain, txDB>> /\ metaDB' = blockNum
        BY <1>5 DEF UpdateLastWorldState
    <2>2. /\ block[c] \in 1 .. MaxHeight /\ block[c] = metaDB + 1
          /\ metaDB \in 0 .. (MaxHeight - 1) /\ metaDB # None
        BY <1>3, <2>1
    <2>3. metaDB' = metaDB + 1
        BY <1>0, <2>1, <2>2 DEF IInv, Ordered, CommitOrder
    <2> DEFINE k == IF metaDB' < MaxHeight THEN metaDB' + 1 ELSE MaxHeight
    <2>4. k \in Int /\ metaDB + 1 <= k /\ metaDB + 1 \in Int /\ metaDB < MaxHeight /\ metaDB' # None
        BY <1>0, <2>2, <2>3
    <2>5. TxsUpTo(IF metaDB < MaxHeight THEN metaDB + 1 ELSE MaxHeight)' = TxsUpTo(k)
        BY <2>1 DEF TxsUpTo
    <2> HIDE DEF k
    <2>6. txDB \subseteq TxsUpTo(metaDB + 1)
        BY <1>0, <2>2, <2>4
    <2>7. TxsUpTo(metaDB + 1) \subseteq TxsUpTo(k)
        BY <2>4, TxsGrow
    <2> QED BY <2>1, <2>4, <2>5, <2>6, <2>7
<1>6. ASSUME NEW c \in Committers, CommitStep(c), ~ InsertTx(c), ~ UpdateLastWorldState(c)
      PROVE  UNCHANGED <<chain, metaDB, txDB>>
    BY <1>6 DEF CommitStep, ExecSender, ExecTransfer, InsertSender, InsertRecipient, InsertTxRecords,
       IncreaseBlockNum, SetValue, InsertBlock, InsertNumber, disk
<1>7. ASSUME NEW c \in Committers, CommitStep(c)
      PROVE  (IF metaDB = None THEN txDB = {}
              ELSE txDB \subseteq TxsUpTo(IF metaDB < MaxHeight THEN metaDB + 1 ELSE MaxHeight))'
    BY <1>1, <1>4, <1>5, <1>6, <1>7
<1>8. CASE CommitStep("daemon") \/ CommitStep("chain")
    BY <1>7, <1>8
<1>9. CASE ~ (CommitStep("daemon") \/ CommitStep("chain") \/ SetGenesisMeta)
    <2>1. UNCHANGED <<chain, metaDB, txDB>>
        BY <1>9 DEF Next, Boot, SetGenesisNumber, SetGenesisBlock, LoadAccount, Run, Crash, Restart,
           Daemon, Poll, MigrateNotStarted, MigrateCommitting, EnterFinished, MigrateFinished,
           MigrateViewChanging, BlockChain, CommitFiled, StartEngine, StopEngine, EndStop, Download,
           disk, vars
    <2> QED BY <1>1, <2>1
<1> QED BY <1>2, <1>8, <1>9

\* Wherever the process dies, and however often, the executed transactions are
\* those of stored blocks and of the one after block_meta's (block.go:70-111),
\* as long as the committers keep apart.
THEOREM HalfDoneCorrect == Spec => []OneBlockIsHalfDone
<1>1. Init => OneBlockIsHalfDone
    BY DEF Init, OneBlockIsHalfDone
<1>2. LedgerInv /\ LedgerInv' /\ OneBlockIsHalfDone /\ [Next]_vars => OneBlockIsHalfDone'
    BY HalfDoneStep DEF LedgerInv
<1> QED BY <1>1, <1>2, LedgerInvariance, PTL DEF Spec

(***************************************************************************)
(* Money.                                                                  *)
(***************************************************************************)

\* No address is configured twice.
ConfiguredOnce ==
    \A i, j \in 1 .. Len(AccountCfg) : AccountCfg[i].id = AccountCfg[j].id => i = j

\* The money when one balance changes.
LEMMA MoneyChanges ==
    ASSUME NEW b \in [Address -> Int \cup {None}]
    PROVE  /\ Money(b) \in Int
           /\ \A a \in Address, v \in Int : Money([b EXCEPT ![a] = v]) = Money(b) + (v - Worth(b[a]))
<1> DEFINE W(m) == [a \in Address |-> IF m[a] = None THEN 0 ELSE m[a]]
<1>1. W(b) \in [Address -> Int] /\ IsFiniteSet(Address)
    BY LedgerAssumption
<1>2. Money(b) = SumFunction(W(b))
    BY DEF Money
<1>3. ASSUME NEW a \in Address, NEW v \in Int
      PROVE  Money([b EXCEPT ![a] = v]) = Money(b) + (v - Worth(b[a]))
    <2>1. Money([b EXCEPT ![a] = v]) = SumFunction(W([b EXCEPT ![a] = v]))
        BY DEF Money
    <2>2. W([b EXCEPT ![a] = v]) = [W(b) EXCEPT ![a] = v]
        BY LedgerAssumption
    <2>3. W(b)[a] = Worth(b[a])
        BY DEF Worth
    <2> HIDE DEF W
    <2>4. SumFunction([W(b) EXCEPT ![a] = v]) = SumFunction(W(b)) + (v - W(b)[a])
        BY <1>1, SumOfUpdate
    <2> QED BY <1>2, <2>1, <2>2, <2>3, <2>4
<1> HIDE DEF W
<1>4. Money(b) \in Int
    BY <1>1, <1>2, SumOfUpdate
<1> QED BY <1>3, <1>4

\* While the configured accounts are loaded the money grows to what is issued.
LEMMA MoneyLoaded ==
    ASSUME ConfiguredOnce
    PROVE  /\ Issued \in Int
           /\ \A n \in 0 .. Len(AccountCfg) : Money(Configured(n)) <= Issued
<1> DEFINE len == Len(AccountCfg)
           T == {k \in Nat : k <= len => Money(Configured(len - k)) <= Issued}
<1>0. /\ len \in Nat
      /\ \A i \in 1 .. len : AccountCfg[i].id \in Address /\ AccountCfg[i].amount \in Nat
    <2> DEFINE R == [id : Address, amount : Nat]
    <2>1. AccountCfg \in Seq(R)
        BY LedgerAssumption
    <2> HIDE DEF R
    <2>2. \A i \in 1 .. Len(AccountCfg) : AccountCfg[i] \in R
        BY <2>1
    <2> QED BY <2>1, <2>2 DEF R
<1>1. \A n \in 0 .. len : Configured(n) \in [Address -> Int \cup {None}] /\ Money(Configured(n)) \in Int
    BY ConfiguredDef, MoneyChanges
<1>2. Issued = Money(Configured(len)) /\ len - 0 = len
    BY <1>0 DEF Issued, Genesis
<1>3. 0 \in T
    BY <1>0, <1>1, <1>2
<1>4. ASSUME NEW k \in T PROVE k + 1 \in T
    <2> SUFFICES ASSUME k + 1 <= len PROVE Money(Configured(len - (k + 1))) <= Issued
        OBVIOUS
    <2>1. PICK n \in 0 .. (len - 1) : n = len - (k + 1) /\ n + 1 = len - k
        BY <1>0
    <2> DEFINE x == AccountCfg[n + 1].id
               v == AccountCfg[n + 1].amount
    <2>2. n + 1 \in 1 .. len /\ n \in 0 .. len /\ n + 1 \in 0 .. len /\ x \in Address /\ v \in Nat
        BY <1>0, <2>1
    <2>3. Configured(n)[x] = None
        <3>1. \A i \in 1 .. n : i \in 1 .. len /\ i # n + 1
            BY <1>0, <2>1
        <3>2. {i \in 1 .. n : AccountCfg[i].id = x} = {}
            BY <2>2, <3>1 DEF ConfiguredOnce
        <3> QED BY <2>2, <3>2 DEF Configured
    <2>4. Configured(n + 1) = [Configured(n) EXCEPT ![x] = v]
        BY <2>1, ConfiguredDef
    <2> HIDE DEF x, v, len
    <2>5. Money(Configured(n + 1)) = Money(Configured(n)) + (v - 0)
        <3>1. Configured(n) \in [Address -> Int \cup {None}]
            BY <1>1, <2>2
        <3>2. \A a \in Address, m \in Int :
                 Money([Configured(n) EXCEPT ![a] = m]) = Money(Configured(n)) + (m - Worth(Configured(n)[a]))
            BY <3>1, MoneyChanges
        <3>3. v \in Int
            BY <2>2
        <3>4. Money([Configured(n) EXCEPT ![x] = v]) = Money(Configured(n)) + (v - Worth(Configured(n)[x]))
            BY <2>2, <3>2, <3>3
        <3> QED BY <2>3, <2>4, <3>4 DEF Worth
    <2>6. Money(Configured(n)) \in Int /\ Issued \in Int
        BY <1>0, <1>1, <1>2, <2>2
    <2>7. Money(Configured(n + 1)) <= Issued
        BY <1>0, <2>1
    <2> QED BY <2>1, <2>2, <2>5, <2>6, <2>7
<1> HIDE DEF T
<1>5. T = Nat
    BY <1>3, <1>4, EveryNatural DEF T
<1>6. ASSUME NEW n \in 0 .. len PROVE Money(Configured(n)) <= Issued
    <2>1. len - n \in T /\ len - n <= len /\ len - (len - n) = n
        BY <1>0, <1>5
    <2> QED BY <2>1 DEF T
<1> QED BY <1>0, <1>1, <1>2, <1>6

\* A recipient whose sender has paid is still owed what Exec holds for him, and
\* of an account that pays itself the amount may be one too many.
MoneyInv ==
    ~ overlapped =>
        /\ Supply <= Issued + selfPaid
        /\ \A c \in Committers : pc[c] = "debit" /\ Current(c).from = Current(c).to =>
              Supply + Current(c).amount <= Issued + selfPaid
        /\ \A c \in Committers : pc[c] = "credit" =>
              LET a == Current(c).to
              IN  Supply + (Value(recv[c], a) - Worth(accountDB[a])) <= Issued + selfPaid

\* No committer holds an account that MoneyInv speaks of, and the money is enough.
LEMMA MoneyEnough ==
    ASSUME Supply' <= Issued' + selfPaid', \A c \in Committers : pc'[c] \notin {"debit", "credit"}
    PROVE  MoneyInv'
BY DEF MoneyInv

\* Room that only grows.
LEMMA RoomGrows ==
    ASSUME NEW x \in Int, NEW i \in Int, NEW p \in Int, NEW q \in Int,
           x <= i + p, p <= q
    PROVE  x <= i + q
OBVIOUS

\* Every step keeps MoneyInv.
LEMMA MoneyStep ==
    ASSUME ConfiguredOnce, TypeInv, BootInv, HandInv, MoneyInv, [Next]_vars
    PROVE  MoneyInv'
<1> SUFFICES ASSUME ~ overlapped' PROVE MoneyInv'
    BY DEF MoneyInv
<1>0. /\ IInv /\ StoreType /\ WorkInv /\ AccountInv /\ ~ overlapped
      /\ accountDB \in [Address -> Int \cup {None}]
      /\ selfPaid \in Nat /\ selfPaid' \in Nat /\ selfPaid <= selfPaid'
    BY MetForever, PaidStep DEF TypeInv, AccountInv
<1>1. Supply \in Int /\ Issued \in Int /\ Issued' = Issued /\ Supply' = Money(accountDB')
    BY <1>0, MoneyChanges, MoneyLoaded DEF Supply
<1>2. Supply <= Issued + selfPaid
    BY <1>0 DEF MoneyInv
<1>13. /\ Supply \in Int /\ Issued \in Int
       /\ selfPaid \in Int /\ selfPaid' \in Int /\ selfPaid <= selfPaid'
    BY <1>0, <1>1
<1>10. ASSUME accountDB' = accountDB, \A c \in Committers : pc'[c] \notin {"debit", "credit"}
       PROVE  MoneyInv'
    <2>1. Supply' <= Issued' + selfPaid'
        BY <1>0, <1>1, <1>2, <1>10 DEF Supply
    <2> QED BY <1>10, <2>1, MoneyEnough
<1>3. CASE Quiet
    <2>1. Supply' = Supply /\ Supply' <= Issued' + selfPaid'
        BY <1>0, <1>1, <1>2, <1>3 DEF Quiet, Supply
    <2>2. ASSUME NEW c \in Committers, pc'[c] \in {"debit", "credit"}
          PROVE  /\ pc[c] = pc'[c] /\ Current(c)' = Current(c) /\ Current(c).amount \in Nat
                 /\ Current(c).to \in Address
                 /\ Value(recv[c], Current(c).to)' = Value(recv[c], Current(c).to)
                 /\ Value(recv[c], Current(c).to) \in Int
        <3>1. pc'[c] = pc[c] /\ block'[c] = block[c] /\ done'[c] = done[c]
            BY <1>3, <2>2 DEF Quiet, Holding
        <3>2. Current(c)' = Current(c)
            BY <1>3, <3>1, SameCurrent DEF Quiet
        <3>3. Current(c).amount \in Nat /\ Current(c).to \in Address
            BY <1>0, <2>2, <3>1, CurrentIsTx
        <3>4. Value(recv[c], Current(c).to) \in Int
            BY <1>0 DEF AccountInv, PointersOf, CacheType, Pointers, Value
        <3> QED BY <1>3, <3>1, <3>2, <3>3, <3>4 DEF Quiet, Value
    <2>3. ASSUME NEW c \in Committers, pc'[c] = "debit", (Current(c).from = Current(c).to)'
          PROVE  (Supply + Current(c).amount <= Issued + selfPaid)'
        <3>1. /\ pc[c] = "debit" /\ Current(c)' = Current(c) /\ Current(c).amount \in Nat
              /\ Supply + Current(c).amount <= Issued + selfPaid
            BY <1>0, <2>2, <2>3 DEF MoneyInv
        <3> QED BY <1>0, <1>1, <2>1, <3>1
    <2>4. ASSUME NEW c \in Committers, pc'[c] = "credit"
          PROVE  (Supply + (Value(recv[c], Current(c).to) - Worth(accountDB[Current(c).to]))
                    <= Issued + selfPaid)'
        <3> DEFINE v == Value(recv[c], Current(c).to)
                   w == Worth(accountDB[Current(c).to])
        <3>1. /\ pc[c] = "credit" /\ Current(c)' = Current(c) /\ v' = v /\ v \in Int
              /\ Current(c).to \in Address
            BY <2>2, <2>4
        <3>2. w \in Int /\ w' = w
            BY <1>0, <1>3, <3>1 DEF Worth, Quiet
        <3>3. Supply + (v - w) <= Issued + selfPaid
            BY <1>0, <3>1 DEF MoneyInv
        <3>5. v' = v /\ w' = w /\ v \in Int /\ w \in Int
            BY <3>1, <3>2
        <3> HIDE DEF v, w
        <3>6. Supply + (v - w) <= Issued + selfPaid'
            <4> DEFINE x == Supply + (v - w)
            <4>1. x \in Int /\ x <= Issued + selfPaid
                BY <1>13, <3>3, <3>5
            <4> HIDE DEF x
            <4>2. x <= Issued + selfPaid'
                BY <1>13, <4>1, RoomGrows
            <4> QED BY <4>2 DEF x
        <3>4. Supply' + (v' - w') <= Issued' + selfPaid'
            BY <1>1, <2>1, <3>5, <3>6
        <3> QED BY <3>4 DEF v, w
    <2> QED BY <2>1, <2>3, <2>4 DEF MoneyInv
<1>4. CASE LoadAccount
    <2>1. \A c \in Committers : pc'[c] = "idle"
        BY <1>0, <1>4 DEF IInv, NotRunning, LoadAccount
    <2>2. phase' = "loadAccounts" /\ BootInv'
        BY <1>4, BootStep DEF LoadAccount
    <2>3. accountDB' = Configured(done'["chain"]) /\ done'["chain"] <= Len(AccountCfg)
        BY <2>2 DEF BootInv
    <2>4. done'["chain"] \in 0 .. Len(AccountCfg)
        <3>1. WorkInv' /\ Len(AccountCfg) \in Nat
            BY <1>0, WorkStep, LedgerAssumption
        <3> QED BY <2>3, <3>1 DEF WorkInv
    <2>5. Supply' <= Issued /\ Supply' \in Int
        BY <1>1, <2>3, <2>4, MoneyLoaded, ConfiguredDef, MoneyChanges
    <2>6. Supply' <= Issued' + selfPaid'
        BY <1>0, <1>1, <2>5
    <2> QED BY <2>1, <2>6, MoneyEnough
<1>5. CASE Forgotten /\ UNCHANGED <<chain, accountDB>>
    <2>1. \A c \in Committers : pc'[c] = "idle"
        BY <1>5 DEF Forgotten
    <2> QED BY <1>5, <1>10, <2>1
<1>6. ASSUME NEW c \in Committers, TakesSender(c) PROVE MoneyInv'
    <2>1. /\ UNCHANGED accountDB /\ pc[c] = "apply" /\ pc' = [pc EXCEPT ![c] = "transfer"]
        BY <1>6 DEF TakesSender, ExecSender, AtTx, Goto, disk
    <2>2. pc'[c] = "transfer" /\ \A d \in Committers : d # c => pc'[d] = pc[d]
        BY <1>0, <2>1, Going
    <2>3. \A d \in Committers : d # c => pc[d] \notin Committing
        BY <1>0, <2>1, OneCommits
    <2>4. \A d \in Committers : pc'[d] \notin {"debit", "credit"}
        BY <2>2, <2>3
    <2> QED BY <1>10, <2>1, <2>4
<1>7. ASSUME NEW c \in Committers, ExecTransfer(c) PROVE MoneyInv'
    <2> DEFINE t == Current(c)
    <2>1. /\ UNCHANGED <<chain, accountDB, block, done>> /\ pc[c] = "transfer"
          /\ pc' = [pc EXCEPT ![c] = "debit"]
          /\ selfPaid' = selfPaid + (IF t.from = t.to THEN t.amount ELSE 0)
        BY <1>7 DEF ExecTransfer, Goto, disk
    <2>2. pc'[c] = "debit" /\ \A d \in Committers : d # c => pc'[d] = pc[d]
        BY <1>0, <2>1, Going
    <2>3. Current(c)' = t /\ t.amount \in Nat
        BY <1>0, <2>1, SameCurrent, CurrentIsTx
    <2>4. \A d \in Committers : d # c => pc'[d] \notin Committing
        BY <1>0, <2>1, <2>2, OneCommits
    <2> HIDE DEF t
    <2>5. Supply' = Supply /\ Supply' <= Issued' + selfPaid'
        BY <1>0, <1>1, <1>2, <2>1 DEF Supply
    <2>6. t.from = t.to => Supply' + t.amount <= Issued' + selfPaid'
        BY <1>0, <1>1, <1>2, <2>1, <2>3, <2>5
    <2> QED BY <2>2, <2>3, <2>4, <2>5, <2>6 DEF MoneyInv
<1>8. ASSUME NEW c \in Committers, InsertSender(c) PROVE MoneyInv'
    <2> DEFINE t == Current(c)
               b == accountDB[t.from]
               v == Value(account[c], t.from)
               w == Worth(accountDB[t.to])
               r == Value(recv[c], t.to)
    <2>1. /\ pc[c] = "debit" /\ Moved(c, "credit") /\ t.from \in Address /\ t.to \in Address
          /\ t.amount \in Nat
        BY <1>0, <1>8, SenderInserted, LedgerAssumption
    <2>2. PICK gone : Inserts(c, t.from, account[c], gone)
        BY <1>0, <1>8, SenderInserted
    <2>3. /\ accountDB' = [accountDB EXCEPT ![t.from] = v] /\ v \in Int
          /\ recv'[c] = Kept(recv[c], t.to, gone)
        BY <2>1, <2>2 DEF Inserts
    <2>4. /\ b \in Int /\ v <= b /\ r <= w + t.amount
          /\ ~ SelfPays(t) => v = b - t.amount
          /\ ~ SelfPays(t) => r = w + t.amount
        BY <1>0, <2>1 DEF HandInv, InHandOf
    <2>5. r \in Int /\ w \in Int
        BY <1>0, <2>1 DEF AccountInv, PointersOf, CacheType, Pointers, Value, Worth
    <2>6. r' = r
        <3>1. Still(recv[c], Kept(recv[c], t.to, gone), t.to, gone)
            BY <1>0, <1>8, <2>2, SenderInserted, HoldersKeep
        <3>2. Current(c)' = Current(c)
            BY <2>1 DEF Moved
        <3> QED BY <2>3, <3>1, <3>2 DEF Value, Still
    <2>7. /\ pc'[c] = "credit" /\ Current(c)' = t
          /\ \A d \in Committers : d # c => pc'[d] \notin Committing
        BY <1>0, <2>1, OneCommits DEF Moved
    <2>8. Supply' = Supply + (v - b)
        <3>1. Worth(b) = b
            BY <2>4, LedgerAssumption DEF Worth
        <3> HIDE DEF v, b, t
        <3>2. Money([accountDB EXCEPT ![t.from] = v]) = Money(accountDB) + (v - Worth(accountDB[t.from]))
            BY <1>0, <2>1, <2>3, MoneyChanges
        <3> QED BY <1>1, <2>3, <3>1, <3>2 DEF Supply, b
    <2> DEFINE x == Worth(accountDB'[t.to])
    <2>9. IF t.from = t.to THEN x = v /\ w = b ELSE x = w
        <3>1. CASE t.from = t.to
            <4>1. accountDB'[t.to] = v
                BY <1>0, <2>1, <2>3, <3>1
            <4> QED BY <2>3, <2>4, <3>1, <4>1, LedgerAssumption DEF Worth
        <3>2. CASE t.from # t.to
            <4>1. accountDB'[t.to] = accountDB[t.to]
                BY <1>0, <2>1, <2>3, <3>2
            <4> QED BY <3>2, <4>1
        <3> QED BY <3>1, <3>2
    <2>10. t.from = t.to => Supply + t.amount <= Issued + selfPaid
        BY <1>0, <2>1 DEF MoneyInv
    <2>11. t.from # t.to => v = b - t.amount /\ r = w + t.amount
        BY <2>4 DEF SelfPays
    <2>12. Current(c).to' = t.to /\ (Value(recv[c], Current(c).to))' = r /\ Worth(accountDB[Current(c).to])' = x
        BY <2>6, <2>7
    <2> HIDE DEF b, v, w, r, x
    <2>13. Supply' <= Issued' + selfPaid'
        <3>1. v \in Int /\ b \in Int /\ v <= b
            BY <2>3, <2>4
        <3>2. Supply + (v - b) <= Issued + selfPaid'
            <4> DEFINE z == Supply + (v - b)
            <4>1. z \in Int /\ z <= Issued + selfPaid
                BY <1>2, <1>13, <3>1
            <4> HIDE DEF z
            <4>2. z <= Issued + selfPaid'
                BY <1>13, <4>1, RoomGrows
            <4> QED BY <4>2 DEF z
        <3> QED BY <1>1, <2>8, <3>2
    <2>14. Supply' + (r - x) <= Issued' + selfPaid'
        <3> HIDE DEF t
        <3>1. CASE t.from = t.to
            <4>1. Supply' + (r - x) = Supply + (r - w) /\ r - w <= t.amount
                BY <1>1, <2>1, <2>3, <2>4, <2>5, <2>8, <2>9, <3>1
            <4> QED BY <1>0, <1>1, <2>1, <2>5, <2>10, <3>1, <4>1
        <3>2. CASE t.from # t.to
            <4>1. Supply' + (r - x) = Supply
                BY <1>1, <2>1, <2>4, <2>5, <2>8, <2>9, <2>11, <3>2
            <4> QED BY <1>0, <1>1, <1>2, <4>1
        <3> QED BY <3>1, <3>2
    <2>15. (Supply + (Value(recv[c], Current(c).to) - Worth(accountDB[Current(c).to])) <= Issued + selfPaid)'
        BY <2>12, <2>14
    <2>16. \A d \in Committers : pc'[d] # "debit" /\ (pc'[d] = "credit" => d = c)
        BY <2>7
    <2> QED BY <2>13, <2>15, <2>16 DEF MoneyInv
<1>9. ASSUME NEW c \in Committers, InsertRecipient(c) PROVE MoneyInv'
    <2> DEFINE t == Current(c)
               v == Value(recv[c], t.to)
    <2>1. pc[c] = "credit" /\ Moved(c, "record") /\ t.to \in Address
        BY <1>0, <1>9, RecipientInserted
    <2>2. accountDB' = [accountDB EXCEPT ![t.to] = v] /\ v \in Int
        BY <1>0, <1>9, RecipientInserted DEF Inserts
    <2>3. \A d \in Committers : d # c => pc[d] \notin Committing
        BY <1>0, <2>1, OneCommits
    <2>4. Supply + (v - Worth(accountDB[t.to])) <= Issued + selfPaid
        BY <1>0, <2>1 DEF MoneyInv
    <2>5. \A d \in Committers : pc'[d] \notin {"debit", "credit"}
        BY <2>1, <2>3 DEF Moved
    <2> HIDE DEF t, v
    <2>6. Supply' = Supply + (v - Worth(accountDB[t.to]))
        BY <1>0, <1>1, <2>1, <2>2, MoneyChanges DEF Supply
    <2>7. Worth(accountDB[t.to]) \in Int
        BY <1>0, <2>1 DEF Worth
    <2>8. Supply' <= Issued' + selfPaid'
        BY <1>0, <1>1, <2>2, <2>4, <2>6, <2>7
    <2> QED BY <2>5, <2>8, MoneyEnough
<1> QED BY <1>0, <1>3, <1>4, <1>5, <1>6, <1>7, <1>8, <1>9, Moves DEF Touches

\* A node without data has no money.
LEMMA InitMoney == ConfiguredOnce /\ Init => MoneyInv
<1> SUFFICES ASSUME ConfiguredOnce, Init PROVE MoneyInv
    OBVIOUS
<1>1. accountDB = Configured(0) /\ 0 \in 0 .. Len(AccountCfg)
    BY ConfiguredDef, LedgerAssumption DEF Init
<1>2. Supply <= Issued + selfPaid
    <2>1. Supply <= Issued /\ Issued \in Int /\ selfPaid = 0
        BY <1>1, MoneyLoaded DEF Supply, Init
    <2>2. Supply \in Int
        BY <1>1, ConfiguredDef, MoneyChanges DEF Supply
    <2> QED BY <2>1, <2>2
<1> QED BY <1>2 DEF Init, MoneyInv

\* Both invariants hold always.
THEOREM MoneyInvariance ==
    ASSUME ConfiguredOnce PROVE Spec => [](LedgerInv /\ MoneyInv)
<1>1. Init => LedgerInv /\ MoneyInv
    BY ConfiguredOnce, InitLedger, InitMoney
<1>2. (LedgerInv /\ MoneyInv) /\ [Next]_vars => (LedgerInv /\ MoneyInv)'
    BY ConfiguredOnce, LedgerStep, MoneyStep DEF LedgerInv
<1> QED BY <1>1, <1>2, PTL DEF Spec

\* However often the process dies between two writes, the balances on disk never
\* add up to more than was issued and accounts have paid to themselves, as long
\* as the committers keep apart: Exec stores the sender before the recipient, and
\* credits at most the amount (vm.go:149-171).
THEOREM MoneyCorrect == ASSUME ConfiguredOnce PROVE Spec => []MoneyIsNeverCreated
<1>1. LedgerInv /\ MoneyInv => MoneyIsNeverCreated
    BY DEF MoneyInv, MoneyIsNeverCreated
<1> QED BY <1>1, MoneyInvariance, PTL

=============================================================================
