------------------------------- MODULE Ledger -------------------------------
(***************************************************************************)
(* One node's ledger: the databases and the account cache behind           *)
(* CommitBlock, written one value at a time while the process may die      *)
(* between any two writes, and the two goroutines that commit blocks: the  *)
(* daemon in state Finished and the blockchain module's Start.             *)
(*                                                                         *)
(* The verifiers have decided `chain'; a block is named by its height.     *)
(* What an honest verifier computes for it is Replay.  An account read     *)
(* from the cache is the cached object itself, which Exec changes in       *)
(* place; one read from the store is a copy.  Between two accesses of the  *)
(* store or of the world state anything may happen; what a goroutine does  *)
(* with its own values in between is part of the step of the access.       *)
(* Writes survive the end of the process, as LevelDB's do; the loss of     *)
(* what the operating system has not flushed is not modelled.              *)
(***************************************************************************)
EXTENDS Integers, FiniteSets, SequencesExt

CONSTANTS
    Address,      \* addresses of accounts
    None,         \* no value stored: a missing account, no block_meta
    AccountCfg,   \* the configured accounts, a sequence of [id, amount]
    Tx,           \* transactions: [id, from, to, amount], named by signature
    CacheSize,    \* capacity of the account cache, 1024 in the code
    MaxHeight, MaxBlockTxs, MaxCrashes  \* bounds

ASSUME LedgerAssumption ==
    /\ None \notin Int
    /\ IsFiniteSet(Address)
    /\ AccountCfg \in Seq([id : Address, amount : Nat])
    /\ \A t \in Tx : t.from \in Address /\ t.to \in Address /\ t.amount \in Nat
    /\ CacheSize \in Nat /\ CacheSize >= 2
    /\ MaxHeight \in Nat /\ MaxBlockTxs \in Nat /\ MaxCrashes \in Nat

Committers == {"daemon", "chain"}

VARIABLES
    chain,      \* the decided blocks: a sequence of sequences of transactions
    numDB,      \* heights with an entry number -> block id
    blockDB,    \* heights whose block is stored under its id
    metaDB,     \* BlockHeight of block_meta, or None
    accountDB,  \* balances
    txDB,       \* executed transactions
    records,    \* rows of the SQL table: <<transaction, height>>
    cache,      \* accountCahe: the balances of the cached accounts
    phase,      \* where the process is: starting, running, dead
    blockNum, blockID,      \* WroldState
    state, received, StopFlag,  \* the engine; received is a height, 0 for nil
    filed,      \* verified blocks of the pool of downloads
    pc, block, done,        \* of a committer: next statement, block, transactions done
    account, recv,          \* of a committer: the accounts Exec points to
    crashes,    \* how often the process has died
    overlapped, \* have the two committers been at work at once?
    selfPaid    \* what accounts have paid to themselves, in all; nothing reads it

disk == <<numDB, blockDB, metaDB, accountDB, txDB, records>>
ws == <<blockNum, blockID>>
engine == <<state, received, StopFlag>>
exec == <<pc, block, done, account, recv>>
vars ==
    <<chain, disk, cache, phase, ws, engine, filed, exec, crashes, overlapped, selfPaid>>

-----------------------------------------------------------------------------
(***************************************************************************)
(* vm.go, Eval, over a ledger [balance, txs] that is a snapshot in front   *)
(* of the database.  The outcome also has the statuses, and whether a      *)
(* transaction failed with an error, which leaves status -1.               *)
(***************************************************************************)

\* An evaluation that forgets to charge the sender in the snapshot.
EvalOfRecipient(ledger, t) ==
    IF t \in ledger.txs \/ ledger.balance[t.from] = None \/ ledger.balance[t.from] < t.amount
    THEN [ledger EXCEPT !.status = Append(@, -1)]
    ELSE [ledger EXCEPT !.status = Append(@, 0), !.txs = @ \cup {t},
             !.balance[t.to] = (IF @ = None THEN 0 ELSE @) + t.amount]

Eval(ledger, t) ==
    LET from == ledger.balance[t.from]
        to == ledger.balance[t.to]
        fails == t \in ledger.txs \/ from = None
        paid == [[ledger.balance EXCEPT ![t.from] = from - t.amount]
                    EXCEPT ![t.to] = (IF to = None THEN 0 ELSE to) + t.amount]
    IN  IF fails \/ from < t.amount
        THEN [ledger EXCEPT !.status = Append(@, -1), !.failed = @ \/ fails]
        ELSE [balance |-> paid, txs |-> ledger.txs \cup {t},
              status |-> Append(ledger.status, 0), failed |-> ledger.failed]

\* A block is evaluated with one snapshot: the ledgers after 0, 1, ... of its
\* transactions.
Evaluation(ledger, txs) ==
    LET after[n \in 0 .. Len(txs)] ==
            IF n = 0
            THEN [balance |-> ledger.balance, txs |-> ledger.txs,
                  status |-> <<>>, failed |-> FALSE]
            ELSE Eval(after[n - 1], txs[n])
    IN  after

Evaluate(ledger, txs) == Evaluation(ledger, txs)[Len(txs)]

\* The balances when n configured accounts are loaded; a later one with the
\* same id replaces the earlier.
Configured(n) ==
    [a \in Address |->
        LET at == {i \in 1 .. n : AccountCfg[i].id = a}
        IN  IF at = {} THEN None ELSE AccountCfg[Max(at)].amount]

Genesis ==
    [balance |-> Configured(Len(AccountCfg)), txs |-> {}, status |-> <<>>, failed |-> FALSE]

\* The ledgers after 0, 1, ... of the blocks of c.
Replays(c) ==
    LET after[h \in 0 .. MaxHeight] ==
            IF h = 0 THEN Genesis ELSE Evaluate(after[h - 1], c[h])
    IN  after

Replay(h) == Replays(chain)[h]

\* Status of the receipts of block h, made by its packer.
Receipts(h) == Evaluate(Replay(h - 1), chain[h]).status

\* The chains verifiers agree on: no transaction of a block fails.
Chains ==
    {c \in [1 .. MaxHeight -> {s \in BoundedSeq(Tx, MaxBlockTxs) : IsInjective(s)}] :
        \A h \in 1 .. MaxHeight : ~ Evaluate(Replays(c)[h - 1], c[h]).failed}

-----------------------------------------------------------------------------
\* No account is held.
NoAccount == [shared |-> FALSE, balance |-> 0]

\* A process without memory.
Forgotten ==
    /\ cache' = <<>>
    /\ blockNum' = 0 /\ blockID' = 0
    /\ state' = "NotStarted" /\ received' = 0 /\ StopFlag' = TRUE
    /\ filed' = {}
    /\ pc' = [c \in Committers |-> "idle"]
    /\ block' = [c \in Committers |-> 0] /\ done' = [c \in Committers |-> 0]
    /\ account' = [c \in Committers |-> NoAccount]
    /\ recv' = [c \in Committers |-> NoAccount]

Init ==
    /\ chain \in Chains
    /\ numDB = {} /\ blockDB = {} /\ metaDB = None
    /\ accountDB = [a \in Address |-> None] /\ txDB = {} /\ records = {}
    /\ cache = <<>>
    /\ phase = "setNumber"
    /\ blockNum = 0 /\ blockID = 0
    /\ state = "NotStarted" /\ received = 0 /\ StopFlag = TRUE
    /\ filed = {}
    /\ pc = [c \in Committers |-> "idle"]
    /\ block = [c \in Committers |-> 0] /\ done = [c \in Committers |-> 0]
    /\ account = [c \in Committers |-> NoAccount]
    /\ recv = [c \in Committers |-> NoAccount]
    /\ crashes = 0 /\ overlapped = FALSE /\ selfPaid = 0

-----------------------------------------------------------------------------
(***************************************************************************)
(* ca.go: reading an account and inserting it.                             *)
(***************************************************************************)

\* A transaction that was executed, from its cache or its store.
GetTxByID(t) == t \in txDB

\* GetAccountByID does not fill the cache.
GetAccountByID(a) == IF a \in DOMAIN cache THEN cache[a] ELSE accountDB[a]

\* The account Exec goes on with: the cached object or a copy.
Pointer(a) ==
    [shared |-> a \in DOMAIN cache,
     balance |-> IF a \in DOMAIN cache THEN 0 ELSE accountDB[a]]

\* A cache without a bound.
NoVictims(a, inUse) == {{}}

\* Inserting into a full cache evicts an account, not one just read.
Victims(a, inUse) ==
    IF a \in DOMAIN cache \/ Cardinality(DOMAIN cache) < CacheSize
    THEN {{}}
    ELSE {{v} : v \in DOMAIN cache \ inUse}

Inserted(a, b, evicted) ==
    [x \in (DOMAIN cache \ evicted) \cup {a} |-> IF x = a THEN b ELSE cache[x]]

\* A holder of an object that has left the cache keeps it to himself.
Kept(p, a, gone) ==
    IF p.shared /\ a \in gone THEN [shared |-> FALSE, balance |-> cache[a]] ELSE p

-----------------------------------------------------------------------------
(***************************************************************************)
(* run.go: a node without a genesis block makes one from its configuration.*)
(***************************************************************************)

Running == phase = "running"

\* SetGenesisBlock stores the number before the block.
SetGenesisNumber ==
    /\ phase = "setNumber"
    /\ numDB' = numDB \cup {0}
    /\ phase' = "setBlock"
    /\ UNCHANGED <<chain, blockDB, metaDB, accountDB, txDB, records, cache, ws,
                   engine, filed, exec, crashes, overlapped, selfPaid>>

SetGenesisBlock ==
    /\ phase = "setBlock"
    /\ blockDB' = blockDB \cup {0}
    /\ phase' = "setMeta"
    /\ UNCHANGED <<chain, numDB, metaDB, accountDB, txDB, records, cache, ws,
                   engine, filed, exec, crashes, overlapped, selfPaid>>

SetGenesisMeta ==
    /\ phase = "setMeta"
    /\ metaDB' = 0
    /\ phase' = "loadAccounts"
    /\ UNCHANGED <<chain, numDB, blockDB, accountDB, txDB, records, cache, ws,
                   engine, filed, exec, crashes, overlapped, selfPaid>>

\* The next configured account; `done' of the blockchain module's goroutine,
\* which is not running yet, counts them.
LoadAccount ==
    /\ phase = "loadAccounts"
    /\ done["chain"] < Len(AccountCfg)
    /\ done' = [done EXCEPT !["chain"] = @ + 1]
    /\ LET acc == AccountCfg[done["chain"] + 1]
       IN  /\ accountDB' = [accountDB EXCEPT ![acc.id] = acc.amount]
           /\ \E gone \in Victims(acc.id, {}) :
                cache' = Inserted(acc.id, acc.amount, gone)
    /\ UNCHANGED <<chain, numDB, blockDB, metaDB, txDB, records, phase, ws, engine,
                   filed, pc, block, account, recv, crashes, overlapped, selfPaid>>

\* What the store has of the block with a number, after a restart when nothing
\* is cached: no number, a number without a block, which is an error, or both.
GetBlockByNum(h) ==
    IF h \notin numDB THEN "nil" ELSE IF h \notin blockDB THEN "error" ELSE "found"

\* Run: GetBlockMeta reads the height, and the block of that height for its
\* id.  Without block_meta the node ends; without the block it panics.
GetBlockMeta ==
    IF metaDB = None
    THEN phase' = "fatal" /\ UNCHANGED ws
    ELSE IF metaDB > 0 /\ GetBlockByNum(metaDB) # "found"
    THEN phase' = "panicked" /\ UNCHANGED ws
    ELSE phase' = "running" /\ blockNum' = metaDB /\ blockID' = metaDB

Run ==
    /\ \/ phase = "restarting"
       \/ phase = "loadAccounts" /\ done["chain"] = Len(AccountCfg)
    /\ GetBlockMeta
    /\ done' = [done EXCEPT !["chain"] = 0]
    /\ UNCHANGED <<chain, disk, cache, engine, filed, pc, block, account, recv,
                   crashes, overlapped, selfPaid>>

\* The process dies.
Crash ==
    /\ crashes < MaxCrashes
    /\ phase \notin {"dead", "fatal", "panicked"}
    /\ phase' = "dead"
    /\ crashes' = crashes + 1
    /\ Forgotten
    /\ UNCHANGED <<chain, disk, overlapped, selfPaid>>

\* A restart that loads the configured accounts again.
RestartWithAccounts ==
    /\ phase = "dead"
    /\ phase' = CASE GetBlockByNum(0) = "nil" -> "setNumber"
                  [] GetBlockByNum(0) = "error" -> "fatal"
                  [] GetBlockByNum(0) = "found" -> "loadAccounts"
    /\ UNCHANGED <<chain, disk, cache, ws, engine, filed, exec, crashes, overlapped, selfPaid>>

\* New: GetGenesisBlock finds nothing, a number without a block, or a block.
Restart ==
    /\ phase = "dead"
    /\ phase' = CASE GetBlockByNum(0) = "nil" -> "setNumber"
                  [] GetBlockByNum(0) = "error" -> "fatal"
                  [] GetBlockByNum(0) = "found" -> "restarting"
    /\ UNCHANGED <<chain, disk, cache, ws, engine, filed, exec, crashes, overlapped, selfPaid>>

-----------------------------------------------------------------------------
(***************************************************************************)
(* block.go: CommitBlock, by either committer.                             *)
(***************************************************************************)

\* TryApplyBlock: evaluating the block gives the statuses of its receipts.
TryApplyBlock(h) ==
    Evaluate([balance |-> [a \in Address |-> GetAccountByID(a)], txs |-> txDB],
             chain[h]).status = Receipts(h)

\* Any block above the node's own.
Exceeds(h) == h > blockNum

Extends(h) == h = blockNum + 1 /\ h - 1 = blockID

Begin(c, h) ==
    /\ pc' = [pc EXCEPT ![c] = "apply"]
    /\ block' = [block EXCEPT ![c] = h]
    /\ done' = [done EXCEPT ![c] = 0]

Goto(c, statement) == pc' = [pc EXCEPT ![c] = statement]

Leave(c) ==
    /\ pc' = [pc EXCEPT ![c] = "idle"]
    /\ block' = [block EXCEPT ![c] = 0]
    /\ done' = [done EXCEPT ![c] = 0]

\* ChangeState to NotStarted or to ViewChanging forgets the block in hand.
ChangeState(s) == state' = s /\ received' = 0 /\ UNCHANGED StopFlag

\* CommitBlock fails: Finished goes to ViewChanging, Start waits for the block
\* to be handed over again.
Fail(c) ==
    /\ Leave(c)
    /\ IF c = "daemon" THEN ChangeState("ViewChanging") ELSE UNCHANGED engine

Current(c) == chain[block[c]][done[c] + 1]

AtTx(c) == pc[c] = "apply" /\ done[c] < Len(chain[block[c]])

\* Exec, up to the sender's account.  A transaction that exists, or without a
\* sender, ends ApplyBlock with what it has done so far; one whose sender
\* cannot pay leaves no trace.
ExecSender(c) ==
    /\ AtTx(c)
    /\ LET t == Current(c)
           b == GetAccountByID(t.from)
       IN  IF GetTxByID(t) \/ b = None
           THEN Fail(c) /\ UNCHANGED account
           ELSE IF b < t.amount
           THEN /\ done' = [done EXCEPT ![c] = @ + 1]
                /\ UNCHANGED <<pc, block, account, engine>>
           ELSE /\ account' = [account EXCEPT ![c] = Pointer(t.from)]
                /\ Goto(c, "transfer")
                /\ UNCHANGED <<block, done, engine>>
    /\ UNCHANGED <<chain, disk, cache, phase, ws, filed, recv, crashes, overlapped, selfPaid>>

\* The recipient's account, a new one if there is none; then AddAmount and
\* SubAmount work on whatever the pointers point to.
ExecTransfer(c) ==
    /\ pc[c] = "transfer"
    /\ LET t == Current(c)
           to == IF GetAccountByID(t.to) = None THEN NoAccount ELSE Pointer(t.to)
           by(p) == IF p.shared THEN 0 ELSE t.amount
       IN  /\ cache' = [a \in DOMAIN cache |->
                            cache[a]
                            + (IF a = t.to /\ to.shared THEN t.amount ELSE 0)
                            - (IF a = t.from /\ account[c].shared THEN t.amount ELSE 0)]
           /\ recv' = [recv EXCEPT ![c] = [to EXCEPT !.balance = @ + by(to)]]
           /\ account' = [account EXCEPT ![c].balance = @ - by(account[c])]
           /\ selfPaid' = selfPaid + (IF t.from = t.to THEN t.amount ELSE 0)
    /\ Goto(c, "debit")
    /\ UNCHANGED <<chain, disk, phase, ws, engine, filed, block, done, crashes, overlapped>>

\* Insert: the account goes into the cache and the store.  Whoever holds an
\* object that this drops from the cache keeps it.
Insert(c, a, p, evicted) ==
    LET b == IF p.shared THEN cache[a] ELSE p.balance
        gone == evicted \cup (IF p.shared THEN {} ELSE {a})
    IN  /\ accountDB' = [accountDB EXCEPT ![a] = b]
        /\ cache' = Inserted(a, b, evicted)
        /\ account' = [d \in Committers |->
               IF d = c THEN NoAccount ELSE Kept(account[d], Current(d).from, gone)]
        /\ recv' = [d \in Committers |->
               IF d = c /\ pc[c] = "credit" THEN NoAccount
               ELSE Kept(recv[d], Current(d).to, gone)]

InsertSender(c) ==
    /\ pc[c] = "debit"
    /\ LET t == Current(c)
       IN  \E evicted \in Victims(t.from, {t.to}) : Insert(c, t.from, account[c], evicted)
    /\ Goto(c, "credit")
    /\ UNCHANGED <<chain, numDB, blockDB, metaDB, txDB, records, phase, ws, engine,
                   filed, block, done, crashes, overlapped, selfPaid>>

InsertRecipient(c) ==
    /\ pc[c] = "credit"
    /\ LET t == Current(c)
       IN  \E evicted \in Victims(t.to, {t.from}) : Insert(c, t.to, recv[c], evicted)
    /\ Goto(c, "record")
    /\ UNCHANGED <<chain, numDB, blockDB, metaDB, txDB, records, phase, ws, engine,
                   filed, block, done, crashes, overlapped, selfPaid>>

\* The transaction and its receipt, which nothing reads.
InsertTx(c) ==
    /\ pc[c] = "record"
    /\ txDB' = txDB \cup {Current(c)}
    /\ done' = [done EXCEPT ![c] = @ + 1]
    /\ Goto(c, "apply")
    /\ UNCHANGED <<chain, numDB, blockDB, metaDB, accountDB, records, cache, phase, ws,
                   engine, filed, block, account, recv, crashes, overlapped, selfPaid>>

\* The block's transactions are done: their rows in the SQL table.
InsertTxRecords(c) ==
    /\ pc[c] = "apply" /\ done[c] = Len(chain[block[c]])
    /\ records' = records \cup {<<t, block[c]>> : t \in Range(chain[block[c]])}
    /\ Goto(c, "increase")
    /\ UNCHANGED <<chain, numDB, blockDB, metaDB, accountDB, txDB, cache, phase, ws,
                   engine, filed, block, done, account, recv, crashes, overlapped, selfPaid>>

IncreaseBlockNum(c) ==
    /\ pc[c] = "increase"
    /\ blockNum' = blockNum + 1
    /\ Goto(c, "setValue")
    /\ UNCHANGED <<chain, disk, cache, phase, blockID, engine, filed, block, done,
                   account, recv, crashes, overlapped, selfPaid>>

\* block_meta is stored at once, before the block.
SetValueAndSave(c) ==
    /\ pc[c] = "setValue"
    /\ blockNum' = block[c] /\ blockID' = block[c]
    /\ metaDB' = block[c]
    /\ Goto(c, "block")
    /\ UNCHANGED <<chain, numDB, blockDB, accountDB, txDB, records, cache, phase,
                   engine, filed, block, done, account, recv, crashes, overlapped, selfPaid>>

SetValue(c) ==
    /\ pc[c] = "setValue"
    /\ blockNum' = block[c] /\ blockID' = block[c]
    /\ Goto(c, "block")
    /\ UNCHANGED <<chain, disk, cache, phase, engine, filed, block, done, account,
                   recv, crashes, overlapped, selfPaid>>

\* The block without its number.
InsertBlockOnly(c) ==
    /\ pc[c] = "block"
    /\ blockDB' = blockDB \cup {block[c]}
    /\ Goto(c, "meta")
    /\ UNCHANGED <<chain, numDB, metaDB, accountDB, txDB, records, cache, phase, ws,
                   engine, filed, block, done, account, recv, crashes, overlapped, selfPaid>>

\* InsertBlock stores the block, then its number.
InsertBlock(c) ==
    /\ pc[c] = "block"
    /\ blockDB' = blockDB \cup {block[c]}
    /\ Goto(c, "number")
    /\ UNCHANGED <<chain, numDB, metaDB, accountDB, txDB, records, cache, phase, ws,
                   engine, filed, block, done, account, recv, crashes, overlapped, selfPaid>>

InsertNumber(c) ==
    /\ pc[c] = "number"
    /\ numDB' = numDB \cup {block[c]}
    /\ Goto(c, "meta")
    /\ UNCHANGED <<chain, blockDB, metaDB, accountDB, txDB, records, cache, phase, ws,
                   engine, filed, block, done, account, recv, crashes, overlapped, selfPaid>>

\* block_meta is what the world state holds now.  CommitBlock then forgets
\* the daemon's block, whoever called it; Start takes the block off the pool.
UpdateLastWorldState(c) ==
    /\ pc[c] = "meta"
    /\ metaDB' = blockNum
    /\ IF c = "daemon"
       THEN ChangeState("NotStarted") /\ UNCHANGED filed
       ELSE /\ received' = 0 /\ UNCHANGED <<state, StopFlag>>
            /\ filed' = filed \ {block[c]}
    /\ Leave(c)
    /\ UNCHANGED <<chain, numDB, blockDB, accountDB, txDB, records, cache, phase, ws,
                   account, recv, crashes, overlapped, selfPaid>>

CommitStep(c) ==
    \/ ExecSender(c) \/ ExecTransfer(c)
    \/ InsertSender(c) \/ InsertRecipient(c) \/ InsertTx(c)
    \/ InsertTxRecords(c) \/ IncreaseBlockNum(c) \/ SetValue(c)
    \/ InsertBlock(c) \/ InsertNumber(c) \/ UpdateLastWorldState(c)

-----------------------------------------------------------------------------
(***************************************************************************)
(* The daemon.  The states before Committing are one, NotStarted.          *)
(***************************************************************************)

\* A message or the polling timer wakes the daemon, and StopFlag is off.
Poll ==
    /\ Running /\ pc["daemon"] = "idle"
    /\ ~ StopFlag
    /\ Goto("daemon", "migrate")
    /\ UNCHANGED <<chain, disk, cache, phase, ws, engine, filed, block, done, account,
                   recv, crashes, overlapped, selfPaid>>

\* The replica has checked the next block and votes to commit it.
MigrateNotStarted ==
    /\ pc["daemon"] = "migrate" /\ state = "NotStarted"
    /\ \/ UNCHANGED <<state, received, overlapped>>
       \/ /\ blockNum < MaxHeight
          /\ TryApplyBlock(blockNum + 1)
          /\ received' = blockNum + 1
          /\ state' = "Committing"
          /\ overlapped' = (overlapped \/ pc["chain"] # "idle")
    /\ Goto("daemon", "idle")
    /\ UNCHANGED <<chain, disk, cache, phase, ws, StopFlag, filed, block, done, account,
                   recv, crashes, selfPaid>>

\* Committing waits for a quorum; until then nothing changes, or time is out.
MigrateCommitting ==
    /\ pc["daemon"] = "migrate" /\ state = "Committing"
    /\ \/ Goto("daemon", "enterFinished") /\ UNCHANGED engine
       \/ Goto("daemon", "idle") /\ ChangeState("ViewChanging")
    /\ UNCHANGED <<chain, disk, cache, phase, ws, filed, block, done, account, recv,
                   crashes, overlapped, selfPaid>>

\* The state was read before: it may have changed by now.
EnterFinished ==
    /\ pc["daemon"] = "enterFinished"
    /\ state' = "Finished"
    /\ Goto("daemon", "idle")
    /\ UNCHANGED <<chain, disk, cache, phase, ws, received, StopFlag, filed, block,
                   done, account, recv, crashes, overlapped, selfPaid>>

MigrateViewChanging ==
    /\ pc["daemon"] = "migrate" /\ state = "ViewChanging"
    /\ ChangeState("NotStarted")
    /\ Goto("daemon", "idle")
    /\ UNCHANGED <<chain, disk, cache, phase, ws, filed, block, done, account, recv,
                   crashes, overlapped, selfPaid>>

\* Finished reads receivedBlock here; a nil one ends the process.
MigrateFinished ==
    /\ pc["daemon"] = "migrate" /\ state = "Finished"
    /\ IF received = 0
       THEN /\ phase' = "panicked"
            /\ Forgotten
       ELSE /\ IF Extends(received)
               THEN Begin("daemon", received) /\ UNCHANGED engine
               ELSE Fail("daemon")
            /\ UNCHANGED <<cache, phase, ws, filed, account, recv>>
    /\ UNCHANGED <<chain, disk, crashes, overlapped, selfPaid>>

Daemon ==
    \/ Poll \/ MigrateNotStarted \/ MigrateCommitting \/ EnterFinished
    \/ MigrateFinished \/ MigrateViewChanging \/ CommitStep("daemon")

-----------------------------------------------------------------------------
(***************************************************************************)
(* The blockchain module.                                                  *)
(***************************************************************************)

\* A peer sends a block the node has not committed.  It is evaluated on the
\* ledger of this moment.
Download(h) ==
    /\ Running
    /\ h > blockNum /\ h \notin filed
    /\ TryApplyBlock(h)
    /\ filed' = filed \cup {h}
    /\ UNCHANGED <<chain, disk, cache, phase, ws, engine, exec, crashes, overlapped, selfPaid>>

DaemonAtWork == pc["daemon"] # "idle" \/ state \in {"Committing", "Finished"}

\* Start takes a block from the pool.
CommitFiled(h) ==
    /\ Running /\ pc["chain"] = "idle" /\ h \in filed
    /\ \/ /\ h <= blockNum
          /\ filed' = filed \ {h}
          /\ UNCHANGED <<pc, block, done, overlapped>>
       \/ /\ Extends(h)
          /\ Begin("chain", h)
          /\ overlapped' = (overlapped \/ DaemonAtWork)
          /\ UNCHANGED filed
    /\ UNCHANGED <<chain, disk, cache, phase, ws, engine, account, recv, crashes,
                   selfPaid>>

StartEngine ==
    /\ Running /\ pc["chain"] = "idle" /\ StopFlag
    /\ StopFlag' = FALSE
    /\ UNCHANGED <<chain, disk, cache, phase, ws, state, received, filed, exec, crashes,
                   overlapped, selfPaid>>

\* Stop: ChangeState forgets the block, and then enters NotStarted.
StopEngine ==
    /\ Running /\ pc["chain"] = "idle" /\ ~ StopFlag
    /\ StopFlag' = TRUE /\ received' = 0
    /\ overlapped' = (overlapped \/ pc["daemon"] # "idle")
    /\ Goto("chain", "stop")
    /\ UNCHANGED <<chain, disk, cache, phase, ws, state, filed, block, done, account,
                   recv, crashes, selfPaid>>

EndStop ==
    /\ pc["chain"] = "stop"
    /\ state' = "NotStarted"
    /\ Goto("chain", "idle")
    /\ UNCHANGED <<chain, disk, cache, phase, ws, received, StopFlag, filed, block,
                   done, account, recv, crashes, overlapped, selfPaid>>

BlockChain ==
    \/ \E h \in 1 .. MaxHeight : CommitFiled(h)
    \/ CommitStep("chain") \/ StartEngine \/ StopEngine \/ EndStop

-----------------------------------------------------------------------------
Boot ==
    \/ SetGenesisNumber \/ SetGenesisBlock \/ SetGenesisMeta \/ LoadAccount \/ Run

Next ==
    \/ Boot \/ Crash \/ Restart
    \/ Daemon \/ BlockChain
    \/ \E h \in 1 .. MaxHeight : Download(h)

Spec == Init /\ [][Next]_vars

-----------------------------------------------------------------------------
Pointers == [shared : BOOLEAN, balance : Int]

Statements ==
    {"idle", "apply", "transfer", "debit", "credit", "record", "increase", "setValue",
     "block", "number", "meta", "migrate", "enterFinished", "stop"}

\* The type of the state.  A height on disk, in hand or in the pool is one of
\* a decided block; a committer at work has a block, and an object held as the
\* cache's own is in the cache.
TypeOK ==
    /\ chain \in Chains
    /\ numDB \subseteq 0 .. MaxHeight /\ blockDB \subseteq 0 .. MaxHeight
    /\ metaDB = None \/ metaDB \in 0 .. 2 * MaxHeight
    /\ DOMAIN accountDB = Address
    /\ \A a \in Address : accountDB[a] = None \/ accountDB[a] \in Int
    /\ txDB \subseteq Tx /\ records \subseteq Tx \X (1 .. MaxHeight)
    /\ DOMAIN cache \subseteq Address /\ \A a \in DOMAIN cache : cache[a] \in Int
    /\ Cardinality(DOMAIN cache) <= CacheSize
    /\ phase \in {"setNumber", "setBlock", "setMeta", "loadAccounts", "restarting",
                  "running", "dead", "fatal", "panicked"}
    /\ blockNum \in 0 .. 2 * MaxHeight /\ blockID \in 0 .. MaxHeight
    /\ state \in {"NotStarted", "Committing", "Finished", "ViewChanging"}
    /\ received \in 0 .. MaxHeight /\ StopFlag \in BOOLEAN
    /\ filed \subseteq 1 .. MaxHeight
    /\ pc \in [Committers -> Statements]
    /\ block \in [Committers -> 0 .. MaxHeight] /\ done \in [Committers -> Nat]
    /\ account \in [Committers -> Pointers] /\ recv \in [Committers -> Pointers]
    /\ \A c \in Committers :
          /\ account[c].shared => Current(c).from \in DOMAIN cache
          /\ recv[c].shared => Current(c).to \in DOMAIN cache
    /\ crashes \in 0 .. MaxCrashes /\ overlapped \in BOOLEAN /\ selfPaid \in Nat

\* Between blocks, what API and consensus read through the cache, the
\* balances in the store, the executed transactions and the rows of the SQL
\* table are those of the decided blocks replayed by their evaluation: Exec,
\* with its objects shared and evicted, does to the databases what Eval did to
\* a snapshot (vm.go:25-188).  Not after a crash, or when the committers met,
\* or once an account has paid itself: Eval then adds the amount, and Exec adds
\* it or not, as the account is cached or not.
LedgerIsReplay ==
    Running /\ crashes = 0 /\ ~ overlapped /\ selfPaid = 0
            /\ (\A c \in Committers : block[c] = 0) =>
        /\ accountDB = Replay(blockNum).balance
        /\ \A a \in DOMAIN cache : cache[a] = accountDB[a]
        /\ txDB = Replay(blockNum).txs
        /\ records = UNION {{<<t, h>> : t \in Range(chain[h])} : h \in 1 .. blockNum}

Money(balance) == SumFunction([a \in Address |-> IF balance[a] = None THEN 0 ELSE balance[a]])

\* The money on disk.
Supply == Money(accountDB)

Issued == Money(Genesis.balance)

\* However often the node dies in the middle of a block, and starts the block
\* again, the balances on disk never add up to more than was issued and what
\* accounts have paid to themselves (vm.go:166-171 store the sender first, and
\* the copy of a recipient who is the sender last), unless the committers met.
MoneyIsNeverCreated == ~ overlapped => Supply <= Issued + selfPaid

\* The height of block_meta is that of a stored block with its number, and so
\* is every one below: a restart finds the block, peers are sent it
\* (block.go:88-93, crud.go:42-45).
StoredHeightHasItsBlock ==
    metaDB # None /\ ~ overlapped => 0 .. metaDB \subseteq numDB \cap blockDB

\* A node that has made its genesis starts again after any crash; the process
\* gives up only when it died in the middle of making the genesis, or when the
\* committers met: the nil block of states.go:353, the missing one of
\* crud.go:43.
StartsAgain == phase \in {"fatal", "panicked"} => overlapped \/ metaDB = None

\* The transactions of the first h blocks.
TxsUpTo(h) == UNION {Range(chain[k]) : k \in 1 .. h}

\* Wherever the node dies, what it has executed belongs to the blocks up to
\* block_meta's and to the one block after: a crash leaves no more than one block
\* half executed, the next to be committed (block.go:70-111), unless the
\* committers met.
OneBlockIsHalfDone ==
    ~ overlapped =>
        IF metaDB = None THEN txDB = {}
        ELSE txDB \subseteq TxsUpTo(IF metaDB < MaxHeight THEN metaDB + 1 ELSE MaxHeight)
=============================================================================
