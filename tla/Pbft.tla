-------------------------------- MODULE Pbft --------------------------------
(***************************************************************************)
(* The consensus engine of every verifier, package consensus: the daemon   *)
(* loop with its own messages queued in FIFO order, the message log, the   *)
(* block store with its merging of signatures, the broadcast routine, the  *)
(* three timers, and what the blockchain module and the operating system   *)
(* do to it: Stop, Start and a restart.                                    *)
(*                                                                         *)
(* One iteration of the daemon's select is one action.  A message from a   *)
(* peer is handled straight from the network: msgOnRecv runs in a          *)
(* goroutine of its own, so it may enter Msgs.comingMsg at any time and in *)
(* any order, and until it does it may as well still be on its way.        *)
(***************************************************************************)
EXTENDS PbftBase, Sequences, SequencesExt

CONSTANTS
    MaxNum,      \* bound: the height at which a replica stops taking steps
    MaxView,     \* bound: the view from which no timer fires
    Proposers,   \* bound: the replicas whose tryProposalTimer fires
    MayFail,     \* the bodies whose transactions a ledger may fail to execute
    MaxFaults,   \* bound: how often a replica is stopped or restarted, in all
    Unsteady     \* bound: the replicas that are stopped, restarted or started late

ASSUME BoundAssumption ==
    /\ MaxNum \in Nat /\ MaxView \in Nat /\ MaxFaults \in Nat
    /\ Proposers \subseteq Node /\ Unsteady \subseteq Node
    /\ MayFail \subseteq Bodies

VARIABLES
    blockNum, blockID, view,   \* the world state: ws.BlockNum, BlockID, View
    committed,                 \* the blocks in the database, with their SignPairs
    halfExecuted,              \* has a failed commit left part of a block in the ledger?
    state,                     \* sm.state
    received,                  \* does sm.receivedBlock point to the slot's stored block?
    timer,                     \* is stateTimeout armed?
    stopped,                   \* StopFlag
    log,                       \* mm.StateMsgs
    blocks,                    \* mm.BlockMsg: <<num, view>> -> a block and its SignPairs
    queue,                     \* Msgs.comingMsg: the replica's own messages
    tasks,                     \* broadcastSig: the log entries to broadcast
    current,                   \* curBroadcastMsg, when it is a ViewChange
    net,                       \* the copies of messages on their way
    faults,                    \* the Stops and restarts so far
    proposed, voted            \* history, read by no step: the blocks packed in a
                               \* signed PrePrepare, the votes signed

chainVars == <<blockNum, blockID, committed, halfExecuted>>
sm == <<state, received>>
mm == <<log, blocks>>
signed == <<proposed, voted>>
vars == <<chainVars, view, sm, timer, stopped, mm, queue, tasks, current, net, faults,
          signed>>

States == {"NotStarted", "PrePreparing", "Preparing", "Checking",
           "Committing", "Finished", "ViewChanging"}

MsgTypes == {"NewBlockProposal", "PrePrepare", "Prepare", "Commit", "ViewChange"}

\* A SignPairs entry: the signature of one verifier on one block hash.
Pair == [by : Node, of : Nat \X Nat \X (Bodies \cup {0})]

SignedBlock == [blk : Block, pairs : SUBSET Pair]

Key == [type : MsgTypes, num : Nat, view : Nat, from : Node]

\* A message names its slot and sender; block is {} or the block it carries.
Message == [key : Key, block : SUBSET SignedBlock]

\* A StateMsg of the log: the message and whether it has been broadcast.
Entry == [key : Key, block : SUBSET SignedBlock, sent : BOOLEAN]

TypeOK ==
    /\ blockNum \in [Node -> 0 .. MaxNum]
    /\ \A n \in Node : blockID[n] \in {GenesisHash} \cup {Hash(c.blk) : c \in committed[n]}
    /\ halfExecuted \in [Node -> BOOLEAN]
    /\ view \in [Node -> 0 .. MaxView]
    /\ \A n \in Node : \A c \in committed[n] : c.blk \in Block /\ c.pairs \subseteq Pair
    /\ state \in [Node -> States]
    /\ received \in [Node -> BOOLEAN]
    /\ timer \in [Node -> BOOLEAN]
    /\ stopped \in [Node -> BOOLEAN]
    /\ \A n \in Node : \A e \in log[n] : e.key \in Key /\ e.sent \in BOOLEAN
    /\ \A n \in Node : \A s \in DOMAIN blocks[n] :
          blocks[n][s].blk \in Block /\ blocks[n][s].pairs \subseteq Pair
    /\ \A n \in Node : \A i \in DOMAIN queue[n] : queue[n][i].key \in Key
    /\ \A n \in Node : \A i \in DOMAIN tasks[n] : tasks[n][i] \in Key
    /\ \A n \in Node : current[n] \subseteq Key
    /\ \A c \in net : c.to \in Node /\ c.msg.key \in Key
    /\ faults \in 0 .. MaxFaults
    /\ proposed \subseteq Block /\ voted \subseteq Key

\* The blockchain module may not have started every engine yet.
Init ==
    /\ blockNum = [n \in Node |-> 0]
    /\ blockID = [n \in Node |-> GenesisHash]
    /\ view = [n \in Node |-> 0]
    /\ committed = [n \in Node |-> {}]
    /\ halfExecuted = [n \in Node |-> FALSE]
    /\ state = [n \in Node |-> "NotStarted"]
    /\ received = [n \in Node |-> FALSE]
    /\ timer = [n \in Node |-> TRUE]
    /\ stopped \in {f \in [Node -> BOOLEAN] : \A n \in Node \ Unsteady : ~ f[n]}
    /\ log = [n \in Node |-> {}]
    /\ blocks = [n \in Node |-> <<>>]
    /\ queue = [n \in Node |-> <<>>]
    /\ tasks = [n \in Node |-> <<>>]
    /\ current = [n \in Node |-> {}]
    /\ net = {}
    /\ faults = 0
    /\ proposed = {} /\ voted = {}

-----------------------------------------------------------------------------
(***************************************************************************)
(* The message log and the block store.                                    *)
(***************************************************************************)

Active(n) == blockNum[n] < MaxNum

SlotOf(n) == <<blockNum[n] + 1, view[n]>>

IsPrimaryVerfier(n) == n = Primary(blockNum[n] + 1, view[n])

KeyOf(n, type) == [type |-> type, num |-> blockNum[n] + 1, view |-> view[n], from |-> n]

\* A search that forgets the view.
FindStateMsgOfAnyView(n, lg, type) ==
    {e \in lg : e.key.type = type /\ e.key.num = blockNum[n] + 1}

\* The entries of log lg of one type for the replica's slot.
FindStateMsg(n, lg, type) ==
    {e \in lg : /\ e.key.type = type
                /\ e.key.num = blockNum[n] + 1
                /\ e.key.view = view[n]}

\* FindStateMsgBySinger, as the set of its zero or one entries.
FindStateMsgBySinger(n, lg, type, p) ==
    {e \in FindStateMsg(n, lg, type) : e.key.from = p}

\* A search for a block that forgets the view.
FindBlockOfAnyView(n, bl) == {bl[s] : s \in {t \in DOMAIN bl : t[1] = blockNum[n] + 1}}

\* FindBlock: the zero or one blocks stored for the replica's slot.
FindBlock(n, bl) == {bl[s] : s \in DOMAIN bl \cap {SlotOf(n)}}

HasQuorum(n, lg, type) ==
    Cardinality(FindStateMsg(n, lg, type)) >= minNodeNum

EnoughSigners(b) == Cardinality({p.by : p \in b.pairs}) + 1 >= minNodeNum

\* A message that enters the log as broadcast already.
addMsgAsSent(lg, m) ==
    IF \E e \in lg : e.key = m.key
    THEN lg
    ELSE lg \cup {[key |-> m.key, block |-> m.block, sent |-> TRUE]}

\* addMsg: the first message of a type, slot and sender is the one kept.
addMsg(lg, m) ==
    IF \E e \in lg : e.key = m.key
    THEN lg
    ELSE lg \cup {[key |-> m.key, block |-> m.block, sent |-> FALSE]}

\* The store with block b in slot s.
put(bl, s, b) == [t \in DOMAIN bl \cup {s} |-> IF t = s THEN b ELSE bl[t]]

\* addBlock: the first block of a slot stays, a copy with signatures replaces
\* one without, and otherwise signatures of new signers are added to it,
\* without a look at which block they sign.
addBlock(bl, s, b) ==
    IF s \notin DOMAIN bl \/ (bl[s].pairs = {} /\ b.pairs # {})
    THEN put(bl, s, b)
    ELSE LET known == {p.by : p \in bl[s].pairs}
         IN  [bl EXCEPT ![s].pairs =
                 IF @ = {} THEN @ ELSE @ \cup {p \in b.pairs : p.by \notin known}]

\* AppendMsg stores a block only if its packer is the primary of the slot the
\* replica is in, whatever slot the message is about.
storedBlocks(n, m) ==
    LET s == <<m.key.num, m.key.view>>
        taken == {b \in m.block :
                     Primary(b.blk.num, b.blk.view) = Primary(blockNum[n] + 1, view[n])}
    IN  IF taken = {} THEN blocks[n] ELSE addBlock(blocks[n], s, CHOOSE b \in taken : TRUE)

Copies(n, m) == {[to |-> p, msg |-> m] : p \in Node \ {n}}

\* packageBlock and signBlock: the primary's block on top of its chain, and
\* the signature another verifier adds, if it has not signed the block yet.
packageBlock(n, body) ==
    [num |-> blockNum[n] + 1, view |-> view[n], prev |-> blockID[n], body |-> body]

signBlock(n, b) ==
    IF \E p \in b.pairs : p.by = n
    THEN b
    ELSE [b EXCEPT !.pairs = @ \cup {[by |-> n, of |-> Hash(b.blk)]}]

Extends(n, b) == b.blk.num = blockNum[n] + 1 /\ b.blk.prev = blockID[n]

\* Executing the block on the replica's ledger is sure to do what its packer
\* wrote only if the block comes next, its transactions cannot fail and the
\* ledger holds no part of another block.
Executes(n, b) == Extends(n, b) /\ b.blk.body \notin MayFail /\ ~ halfExecuted[n]

\* A commit that moves on to the next view.
CommitBlockIncreasingView(n, b) ==
    /\ Extends(n, b)
    /\ blockNum' = [blockNum EXCEPT ![n] = @ + 1]
    /\ blockID' = [blockID EXCEPT ![n] = Hash(b.blk)]
    /\ view' = [view EXCEPT ![n] = @ + 1]
    /\ committed' = [committed EXCEPT ![n] = @ \cup {b}]
    /\ UNCHANGED halfExecuted

\* CommitBlock when it succeeds.
CommitBlock(n, b) ==
    /\ Extends(n, b)
    /\ blockNum' = [blockNum EXCEPT ![n] = @ + 1]
    /\ blockID' = [blockID EXCEPT ![n] = Hash(b.blk)]
    /\ view' = [view EXCEPT ![n] = b.blk.view]
    /\ committed' = [committed EXCEPT ![n] = @ \cup {b}]
    /\ UNCHANGED halfExecuted

-----------------------------------------------------------------------------
(***************************************************************************)
(* StateMigrate(n, lg, bl, q): the transition function on log lg and       *)
(* blocks bl, the ones after AppendMsg, with q what is left in the queue.  *)
(* One operator per state.                                                 *)
(***************************************************************************)

\* ChangeState: states other than NotStarted and ViewChanging restart the
\* timer, NotStarted stops it, ViewChanging leaves it; both forget the block.
ChangeState(n, s) ==
    /\ state' = [state EXCEPT ![n] = s]
    /\ timer' = [timer EXCEPT ![n] =
                    IF s = "ViewChanging" THEN @ ELSE s # "NotStarted"]

Stay == UNCHANGED <<state, timer>>

\* AddBroadcastTask for the entries that were never broadcast.  A second task
\* for an entry does nothing when its turn comes, so it is left out.
AddBroadcastTask(n, entries) ==
    tasks' = [tasks EXCEPT ![n] =
                 LET new == {e.key : e \in {f \in entries : ~ f.sent}} \ ToSet(@)
                 IN  IF new = {} THEN @ ELSE Append(@, CHOOSE k \in new : TRUE)]

\* What making message m adds to the history.
Sign(m) ==
    /\ proposed' = proposed \cup
          (IF m.key.type = "PrePrepare" THEN {b.blk : b \in m.block} ELSE {})
    /\ voted' = voted \cup
          (IF m.key.type \in {"Prepare", "Commit", "ViewChange"} THEN {m.key} ELSE {})

\* A queue that is full as soon as one message waits.
InsertMsgIfEmpty(n, q, m) ==
    /\ queue' = [queue EXCEPT ![n] = IF q = <<>> THEN <<m>> ELSE q]
    /\ Sign(m)

\* A message behind one with its key is refused by the log, so it is left out.
InsertMsg(n, q, m) ==
    /\ queue' = [queue EXCEPT ![n] =
                    IF m.key \in {r.key : r \in ToSet(q)} THEN q ELSE Append(q, m)]
    /\ Sign(m)

Leave(n, q) == queue' = [queue EXCEPT ![n] = q] /\ UNCHANGED signed

\* The block found in the store becomes receivedBlock once enough have signed.
Receive(n, bl) ==
    received' = [received EXCEPT ![n] =
                    @ \/ \E b \in FindBlock(n, bl) : EnoughSigners(b)]

MigrateNotStarted(n, lg, bl, q) ==
    /\ state[n] = "NotStarted"
    /\ blocks' = [blocks EXCEPT ![n] = bl]
    /\ UNCHANGED <<chainVars, view, received, tasks>>
    /\ \/ /\ FindStateMsg(n, lg, "NewBlockProposal") = {}
          /\ Stay /\ Leave(n, q) /\ UNCHANGED net
       \/ /\ FindStateMsg(n, lg, "NewBlockProposal") # {}
          /\ IsPrimaryVerfier(n)
          /\ \E body \in Bodies :
                LET m == [key |-> KeyOf(n, "PrePrepare"),
                          block |-> {[blk |-> packageBlock(n, body), pairs |-> {}]}]
                IN  /\ InsertMsg(n, q, m)
                    /\ net' = net \cup Copies(n, m)
          /\ ChangeState(n, "Preparing")
       \/ /\ FindStateMsg(n, lg, "NewBlockProposal") # {}
          /\ ~ IsPrimaryVerfier(n)
          /\ ChangeState(n, "PrePreparing")
          /\ Leave(n, q) /\ UNCHANGED net

MigratePrePreparing(n, lg, bl, q) ==
    LET primary == Primary(blockNum[n] + 1, view[n])
        prePrepare == FindStateMsgBySinger(n, lg, "PrePrepare", primary)
        found == FindBlock(n, bl)
        mine == {b \in found : \E p \in b.pairs : p.by = n}
        enough == {b \in mine : EnoughSigners(b)}
        \* the block to send along: signed now, or still short of signatures
        attached == {signBlock(n, b) : b \in found \ enough}
    IN  /\ state[n] = "PrePreparing"
        /\ UNCHANGED net
        /\ UNCHANGED <<chainVars, view>>
        /\ \/ /\ prePrepare = {}
              /\ blocks' = [blocks EXCEPT ![n] = bl]
              /\ Stay /\ Leave(n, q) /\ UNCHANGED <<received, tasks>>
           \/ /\ prePrepare # {}
              /\ AddBroadcastTask(n, prePrepare)
              /\ blocks' = [blocks EXCEPT ![n] =
                    IF attached = {} THEN bl
                    ELSE [bl EXCEPT ![SlotOf(n)] = CHOOSE b \in attached : TRUE]]
              /\ received' = [received EXCEPT ![n] = @ \/ enough # {}]
              /\ ChangeState(n, "Preparing")
              /\ InsertMsg(n, q, [key |-> KeyOf(n, "Prepare"), block |-> attached])

MigratePreparing(n, lg, bl, q) ==
    LET mine == FindStateMsgBySinger(n, lg, "Prepare", n)
    IN  /\ state[n] = "Preparing"
        /\ blocks' = [blocks EXCEPT ![n] = bl]
        /\ UNCHANGED net
        /\ UNCHANGED <<chainVars, view>>
        /\ \/ /\ mine = {}
              /\ InsertMsg(n, q, [key |-> KeyOf(n, "Prepare"), block |-> {}])
              /\ Stay /\ UNCHANGED <<received, tasks>>
           \/ /\ mine # {}
              /\ AddBroadcastTask(n, mine)
              /\ Leave(n, q)
              /\ Receive(n, bl)
              /\ IF HasQuorum(n, lg, "Prepare") THEN ChangeState(n, "Checking") ELSE Stay

MigrateChecking(n, lg, bl, q) ==
    /\ state[n] = "Checking"
    /\ blocks' = [blocks EXCEPT ![n] = bl]
    /\ UNCHANGED net
    /\ UNCHANGED <<chainVars, view, tasks>>
    /\ Receive(n, bl)
    /\ IF received'[n]
       THEN /\ ChangeState(n, "Committing")
            /\ InsertMsg(n, q, [key |-> KeyOf(n, "Commit"), block |-> {}])
       ELSE Stay /\ Leave(n, q)

MigrateCommitting(n, lg, bl, q) ==
    /\ state[n] = "Committing"
    /\ blocks' = [blocks EXCEPT ![n] = bl]
    /\ UNCHANGED net
    /\ Leave(n, q)
    /\ AddBroadcastTask(n, FindStateMsgBySinger(n, lg, "Commit", n))
    /\ IF HasQuorum(n, lg, "Commit") THEN ChangeState(n, "Finished") ELSE Stay
    /\ UNCHANGED <<chainVars, view, received>>

\* CommitBlock either extends the chain by the received block or returns an
\* error: a block that does not extend it, or a transaction that fails.
MigrateFinished(n, lg, bl, q) ==
    /\ state[n] = "Finished"
    /\ blocks' = [blocks EXCEPT ![n] = bl]
    /\ UNCHANGED net
    /\ Leave(n, q)
    /\ received' = [received EXCEPT ![n] = FALSE]
    /\ UNCHANGED tasks
    /\ \/ \E b \in FindBlock(n, bl) : CommitBlock(n, b) /\ ChangeState(n, "NotStarted")
       \/ /\ \A b \in FindBlock(n, bl) : ~ Executes(n, b)
          /\ halfExecuted' = [halfExecuted EXCEPT ![n] =
                                 @ \/ \E b \in FindBlock(n, bl) : Extends(n, b)]
          /\ ChangeState(n, "ViewChanging")
          /\ UNCHANGED <<blockNum, blockID, committed, view>>

IncreaseView(n) == view' = [view EXCEPT ![n] = @ + 1]

MigrateViewChanging(n, lg, bl, q) ==
    /\ state[n] = "ViewChanging"
    /\ blocks' = [blocks EXCEPT ![n] = bl]
    /\ UNCHANGED net
    /\ Leave(n, q)
    /\ AddBroadcastTask(n, FindStateMsgBySinger(n, lg, "ViewChange", n))
    /\ UNCHANGED <<chainVars, received>>
    /\ IF HasQuorum(n, lg, "ViewChange")
       THEN IncreaseView(n) /\ ChangeState(n, "NotStarted")
       ELSE Stay /\ UNCHANGED view

StateMigrate(n, lg, bl, q) ==
    /\ log' = [log EXCEPT ![n] = lg]
    /\ UNCHANGED <<stopped, current, faults>>
    /\ \/ MigrateNotStarted(n, lg, bl, q)
       \/ MigratePrePreparing(n, lg, bl, q)
       \/ MigratePreparing(n, lg, bl, q)
       \/ MigrateChecking(n, lg, bl, q)
       \/ MigrateCommitting(n, lg, bl, q)
       \/ MigrateFinished(n, lg, bl, q)
       \/ MigrateViewChanging(n, lg, bl, q)

-----------------------------------------------------------------------------
(***************************************************************************)
(* The daemon's select loop: own messages, messages of peers, polling and  *)
(* the two other timers.  A stopped engine throws away what comes.         *)
(***************************************************************************)

\* The verdicts on a block: it is evaluated on the receiver's own ledger, also
\* when the receiver has packed it itself.
verfifyBlock(n, b) == IF Executes(n, b) THEN {TRUE} ELSE BOOLEAN

\* The verdicts on a message of a verifier: it stands or falls with its block.
VerfifyMsg(n, m) ==
    IF m.block = {} THEN {TRUE} ELSE UNION {verfifyBlock(n, b) : b \in m.block}

\* StateMigrate(msg): a message that is refused, or known, changes nothing.
Handle(n, m, q) ==
    LET lg == addMsg(log[n], m)
        bl == storedBlocks(n, m)
    IN  \E valid \in VerfifyMsg(n, m) :
          IF stopped[n] \/ ~ valid \/ (lg = log[n] /\ bl = blocks[n])
          THEN /\ queue' = [queue EXCEPT ![n] = q]
               /\ UNCHANGED <<chainVars, view, sm, timer, stopped, mm, tasks,
                              current, net, faults, signed>>
          ELSE StateMigrate(n, lg, bl, q)

\* A message about a slot the replica has left is filed and never read: it
\* does what Poll does.
Past(n, m) ==
    \/ m.key.num < blockNum[n] + 1
    \/ m.key.num = blockNum[n] + 1 /\ m.key.view < view[n]

HandleOwn(n) ==
    /\ Active(n)
    /\ queue[n] # <<>>
    /\ Handle(n, Head(queue[n]), Tail(queue[n]))

HandleNet(n) ==
    /\ Active(n)
    /\ \E c \in net :
          /\ c.to = n
          /\ ~ Past(n, c.msg)
          /\ addMsg(log[n], c.msg) # log[n] \/ storedBlocks(n, c.msg) # blocks[n]
          /\ Handle(n, c.msg, queue[n])

Poll(n) ==
    /\ Active(n)
    /\ ~ stopped[n]
    /\ StateMigrate(n, log[n], blocks[n], queue[n])

\* stateTimeout fires; if the engine is stopped the firing is lost.
Timeout(n) ==
    /\ Active(n)
    /\ timer[n]
    /\ view[n] < MaxView
    /\ timer' = [timer EXCEPT ![n] = FALSE]
    /\ IF stopped[n]
       THEN UNCHANGED <<state, received, queue, signed>>
       ELSE /\ state' = [state EXCEPT ![n] = "ViewChanging"]
            /\ received' = [received EXCEPT ![n] = FALSE]
            /\ InsertMsg(n, queue[n], [key |-> KeyOf(n, "ViewChange"), block |-> {}])
    /\ UNCHANGED <<chainVars, view, stopped, mm, tasks, current, net, faults>>

\* requestNewBlockProposal: every 5 seconds while NotStarted.  Only the first
\* request of a slot can change anything, so later ones are left out.
TryProposal(n) ==
    LET m == [key |-> KeyOf(n, "NewBlockProposal"), block |-> {}]
    IN  /\ Active(n)
        /\ n \in Proposers
        /\ ~ stopped[n]
        /\ state[n] = "NotStarted"
        /\ m \notin ToSet(queue[n])
        /\ \A e \in log[n] : e.key # m.key
        /\ InsertMsg(n, queue[n], m)
        /\ net' = net \cup Copies(n, m)
        /\ UNCHANGED <<chainVars, view, sm, timer, stopped, mm, tasks, current,
                       faults>>

-----------------------------------------------------------------------------
(***************************************************************************)
(* BroadcastMsgRoutine.                                                    *)
(***************************************************************************)

\* The block object of a log entry is shared with the store, so a broadcast
\* carries the signatures that have come in since, or raced with them.
Payloads(n, e) ==
    {e.block} \cup
    {{blocks[n][s]} : s \in {t \in DOMAIN blocks[n] \cap {<<e.key.num, e.key.view>>} :
                               \E b \in e.block : b.blk = blocks[n][t].blk}}

\* A task of broadcastSig is broadcast the first time it is met.
Broadcast(n) ==
    /\ tasks[n] # <<>>
    /\ tasks' = [tasks EXCEPT ![n] = Tail(@)]
    /\ LET todo == {e \in log[n] : e.key = Head(tasks[n]) /\ ~ e.sent}
       IN  IF todo = {}
           THEN UNCHANGED <<log, current, net>>
           ELSE \E e \in todo : \E b \in Payloads(n, e) :
                  /\ log' = [log EXCEPT ![n] = (@ \ {e}) \cup {[e EXCEPT !.sent = TRUE]}]
                  /\ net' = net \cup Copies(n, [key |-> e.key, block |-> b])
                  /\ current' = [current EXCEPT ![n] =
                                    IF e.key.type = "ViewChange" THEN {e.key} ELSE {}]
    /\ UNCHANGED <<chainVars, view, sm, timer, stopped, blocks, queue, faults, signed>>

\* Every 4 seconds in ViewChanging the last ViewChange is broadcast again.
Rebroadcast(n) ==
    /\ ~ stopped[n]
    /\ state[n] = "ViewChanging"
    /\ \E k \in current[n] : net' = net \cup Copies(n, [key |-> k, block |-> {}])
    /\ UNCHANGED <<chainVars, view, sm, timer, stopped, mm, queue, tasks,
                   current, faults, signed>>

-----------------------------------------------------------------------------
(***************************************************************************)
(* What the blockchain module and the operating system do.                 *)
(***************************************************************************)

Stop(n) ==
    /\ Active(n)
    /\ n \in Unsteady
    /\ ~ stopped[n]
    /\ faults < MaxFaults
    /\ faults' = faults + 1
    /\ stopped' = [stopped EXCEPT ![n] = TRUE]
    /\ received' = [received EXCEPT ![n] = FALSE]
    /\ ChangeState(n, "NotStarted")
    /\ UNCHANGED <<chainVars, view, mm, queue, tasks, current, net, signed>>

Start(n) ==
    /\ stopped[n]
    /\ stopped' = [stopped EXCEPT ![n] = FALSE]
    /\ UNCHANGED <<chainVars, view, sm, timer, mm, queue, tasks, current, net,
                   faults, signed>>

\* The process dies and comes back: the world state is read from the database,
\* where the view is the one of the last block; all else is lost.
Restart(n) ==
    /\ Active(n)
    /\ n \in Unsteady
    /\ faults < MaxFaults
    /\ faults' = faults + 1
    /\ view' = [view EXCEPT ![n] =
                    IF blockNum[n] = 0 THEN 0
                    ELSE CHOOSE v \in {c.blk.view : c \in {d \in committed[n] :
                                       d.blk.num = blockNum[n]}} : TRUE]
    /\ state' = [state EXCEPT ![n] = "NotStarted"]
    /\ received' = [received EXCEPT ![n] = FALSE]
    /\ timer' = [timer EXCEPT ![n] = TRUE]
    /\ stopped' = [stopped EXCEPT ![n] = TRUE]
    /\ log' = [log EXCEPT ![n] = {}]
    /\ blocks' = [blocks EXCEPT ![n] = <<>>]
    /\ queue' = [queue EXCEPT ![n] = <<>>]
    /\ tasks' = [tasks EXCEPT ![n] = <<>>]
    /\ current' = [current EXCEPT ![n] = {}]
    /\ UNCHANGED <<chainVars, net, signed>>

Step(n) ==
    \/ HandleOwn(n)
    \/ HandleNet(n)
    \/ Poll(n)
    \/ Timeout(n)
    \/ TryProposal(n)
    \/ Broadcast(n)
    \/ Rebroadcast(n)
    \/ Stop(n)
    \/ Start(n)
    \/ Restart(n)

Next == \E n \in Node : Step(n)

Spec == Init /\ [][Next]_vars

(***************************************************************************)
(* What the scheduling guarantees when no timer fires early: the daemon    *)
(* keeps taking from its channel and polling (pbft.go:172-189), the        *)
(* broadcast routine keeps running (broadcast.go:34-53), tryProposalTimer  *)
(* is reset each time it fires (pbft.go:221), and a connected peer gets    *)
(* every message.  Nothing is assumed of Timeout, Stop, Start and Restart. *)
(***************************************************************************)
Fairness ==
    \A n \in Node :
        /\ WF_vars(HandleOwn(n))
        /\ WF_vars(HandleNet(n))
        /\ WF_vars(Poll(n))
        /\ WF_vars(TryProposal(n))
        /\ WF_vars(Broadcast(n))

FairSpec == Spec /\ Fairness

-----------------------------------------------------------------------------
(***************************************************************************)
(* Refinement: without stops and restarts the daemon implements            *)
(* PbftProtocol.  What a replica has signed is in the history; whose       *)
(* signature a block carries is in the store of the one who signed.        *)
(***************************************************************************)

signedBlocks ==
    UNION {{[block |-> blocks[n][s].blk, by |-> n] :
              s \in {t \in DOMAIN blocks[n] : \E p \in blocks[n][t].pairs : p.by = n}} :
           n \in Node}

committedBlocks == [n \in Node |-> {c.blk : c \in committed[n]}]

\* What sm.receivedBlock points to is the block in the store.
receivedBlock ==
    [n \in Node |-> IF received[n] THEN {b.blk : b \in FindBlock(n, blocks[n])} ELSE {}]

P == INSTANCE PbftProtocol WITH
        committed <- committedBlocks,
        received  <- receivedBlock,
        proposals <- proposed,
        sigs      <- signedBlocks,
        msgs      <- voted

\* Queue, log, polling and broadcasting bring no behaviour that the protocol
\* does not have: every iteration of the daemon (pbft.go:172-233) is one step
\* of PbftProtocol or changes nothing the protocol speaks of.
ImplementsProtocol == P!Spec

-----------------------------------------------------------------------------
(***************************************************************************)
(* Properties.                                                             *)
(***************************************************************************)

\* Two replicas never commit different blocks at one height (block.go:70-97),
\* here with the real logs and with replicas stopped or restarted on the way.
Agreement ==
    \A a, b \in Node : \A x \in committed[a], y \in committed[b] :
        x.blk.num = y.blk.num => x.blk = y.blk

\* What a peer asks of a block it downloads: that enough of its signatures, and
\* the primary's, are signatures on this very block.
VerfifyMostBlock(b) ==
    Cardinality({p.by : p \in {q \in b.pairs : q.of = Hash(b.blk)}}) + 1 >= minNodeNum

\* The block a replica holds on to while it votes is one its peers accept:
\* enough of the signatures addBlock has merged into it (log_msg.go:130-141)
\* are signatures on this very block (verify.go:198-215).
ReceivedIsSigned ==
    \A n \in Node : received[n] =>
        \E b \in FindBlock(n, blocks[n]) : VerfifyMostBlock(b)

\* A replica never waits for a quorum that only its own missing vote can
\* complete: Committing and ViewChanging never cast the vote they count
\* (states.go:323-346, 359-377), so it must be on its way when the state is
\* entered, or a running timer must still be about to send it.
VoteIsOnItsWay ==
    \A n \in Node :
        LET made == {e.key : e \in log[n]} \cup {m.key : m \in ToSet(queue[n])}
        IN  /\ state[n] = "Committing" => KeyOf(n, "Commit") \in made
            /\ state[n] = "ViewChanging" => KeyOf(n, "ViewChange") \in made \/ timer[n]

\* Unless a replica is stopped, restarted or started late, a timer or a failing
\* commit makes one leave its slot, or the packed transactions are ones that a
\* ledger may fail to execute, every replica commits, in whatever order, and
\* however often, messages of different kinds and senders come: each one that
\* comes too early for its state is in the log when its time has come.
EveryReplicaCommits ==
    <>(\/ faults > 0
       \/ \E n \in Node : stopped[n] \/ state[n] = "ViewChanging"
       \/ \E b \in proposed : b.body \in MayFail
       \/ \A n \in Node : blockNum[n] = MaxNum)

=============================================================================
