----------------------------- MODULE BlockSync -----------------------------
(***************************************************************************)
(* The blockchain module of a node that may be behind its peers: it learns *)
(* their heights, stops the consensus engine, downloads the blocks it      *)
(* lacks, commits them in order, and starts the engine again.              *)
(*                                                                         *)
(* It is six kinds of goroutines.  msgOnRecv runs in one per message       *)
(* (Report, Learn, Record; Answer, Signal).  Routine is the only one that  *)
(* files blocks (Tick, TakeBlock, HandOver, Look).  DownloadBlock starts a *)
(* downRoutine for each block it lacks and waits for all of them.  Start   *)
(* commits what Routine hands over, and starts and stops the engine, whose *)
(* daemon commits blocks of its own (EngineCommit).                        *)
(*                                                                         *)
(* A block is its number: VerfifyMostBlock lets pass only what a quorum    *)
(* has signed.  0 stands for no block.                                     *)
(***************************************************************************)
EXTENDS Integers, FiniteSets, FiniteSetsExt

CONSTANTS
    Peer,            \* the ids of the peers
    NoPeer,          \* the nil *Peer
    MaxHeight,       \* the height of the chain
    ReportedHeights, \* the heights peers report, of this or an earlier time
    LoadRoutineNum   \* how many blocks are asked for at once: 100

ASSUME SyncAssumption ==
    /\ NoPeer \notin Peer
    /\ MaxHeight \in Nat
    /\ ReportedHeights \subseteq 1 .. MaxHeight
    /\ LoadRoutineNum \in Nat \ {0}

VARIABLES
    blockNum,    \* ws.BlockNum
    stopped,     \* the engine's StopFlag
    raising,     \* reports that have passed maxHeight < height
    recording,   \* reports about to enter heightPeers
    maxHeight,
    heightPeers,
    startEngine, stopEngine, downloadSig,  \* channels that hold one token
    routine,     \* the downRoutine of a block: "none", "started" or "waiting"
    asked,       \* the peer it asked last
    signalled,   \* the blocks whose complatedSig is full
    requests,    \* the blocks asked for: requests, or their answers, on their way
    adding,      \* calls of AddBlock blocked on the channel addBlock
    signalling,  \* calls of AddBlock whose block has been taken
    numBlock,
    pool,        \* where Routine is
    offered,     \* the block it hands over, or handed over last
    committing,  \* the block Start has received and not dealt with
    crashed      \* has a nil pointer ended the process?

engine == <<blockNum, stopped>>
heights == <<raising, recording, maxHeight, heightPeers>>
tokens == <<startEngine, stopEngine, downloadSig>>
downloads == <<routine, asked, signalled, requests>>
handlers == <<adding, signalling>>
filing == <<numBlock, pool, offered>>
vars == <<engine, heights, tokens, downloads, handlers, filing, committing, crashed>>

Height == 1 .. MaxHeight

TypeOK ==
    /\ blockNum \in 0 .. MaxHeight /\ stopped \in BOOLEAN
    /\ raising \cup recording \cup heightPeers \subseteq Peer \X ReportedHeights
    /\ maxHeight \in ReportedHeights \cup {0}
    /\ startEngine \in BOOLEAN /\ stopEngine \in BOOLEAN /\ downloadSig \in BOOLEAN
    /\ routine \in [Height -> {"none", "started", "waiting"}]
    /\ asked \in [Height -> Peer \cup {NoPeer}]
    /\ requests \cup signalled \cup adding \cup signalling \cup numBlock \subseteq Height
    /\ pool \in {"select", "offering", "offeringNext", "look", "lookNext"}
    /\ offered \in Height \cup {0} /\ committing \in Height \cup {0}
    /\ crashed \in BOOLEAN

\* The node has started with an empty chain; StopFlag is set.
Init ==
    /\ blockNum = 0 /\ stopped = TRUE
    /\ raising = {} /\ recording = {} /\ maxHeight = 0 /\ heightPeers = {}
    /\ startEngine = FALSE /\ stopEngine = FALSE /\ downloadSig = FALSE
    /\ routine = [num \in Height |-> "none"]
    /\ asked = [num \in Height |-> NoPeer]
    /\ signalled = {} /\ requests = {} /\ adding = {} /\ signalling = {}
    /\ numBlock = {} /\ pool = "select" /\ offered = 0 /\ committing = 0
    /\ crashed = FALSE

\* A step of a goroutine that does not end the process.
Running == ~crashed /\ UNCHANGED crashed

-----------------------------------------------------------------------------
(***************************************************************************)
(* SetPeerHight.  The comparison, the assignment of maxHeight, which no    *)
(* lock guards, and the entry in heightPeers are three steps.  heightPeers *)
(* has a *Peer per message as its key, so a peer is listed with every      *)
(* height it reported, and removePeer, with a pointer of its own, never    *)
(* finds one to remove.                                                    *)
(***************************************************************************)

Report(p, height) ==
    /\ Running
    /\ blockNum < height
    /\ maxHeight < height \/ <<p, height>> \notin heightPeers \* else nothing changes
    /\ <<p, height>> \notin raising \cup recording
    /\ IF maxHeight < height
       THEN raising' = raising \cup {<<p, height>>} /\ UNCHANGED recording
       ELSE recording' = recording \cup {<<p, height>>} /\ UNCHANGED raising
    /\ UNCHANGED <<engine, maxHeight, heightPeers, tokens, downloads, handlers,
                   filing, committing>>

Learn(p, height) ==
    /\ Running
    /\ <<p, height>> \in raising
    /\ raising' = raising \ {<<p, height>>}
    /\ maxHeight' = height
    /\ recording' = recording \cup {<<p, height>>}
    /\ UNCHANGED <<engine, heightPeers, tokens, downloads, handlers, filing,
                   committing>>

Record(p, height) ==
    /\ Running
    /\ <<p, height>> \in recording
    /\ recording' = recording \ {<<p, height>>}
    /\ heightPeers' = heightPeers \cup {<<p, height>>}
    /\ UNCHANGED <<engine, raising, maxHeight, tokens, downloads, handlers,
                   filing, committing>>

-----------------------------------------------------------------------------
(***************************************************************************)
(* DownloadBlock and its routines.                                         *)
(***************************************************************************)

\* DownloadBlock waits for the whole group before it looks at its channel.
StartRound ==
    /\ Running
    /\ downloadSig
    /\ \A num \in Height : routine[num] = "none"
    /\ downloadSig' = FALSE
    /\ LET last == Min({maxHeight, blockNum + LoadRoutineNum})
       IN  routine' = [num \in Height |->
                         IF num \in blockNum + 1 .. last THEN "started" ELSE "none"]
    /\ UNCHANGED <<engine, heights, startEngine, stopEngine, asked, signalled,
                   requests, handlers, filing, committing>>

pickPeer(num, oldPeer) ==
    {p \in Peer \ {oldPeer} : \E height \in num .. MaxHeight : <<p, height>> \in heightPeers}

\* BroadcastToPeer reads the id of the peer it is given: nil ends the process.
Ask(num) ==
    /\ ~crashed
    /\ LET candidates == pickPeer(num, asked[num])
       IN  IF candidates = {}
           THEN crashed' = TRUE /\ UNCHANGED <<asked, requests>>
           ELSE \E p \in candidates :
                   /\ asked' = [asked EXCEPT ![num] = p]
                   /\ requests' = requests \cup {num}
                   /\ UNCHANGED crashed
    /\ UNCHANGED <<engine, heights, tokens, signalled, handlers, filing, committing>>

StartRoutine(num) ==
    /\ routine[num] = "started"
    /\ routine' = [routine EXCEPT ![num] = "waiting"]
    /\ Ask(num)

Retry(num) ==
    /\ routine[num] = "waiting"
    /\ UNCHANGED routine
    /\ Ask(num)

Complete(num) ==
    /\ Running
    /\ routine[num] = "waiting" /\ num \in signalled
    /\ routine' = [routine EXCEPT ![num] = "none"]
    /\ asked' = [asked EXCEPT ![num] = NoPeer]
    /\ signalled' = signalled \ {num}
    /\ UNCHANGED <<engine, heights, tokens, requests, handlers, filing,
                   committing>>

\* The network loses a request or its answer.
Lose(num) ==
    /\ Running
    /\ num \in requests
    /\ requests' = requests \ {num}
    /\ UNCHANGED <<engine, heights, tokens, routine, asked, signalled,
                   handlers, filing, committing>>

\* The answer: VerfifyMostBlock may refuse a block whose transactions need those
\* of blocks still missing, and AddBlock a block that is not needed any more.
Answer(num) ==
    /\ Running
    /\ num \in requests
    /\ requests' = requests \ {num}
    /\ \/ adding' = IF blockNum >= num THEN adding ELSE adding \cup {num}
       \/ num > blockNum + 1 /\ UNCHANGED adding
    /\ UNCHANGED <<engine, heights, tokens, routine, asked, signalled,
                   signalling, filing, committing>>

\* AddBlock, once Routine has taken its block.
Signal(num) ==
    /\ Running
    /\ num \in signalling
    /\ signalling' = signalling \ {num}
    /\ signalled' = IF routine[num] = "waiting" THEN signalled \cup {num} ELSE signalled
    /\ UNCHANGED <<engine, heights, tokens, routine, asked, requests, adding,
                   filing, committing>>

-----------------------------------------------------------------------------
(***************************************************************************)
(* Routine.                                                                *)
(***************************************************************************)

\* A ticker that waits for more than the greatest height.
TickBeyond ==
    /\ Running
    /\ pool = "select"
    /\ IF blockNum > maxHeight
       THEN startEngine' = TRUE /\ UNCHANGED <<stopEngine, downloadSig>>
       ELSE stopEngine' = TRUE /\ downloadSig' = TRUE /\ UNCHANGED startEngine
    /\ UNCHANGED <<engine, heights, downloads, handlers, filing, committing>>

\* stateTicker.  A token that is still in its channel is not added twice, nor
\* taken back when the situation changes.
Tick ==
    /\ Running
    /\ pool = "select"
    /\ IF blockNum >= maxHeight
       THEN startEngine' = TRUE /\ UNCHANGED <<stopEngine, downloadSig>>
       ELSE stopEngine' = TRUE /\ downloadSig' = TRUE /\ UNCHANGED startEngine
    /\ UNCHANGED <<engine, heights, downloads, handlers, filing, committing>>

TakeBlock(num) ==
    /\ Running
    /\ pool = "select"
    /\ num \in adding
    /\ adding' = adding \ {num}
    /\ signalling' = signalling \cup {num}
    /\ IF blockNum + 1 = num
       THEN pool' = "offering" /\ offered' = num /\ UNCHANGED numBlock
       ELSE numBlock' = numBlock \cup {num} /\ UNCHANGED <<pool, offered>>
    /\ UNCHANGED <<engine, heights, tokens, downloads, committing>>

\* newBlock is unbuffered: Start takes the block when it is back in its select.
HandOver ==
    /\ Running
    /\ pool \in {"offering", "offeringNext"}
    /\ committing = 0
    /\ committing' = offered
    /\ pool' = IF pool = "offering" THEN "look" ELSE "lookNext"
    /\ UNCHANGED <<engine, heights, tokens, downloads, handlers, numBlock,
                   offered>>

\* Is the next block there?  After the first block the next number is computed
\* from ws.BlockNum, which Start may have increased already.
Look ==
    /\ Running
    /\ pool \in {"look", "lookNext"}
    /\ LET nextnum == IF pool = "look" THEN blockNum + 2 ELSE offered + 1
       IN  IF nextnum \in numBlock
           THEN pool' = "offeringNext" /\ offered' = nextnum
           ELSE pool' = "select" /\ UNCHANGED offered
    /\ UNCHANGED <<engine, heights, tokens, downloads, handlers, numBlock,
                   committing>>

-----------------------------------------------------------------------------
(***************************************************************************)
(* Start, and the engine.                                                  *)
(***************************************************************************)

\* A commit that removes the block from numBlock whatever becomes of it.
CommitDroppingEarly ==
    /\ Running
    /\ committing # 0
    /\ blockNum' = IF blockNum + 1 = committing THEN committing ELSE blockNum
    /\ numBlock' = numBlock \ {committing}
    /\ committing' = 0
    /\ UNCHANGED <<stopped, heights, tokens, downloads, handlers, pool,
                   offered>>

\* A commit that does not look at the number.
CommitUnchecked ==
    /\ Running
    /\ committing # 0
    /\ blockNum' = blockNum + 1
    /\ numBlock' = numBlock \ {committing}
    /\ committing' = 0
    /\ UNCHANGED <<stopped, heights, tokens, downloads, handlers, pool,
                   offered>>

\* A block that comes too early stays in numBlock, one that comes too late does
\* not; CommitBlock takes the next one.
Commit ==
    /\ Running
    /\ committing # 0
    /\ blockNum' = IF blockNum + 1 = committing THEN committing ELSE blockNum
    /\ numBlock' = IF blockNum + 1 < committing THEN numBlock ELSE numBlock \ {committing}
    /\ committing' = 0
    /\ UNCHANGED <<stopped, heights, tokens, downloads, handlers, pool,
                   offered>>

StartTheEngine ==
    /\ Running
    /\ committing = 0
    /\ startEngine
    /\ startEngine' = FALSE
    /\ stopped' = FALSE
    /\ UNCHANGED <<blockNum, heights, stopEngine, downloadSig, downloads,
                   handlers, filing, committing>>

StopTheEngine ==
    /\ Running
    /\ committing = 0
    /\ stopEngine
    /\ stopEngine' = FALSE
    /\ stopped' = TRUE
    /\ UNCHANGED <<blockNum, heights, startEngine, downloadSig, downloads,
                   handlers, filing, committing>>

\* The daemon finishes a block.
EngineCommit ==
    /\ Running
    /\ ~stopped
    /\ blockNum < MaxHeight
    /\ blockNum' = blockNum + 1
    /\ UNCHANGED <<stopped, heights, tokens, downloads, handlers, filing,
                   committing>>

-----------------------------------------------------------------------------
Next ==
    \/ \E p \in Peer, h \in ReportedHeights : Report(p, h) \/ Learn(p, h) \/ Record(p, h)
    \/ StartRound
    \/ \E num \in Height :
          \/ StartRoutine(num) \/ Retry(num) \/ Complete(num)
          \/ Lose(num) \/ Answer(num) \/ Signal(num) \/ TakeBlock(num)
    \/ Tick \/ HandOver \/ Look
    \/ Commit \/ StartTheEngine \/ StopTheEngine \/ EngineCommit

\* Goroutines keep running and tickers keep firing; a peer keeps telling its
\* height, and one that is asked again and again answers at last.  Fairness is
\* asked of groups of steps, which is less than Go's scheduler gives to each.
\* Nothing is assumed of the engine's commits, of StopTheEngine and of losses.
Fairness ==
    /\ WF_vars(\E p \in Peer : Report(p, Max(ReportedHeights)))
    /\ WF_vars(\E p \in Peer, h \in ReportedHeights : Learn(p, h) \/ Record(p, h))
    /\ WF_vars(StartRound \/ \E num \in Height : StartRoutine(num) \/ Complete(num))
    /\ WF_vars(\E num \in Height : Retry(num))
    /\ SF_vars(\E num \in Height : Answer(num) /\ adding' # adding)
    /\ WF_vars(\E num \in Height : TakeBlock(num))
    /\ WF_vars(\E num \in Height : Signal(num))
    /\ WF_vars(Tick)
    /\ WF_vars(HandOver \/ Look \/ Commit)
    /\ WF_vars(StartTheEngine)

Spec == Init /\ [][Next]_vars

FairSpec == Spec /\ Fairness

-----------------------------------------------------------------------------
(***************************************************************************)
(* Properties.                                                             *)
(***************************************************************************)

\* A block whose download counts as complete is not lost before the node has
\* it: it is committed, or filed, or on its way to Start (download.go:117-137,
\* block.go:54-71).  What is skipped is still there to be handed over later.
DoneIsKept ==
    \A num \in signalling \cup signalled :
        \/ num <= blockNum
        \/ num \in numBlock
        \/ num = committing
        \/ pool = "offering" /\ num = offered

\* What makes DoneIsKept inductive: a block on its way to Start is no further
\* than the next one, or it is filed as well.
NextOrFiled(num) == num <= blockNum + 1 \/ num \in numBlock

OnItsWay ==
    /\ pool = "offering" => offered <= blockNum + 1
    /\ pool = "offeringNext" => NextOrFiled(offered)
    /\ committing # 0 => NextOrFiled(committing)

KeptInv == TypeOK /\ OnItsWay /\ DoneIsKept

\* A node that is behind "stops consensus and catches up with the highest node"
\* (download.go:51), and then its engine runs again for good, whatever stale
\* tokens are left in the channels; unless a routine that finds no other peer
\* to ask has ended the process.
CatchesUp == <>[](blockNum = MaxHeight /\ ~stopped) \/ <>crashed

=============================================================================
