-------------------------- MODULE BlockSync_proofs --------------------------
(***************************************************************************)
(* Theorems about the blockchain module, for any peers, any height of the  *)
(* chain and any window.                                                   *)
(***************************************************************************)
EXTENDS BlockSync, TLAPS

-----------------------------------------------------------------------------
(***************************************************************************)
(* Type correctness.                                                       *)
(***************************************************************************)

\* What the module starts with is well typed.
LEMMA InitTyped == Init => TypeOK
<1> SUFFICES ASSUME Init
             PROVE  TypeOK
  OBVIOUS
<1>1. blockNum \in 0 .. MaxHeight
  BY SyncAssumption DEF SyncAssumption, Init
<1>2. /\ routine \in [Height -> {"none", "started", "waiting"}]
      /\ asked \in [Height -> Peer \cup {NoPeer}]
  BY DEF Init
<1> QED
  BY <1>1, <1>2 DEF Init, TypeOK

\* Heights, rounds and requests keep their types.
LEMMA DownloadTyped ==
    ASSUME TypeOK,
           \/ \E p \in Peer, h \in ReportedHeights :
                 Report(p, h) \/ Learn(p, h) \/ Record(p, h)
           \/ StartRound
           \/ \E num \in Height : StartRoutine(num) \/ Retry(num) \/ Complete(num)
    PROVE  TypeOK'
<1>1. ASSUME NEW p \in Peer, NEW h \in ReportedHeights,
             Report(p, h) \/ Learn(p, h) \/ Record(p, h)
      PROVE  TypeOK'
  BY <1>1 DEF TypeOK, Report, Learn, Record, Running, engine, tokens, downloads,
              handlers, filing
<1>2. CASE StartRound
  <2>1. routine' \in [Height -> {"none", "started", "waiting"}]
    BY <1>2 DEF StartRound
  <2> QED
    BY <1>2, <2>1 DEF TypeOK, StartRound, Running, engine, heights, handlers, filing
<1>3. ASSUME NEW num \in Height, Ask(num), UNCHANGED routine \/
             routine' = [routine EXCEPT ![num] = "waiting"]
      PROVE  TypeOK'
  <2>1. routine' \in [Height -> {"none", "started", "waiting"}]
    BY <1>3 DEF TypeOK
  <2>2. asked' \in [Height -> Peer \cup {NoPeer}] /\ requests' \subseteq Height
    BY <1>3 DEF TypeOK, Ask, pickPeer
  <2>3. crashed' \in BOOLEAN
    BY <1>3 DEF TypeOK, Ask
  <2> QED
    BY <1>3, <2>1, <2>2, <2>3 DEF TypeOK, Ask, engine, heights, tokens, handlers, filing
<1>4. ASSUME NEW num \in Height, Complete(num)
      PROVE  TypeOK'
  BY <1>4 DEF TypeOK, Complete, Running, engine, heights, tokens, handlers, filing
<1> QED
  BY <1>1, <1>2, <1>3, <1>4 DEF StartRoutine, Retry

\* So do the blocks that come in, are filed and are committed.
LEMMA BlocksTyped ==
    ASSUME TypeOK,
           \/ \E num \in Height : Lose(num) \/ Answer(num) \/ Signal(num) \/ TakeBlock(num)
           \/ Tick \/ HandOver \/ Look
           \/ Commit \/ StartTheEngine \/ StopTheEngine \/ EngineCommit
    PROVE  TypeOK'
<1> USE DEF Running, engine, heights, tokens, downloads, handlers, filing
<1>1. ASSUME NEW num \in Height,
             Lose(num) \/ Answer(num) \/ Signal(num) \/ TakeBlock(num)
      PROVE  TypeOK'
  BY <1>1 DEF TypeOK, Lose, Answer, Signal, TakeBlock
<1>2. CASE Tick \/ HandOver \/ Look
  BY <1>2 DEF TypeOK, Tick, HandOver, Look
<1>3. CASE Commit
  BY <1>3 DEF TypeOK, Commit, Height
<1>4. CASE StartTheEngine \/ StopTheEngine
  BY <1>4 DEF TypeOK, StartTheEngine, StopTheEngine
<1>5. CASE EngineCommit
  BY <1>5, SyncAssumption DEF SyncAssumption, TypeOK, EngineCommit
<1> QED
  BY <1>1, <1>2, <1>3, <1>4, <1>5

LEMMA StepTyped == TypeOK /\ [Next]_vars => TypeOK'
<1> SUFFICES ASSUME TypeOK, [Next]_vars
             PROVE  TypeOK'
  OBVIOUS
<1>1. CASE Next
  BY <1>1, DownloadTyped, BlocksTyped DEF Next
<1>2. CASE UNCHANGED vars
  BY <1>2 DEF TypeOK, vars, engine, heights, tokens, downloads, handlers, filing
<1> QED
  BY <1>1, <1>2

\* The height of the node never leaves the chain, and every block that is
\* asked for, filed or handed over is one of the chain.
THEOREM SyncTypeCorrect == Spec => []TypeOK
BY InitTyped, StepTyped, PTL DEF Spec

-----------------------------------------------------------------------------
(***************************************************************************)
(* No finished download is lost.                                           *)
(***************************************************************************)

LEMMA InitKept == Init => KeptInv
BY InitTyped DEF Init, KeptInv, OnItsWay, DoneIsKept

\* Only these steps change anything KeptInv speaks of.
LEMMA KeptUnlessMoved ==
    ASSUME KeptInv, TypeOK',
           UNCHANGED <<blockNum, numBlock, committing, pool, offered>>,
           signalling' \cup signalled' \subseteq signalling \cup signalled
    PROVE  KeptInv'
BY DEF KeptInv, OnItsWay, NextOrFiled, DoneIsKept

\* Routine files the block, or keeps it in hand until Start takes it.
LEMMA TakeBlockKeeps ==
    ASSUME KeptInv, TypeOK', NEW num \in Height, TakeBlock(num)
    PROVE  KeptInv'
<1>1. blockNum \in Int /\ num \in Int
  BY SyncAssumption DEF SyncAssumption, KeptInv, TypeOK, Height
<1>2. OnItsWay'
  BY <1>1 DEF KeptInv, OnItsWay, NextOrFiled, TakeBlock, engine
<1>3. DoneIsKept'
  BY DEF KeptInv, DoneIsKept, TakeBlock, engine, downloads
<1> QED
  BY <1>2, <1>3 DEF KeptInv

LEMMA HandOverKeeps ==
    ASSUME KeptInv, TypeOK', HandOver
    PROVE  KeptInv'
<1>1. OnItsWay'
  BY DEF KeptInv, OnItsWay, NextOrFiled, HandOver, engine
<1>2. 0 \notin signalling \cup signalled
  BY DEF KeptInv, TypeOK, Height
<1>3. DoneIsKept'
  BY <1>2 DEF KeptInv, DoneIsKept, HandOver, engine, downloads, handlers
<1> QED
  BY <1>1, <1>3 DEF KeptInv

LEMMA LookKeeps ==
    ASSUME KeptInv, TypeOK', Look
    PROVE  KeptInv'
<1>1. OnItsWay'
  BY DEF KeptInv, OnItsWay, NextOrFiled, Look, engine
<1>2. pool # "offering"
  BY DEF Look
<1>3. UNCHANGED <<blockNum, numBlock, committing, signalling, signalled>>
  BY DEF Look, engine, downloads, handlers
<1>4. DoneIsKept'
  BY <1>2, <1>3 DEF KeptInv, DoneIsKept
<1> QED
  BY <1>1, <1>4 DEF KeptInv

\* A block that Start drops is committed, by this step or before; one that comes
\* too early was filed, because of OnItsWay.
LEMMA CommitKeeps ==
    ASSUME KeptInv, TypeOK', Commit
    PROVE  KeptInv'
<1>1. blockNum \in Int /\ committing \in Int /\ offered \in Int
  BY SyncAssumption DEF SyncAssumption, KeptInv, TypeOK, Height
<1>2. blockNum' = blockNum \/ blockNum' = blockNum + 1
  BY <1>1 DEF Commit
<1>3. \A num \in Height : num \in numBlock => num \in numBlock' \/ num <= blockNum'
  BY <1>1 DEF Commit, Height
<1>4. offered' = offered /\ pool' = pool /\ committing' = 0
  BY DEF Commit
<1>5. OnItsWay'
  <2>1. CASE pool = "offering"
    BY <1>1, <1>2, <1>4, <2>1 DEF KeptInv, OnItsWay
  <2>2. CASE pool = "offeringNext"
    <3>1. offered <= blockNum + 1 \/ offered \in numBlock
      BY <2>2 DEF KeptInv, OnItsWay, NextOrFiled
    <3>2. offered \in numBlock => offered \in numBlock' \/ offered <= blockNum'
      BY <1>3 DEF KeptInv, TypeOK
    <3>3. offered <= blockNum + 1 \/ offered <= blockNum' => offered <= blockNum' + 1
      BY <1>1, <1>2
    <3> QED
      BY <1>4, <2>2, <3>1, <3>2, <3>3 DEF OnItsWay, NextOrFiled
  <2> QED
    BY <1>4, <2>1, <2>2 DEF OnItsWay
<1>6. ASSUME NEW num \in signalling' \cup signalled'
      PROVE  \/ num <= blockNum'
             \/ num \in numBlock'
             \/ pool' = "offering" /\ num = offered'
  <2>1. num \in Height /\ num \in signalling \cup signalled
    BY <1>6 DEF KeptInv, TypeOK, Commit, downloads, handlers
  <2>2. num \in Int
    BY <2>1 DEF Height
  <2>3. CASE num <= blockNum
    BY <1>1, <1>2, <2>2, <2>3
  <2>4. CASE num \in numBlock
    BY <1>3, <2>1, <2>4
  <2>5. CASE num = committing
    <3>1. num # 0
      BY <2>1 DEF Height
    <3>2. num \in numBlock \/ num <= blockNum + 1
      BY <2>5, <3>1 DEF KeptInv, OnItsWay, NextOrFiled
    <3>3. num <= blockNum + 1 => num <= blockNum'
      BY <1>1, <2>5 DEF Commit
    <3> QED
      BY <1>3, <2>1, <3>2, <3>3
  <2> QED
    BY <1>4, <2>1, <2>3, <2>4, <2>5 DEF KeptInv, DoneIsKept
<1> QED
  BY <1>5, <1>6 DEF KeptInv, DoneIsKept

LEMMA EngineCommitKeeps ==
    ASSUME KeptInv, TypeOK', EngineCommit
    PROVE  KeptInv'
<1>1. /\ blockNum \in Int /\ blockNum' = blockNum + 1
      /\ offered \in Int /\ committing \in Int
      /\ \A num \in signalling \cup signalled : num \in Int
  BY SyncAssumption DEF SyncAssumption, KeptInv, TypeOK, Height, EngineCommit
<1>2. OnItsWay'
  BY <1>1 DEF KeptInv, OnItsWay, NextOrFiled, EngineCommit, filing
<1>3. DoneIsKept'
  BY <1>1 DEF KeptInv, DoneIsKept, EngineCommit, filing, downloads, handlers
<1> QED
  BY <1>2, <1>3 DEF KeptInv

LEMMA StepKeeps == KeptInv /\ [Next]_vars => KeptInv'
<1> SUFFICES ASSUME KeptInv, [Next]_vars
             PROVE  KeptInv'
  OBVIOUS
<1>1. TypeOK'
  BY StepTyped DEF KeptInv
<1> USE DEF engine, heights, tokens, downloads, handlers, filing
<1>2. ASSUME NEW p \in Peer, NEW h \in ReportedHeights,
             Report(p, h) \/ Learn(p, h) \/ Record(p, h)
      PROVE  KeptInv'
  BY <1>1, <1>2, KeptUnlessMoved DEF Report, Learn, Record
<1>3. CASE StartRound
  BY <1>1, <1>3, KeptUnlessMoved DEF StartRound
<1>4. ASSUME NEW num \in Height, StartRoutine(num) \/ Retry(num) \/ Complete(num)
      PROVE  KeptInv'
  BY <1>1, <1>4, KeptUnlessMoved DEF StartRoutine, Retry, Ask, Complete
<1>5. ASSUME NEW num \in Height, Lose(num) \/ Answer(num) \/ Signal(num)
      PROVE  KeptInv'
  BY <1>1, <1>5, KeptUnlessMoved DEF Lose, Answer, Signal
<1>6. ASSUME NEW num \in Height, TakeBlock(num)
      PROVE  KeptInv'
  BY <1>1, <1>6, TakeBlockKeeps
<1>7. CASE Tick \/ StartTheEngine \/ StopTheEngine
  BY <1>1, <1>7, KeptUnlessMoved DEF Tick, StartTheEngine, StopTheEngine
<1>8. CASE HandOver \/ Look \/ Commit \/ EngineCommit
  BY <1>1, <1>8, HandOverKeeps, LookKeeps, CommitKeeps, EngineCommitKeeps
<1>9. CASE UNCHANGED vars
  BY <1>1, <1>9, KeptUnlessMoved DEF vars
<1> QED
  BY <1>2, <1>3, <1>4, <1>5, <1>6, <1>7, <1>8, <1>9 DEF Next

\* A block whose routine has been told that it is here is committed, filed or on
\* its way to Start, in whatever order blocks come in, are taken, are skipped
\* because the engine or Start was faster, and are handed over later.
THEOREM FinishedDownloadsAreKept == Spec => []DoneIsKept
<1>1. KeptInv => DoneIsKept
  BY DEF KeptInv
<1> QED
  BY <1>1, InitKept, StepKeeps, PTL DEF Spec

=============================================================================
