------------------------------- MODULE MCPbft -------------------------------
(***************************************************************************)
(* Instances of Pbft for TLC.  Nothing tells one body from another, so the *)
(* bodies are a symmetry set; the verifiers are not, since the primary     *)
(* depends on the index.                                                   *)
(*                                                                         *)
(* StateView leaves out what a replica can never read again: log entries   *)
(* and blocks of slots it has left, unless a broadcast task still names    *)
(* them, copies of messages it would ignore, unless it may restart and     *)
(* read them anew, and the history, which no step reads.  It is for        *)
(* properties of the rest.  HistoryView keeps what ImplementsProtocol      *)
(* speaks of: states with one such view stand for one state of             *)
(* PbftProtocol and have the same steps.                                   *)
(***************************************************************************)
EXTENDS Pbft

BodySymmetry == Permutations(Bodies)

Named(n, num, v) == \E k \in ToSet(tasks[n]) : k.num = num /\ k.view = v

LiveLog(n) ==
    {e \in log[n] : ~ Past(n, e) \/ Named(n, e.key.num, e.key.view)}

LiveBlocks(n) ==
    {<<s, blocks[n][s]>> : s \in {t \in DOMAIN blocks[n] :
        ~ Past(n, [key |-> [num |-> t[1], view |-> t[2]]]) \/ Named(n, t[1], t[2])}}

\* Would this copy still change the log or the block store?  A block that adds
\* nothing now adds nothing later: signatures are never taken away.
Deliverable(c) ==
    LET n == c.to
        s == <<c.msg.key.num, c.msg.key.view>>
    IN  /\ ~ Past(n, c.msg)
        /\ \/ \A e \in log[n] : e.key # c.msg.key
           \/ \E b \in c.msg.block :
                 s \notin DOMAIN blocks[n] \/ blocks[n] # addBlock(blocks[n], s, b)

\* Could a restart make its receiver ready for this copy?
AfterRestart(c) ==
    faults < MaxFaults /\ c.to \in Unsteady /\ c.msg.key.num > blockNum[c.to]

StateView ==
    <<blockNum, blockID, view, committed, state, received, timer, stopped,
      [n \in Node |-> LiveLog(n)], [n \in Node |-> LiveBlocks(n)],
      queue, tasks, current, {c \in net : Deliverable(c) \/ AfterRestart(c)}, faults,
      halfExecuted>>

HistoryView == <<StateView, signedBlocks, proposed, voted>>

\* For runs that look for one behaviour: one replica's own messages wait at a
\* time, in its queue or for its broadcast routine.
OneBusy == Cardinality({n \in Node : Len(queue[n]) + Len(tasks[n]) > 0}) <= 1

=============================================================================
