---------------------------- MODULE PeerBook_proofs ----------------------------
(***************************************************************************)
(* What holds of PeerBook for every number of streams, connections,        *)
(* messages and faults: its type, and how a stream loses its place.        *)
(***************************************************************************)
EXTENDS PeerBook, TLAPS, SequenceTheorems

\* What a list looks like with one more element.
LEMMA Appended ==
    ASSUME NEW S, NEW f \in Seq(S), NEW e \in S
    PROVE  /\ Append(f, e) \in [1 .. (Len(f) + 1) -> S]
           /\ \A i \in 1 .. Len(f) : Append(f, e)[i] = f[i]
           /\ Append(f, e)[Len(f) + 1] = e
<1>1. /\ Append(f, e) \in Seq(S) /\ Len(Append(f, e)) = Len(f) + 1
      /\ \A i \in 1 .. Len(f) : Append(f, e)[i] = f[i]
      /\ Append(f, e)[Len(f) + 1] = e
    BY AppendProperties
<1>2. Append(f, e) \in [1 .. Len(Append(f, e)) -> S]
    BY <1>1, LenProperties
<1> QED BY <1>1, <1>2

\* A counter below its bound.
LEMMA Bump ==
    ASSUME NEW m \in Nat, NEW x \in 0 .. m, x < m PROVE x + 1 \in 0 .. m /\ x + 1 \in 1 .. m
OBVIOUS

(***************************************************************************)
(* The inductive invariant.                                                *)
(***************************************************************************)

\* RemovePeer's goroutine tells a stream it has found.
ToldInv == removing = "telling" => told # 0

\* Connections are numbered as they come, and a goroutine that has ended
\* closed the connection of its stream before it looks at books.
ClosedInv ==
    /\ \A s \in Stream : conn[s] <= lastConn
    /\ \A s \in Stream : Ends(s) => conn[s] \notin open

IInv == TypeOK /\ ToldInv /\ ClosedInv

LEMMA InitEstablishes == Init => IInv
<1> SUFFICES ASSUME Init PROVE IInv
    OBVIOUS
<1>1. Stream = {}
    BY DEF Init, Stream
<1>2. conn \in Seq(1 .. MaxConns) /\ Len(conn) = 0
    BY DEF Init
<1>3. reader \in [Stream -> {"incoming", "top", "blocked", "forget", "forget, tell",
                              "tell", "done"}]
      /\ writer \in [Stream -> {"incoming", "select", "forget", "done"}]
    BY <1>1 DEF Init
<1>4. TypeOK
    BY <1>1, <1>2, <1>3, PeerBookAssumption DEF Init, TypeOK
<1> QED BY <1>1, <1>4 DEF IInv, ToldInv, ClosedInv, Init

\* The streams there have been are numbered from 1.
LEMMA Streams ==
    ASSUME TypeOK
    PROVE  /\ Len(conn) \in Nat /\ Len(conn) <= MaxStreams
           /\ Stream = 1 .. Len(conn)
           /\ conn \in [1 .. Len(conn) -> 1 .. MaxConns]
<1>1. conn \in Seq(1 .. MaxConns) /\ Len(conn) <= MaxStreams
    BY DEF TypeOK
<1> QED BY <1>1, LenProperties DEF Stream

\* A stream is opened on an open connection, or on the next one.
LEMMA NewStreamStep ==
    ASSUME IInv, NewStream
    PROVE  /\ conn' \in Seq(1 .. MaxConns) /\ Len(conn') <= MaxStreams
           /\ Len(conn') = Len(conn) + 1
           /\ Stream' = 1 .. (Len(conn) + 1)
           /\ \A s \in Stream : conn'[s] = conn[s]
           /\ lastConn' \in 0 .. MaxConns /\ open' \subseteq {lastConn'} \cap (1 .. MaxConns)
           /\ \A s \in Stream' : conn'[s] <= lastConn'
           /\ \A s \in Stream : conn[s] \notin open => conn'[s] \notin open'
<1>1. /\ Len(conn) \in Nat /\ Len(conn) < MaxStreams
      /\ Stream = 1 .. Len(conn)
      /\ conn \in [1 .. Len(conn) -> 1 .. MaxConns]
    BY Streams DEF NewStream, IInv
<1>2. /\ lastConn \in 0 .. MaxConns /\ open \subseteq {lastConn} \cap (1 .. MaxConns)
      /\ \A s \in Stream : conn[s] <= lastConn
    BY DEF IInv, TypeOK, ClosedInv
<1>3. PICK c \in 1 .. MaxConns :
         /\ conn' = Append(conn, c)
         /\ \/ c \in open /\ UNCHANGED <<open, lastConn>>
            \/ /\ lastConn < MaxConns /\ c = lastConn + 1
               /\ open' = {lastConn + 1} /\ lastConn' = lastConn + 1
    <2>1. CASE (\E c \in open : conn' = Append(conn, c)) /\ UNCHANGED <<open, lastConn>>
        BY <2>1, <1>2
    <2>2. CASE lastConn < MaxConns /\ conn' = Append(conn, lastConn + 1)
               /\ open' = {lastConn + 1} /\ lastConn' = lastConn + 1
        <3>1. lastConn + 1 \in 1 .. MaxConns
            BY <1>2, <2>2, PeerBookAssumption
        <3> QED BY <2>2, <3>1
    <2> QED BY <2>1, <2>2 DEF NewStream
<1>4. /\ conn' \in Seq(1 .. MaxConns) /\ Len(conn') = Len(conn) + 1
      /\ \A s \in 1 .. Len(conn) : conn'[s] = conn[s]
      /\ conn'[Len(conn) + 1] = c
    <2>1. conn \in Seq(1 .. MaxConns)
        BY DEF IInv, TypeOK
    <2> QED BY <1>3, <2>1, AppendProperties
<1>5. Stream' = 1 .. (Len(conn) + 1)
    BY <1>4, LenProperties DEF Stream
<1>6. Len(conn') <= MaxStreams
    BY <1>1, <1>4, PeerBookAssumption
<1>7. /\ lastConn' \in 0 .. MaxConns /\ open' \subseteq {lastConn'} \cap (1 .. MaxConns)
      /\ lastConn <= lastConn' /\ c <= lastConn'
    <2>1. CASE c \in open /\ UNCHANGED <<open, lastConn>>
        BY <1>2, <2>1
    <2>2. CASE /\ lastConn < MaxConns /\ c = lastConn + 1
               /\ open' = {lastConn + 1} /\ lastConn' = lastConn + 1
        BY <1>2, <2>2, PeerBookAssumption
    <2> QED BY <1>3, <2>1, <2>2
<1>8. \A s \in 1 .. Len(conn) : conn'[s] <= lastConn'
    <2> TAKE s \in 1 .. Len(conn)
    <2>1. conn[s] <= lastConn /\ conn[s] \in 1 .. MaxConns /\ conn'[s] = conn[s]
        BY <1>1, <1>2, <1>4
    <2> QED BY <2>1, <1>2, <1>7, PeerBookAssumption
<1>9. \A s \in Stream' : conn'[s] <= lastConn'
    <2> TAKE s \in Stream'
    <2>1. s \in 1 .. Len(conn) \/ s = Len(conn) + 1
        BY <1>1, <1>5
    <2> QED BY <2>1, <1>4, <1>7, <1>8
<1>10. \A s \in Stream : conn[s] \notin open => conn'[s] \notin open'
    <2> TAKE s \in Stream
    <2>1. conn'[s] = conn[s] /\ conn[s] <= lastConn /\ conn[s] \in 1 .. MaxConns
        BY <1>1, <1>2, <1>4
    <2> QED BY <2>1, <1>2, <1>3, PeerBookAssumption
<1> QED BY <1>1, <1>4, <1>5, <1>6, <1>7, <1>9, <1>10

\* A step that opens no stream: what is left of IInv to show.
LEMMA SameStreams ==
    ASSUME IInv, UNCHANGED <<conn, lastConn>>, open' \subseteq open,
           book' \in {0} \cup Stream,
           reader' \in [Stream -> {"incoming", "top", "blocked", "forget",
                                   "forget, tell", "tell", "done"}],
           writer' \in [Stream -> {"incoming", "select", "forget", "done"}],
           closeRead' \subseteq Stream, closeWrite' \subseteq Stream,
           dialer' \in {"asleep", "dialing"},
           removing' \in {"idle", "looking", "telling"}, told' \in {0} \cup Stream,
           waiting' \subseteq (1 .. MaxMsgs) \X Stream,
           incoming' \in 0 .. MaxIncoming, msgs' \in 0 .. MaxMsgs,
           faults' \in 0 .. MaxFaults,
           removing' = "telling" => told' # 0,
           \A s \in Stream : Ends(s)' => Ends(s) \/ conn[s] \notin open'
    PROVE  IInv'
<1>1. Stream' = Stream
    BY DEF Stream
<1>2. TypeOK'
    BY <1>1 DEF TypeOK, IInv
<1>3. ClosedInv'
    BY <1>1 DEF ClosedInv, IInv
<1> QED BY <1>2, <1>3 DEF IInv, ToldInv

\* A step that opens a stream: what is left of IInv to show.
LEMMA OneMoreStream ==
    ASSUME IInv, NewStream,
           book' \in {book, Len(conn')},
           NEW r \in {"incoming", "top"}, NEW w \in {"incoming", "select"},
           reader' = Append(reader, r), writer' = Append(writer, w),
           UNCHANGED <<tokens, removing, told, waiting, msgs, faults>>,
           dialer' \in {"asleep", "dialing"}, incoming' \in 0 .. MaxIncoming
    PROVE  IInv'
<1> DEFINE R == {"incoming", "top", "blocked", "forget", "forget, tell", "tell", "done"}
           W == {"incoming", "select", "forget", "done"}
<1>1. /\ Len(conn) \in Nat /\ Stream = 1 .. Len(conn)
      /\ book \in {0} \cup Stream
      /\ reader \in [1 .. Len(conn) -> R] /\ writer \in [1 .. Len(conn) -> W]
      /\ closeRead \subseteq Stream /\ closeWrite \subseteq Stream
      /\ removing \in {"idle", "looking", "telling"} /\ told \in {0} \cup Stream
      /\ waiting \subseteq (1 .. MaxMsgs) \X Stream
      /\ msgs \in 0 .. MaxMsgs /\ faults \in 0 .. MaxFaults
    BY Streams DEF IInv, TypeOK
<1>2. /\ conn' \in Seq(1 .. MaxConns) /\ Len(conn') <= MaxStreams
      /\ Len(conn') = Len(conn) + 1
      /\ Stream' = 1 .. (Len(conn) + 1)
      /\ \A s \in Stream : conn'[s] = conn[s]
      /\ lastConn' \in 0 .. MaxConns /\ open' \subseteq {lastConn'} \cap (1 .. MaxConns)
      /\ \A s \in Stream' : conn'[s] <= lastConn'
      /\ \A s \in Stream : conn[s] \notin open => conn'[s] \notin open'
    BY NewStreamStep
<1>3. /\ Stream \subseteq Stream' /\ Len(conn) + 1 \in Stream'
      /\ \A s \in Stream' : s \in Stream \/ s = Len(conn) + 1
    <2>1. /\ Len(conn) \in Nat /\ Stream = 1 .. Len(conn) /\ Stream' = 1 .. (Len(conn) + 1)
        BY <1>1, <1>2
    <2> QED BY <2>1
<1>4. /\ reader' \in [Stream' -> R]
      /\ \A s \in Stream : reader'[s] = reader[s]
      /\ reader'[Len(conn) + 1] = r
    <2>1. reader \in Seq(R) /\ Len(reader) = Len(conn) /\ r \in R
        <3>1. Len(conn) \in Nat /\ reader \in [1 .. Len(conn) -> R] /\ r \in R
            BY <1>1
        <3> HIDE DEF R
        <3> QED BY <3>1
    <2>2. /\ Append(reader, r) \in [1 .. (Len(conn) + 1) -> R]
          /\ \A i \in 1 .. Len(conn) : Append(reader, r)[i] = reader[i]
          /\ Append(reader, r)[Len(conn) + 1] = r
        <3> HIDE DEF R
        <3> QED BY <2>1, Appended
    <2> QED BY <1>1, <1>2, <2>2
<1>5. /\ writer' \in [Stream' -> W]
      /\ \A s \in Stream : writer'[s] = writer[s]
      /\ writer'[Len(conn) + 1] = w
    <2>1. writer \in Seq(W) /\ Len(writer) = Len(conn) /\ w \in W
        <3>1. Len(conn) \in Nat /\ writer \in [1 .. Len(conn) -> W] /\ w \in W
            BY <1>1
        <3> HIDE DEF W
        <3> QED BY <3>1
    <2>2. /\ Append(writer, w) \in [1 .. (Len(conn) + 1) -> W]
          /\ \A i \in 1 .. Len(conn) : Append(writer, w)[i] = writer[i]
          /\ Append(writer, w)[Len(conn) + 1] = w
        <3> HIDE DEF W
        <3> QED BY <2>1, Appended
    <2> QED BY <1>1, <1>2, <2>2
<1>6. book' \in {0} \cup Stream'
    BY <1>1, <1>2, <1>3
<1>7. TypeOK'
    <2>1. /\ closeRead' \subseteq Stream' /\ closeWrite' \subseteq Stream'
          /\ removing' \in {"idle", "looking", "telling"} /\ told' \in {0} \cup Stream'
          /\ msgs' \in 0 .. MaxMsgs /\ faults' \in 0 .. MaxFaults
        BY <1>1, <1>3 DEF tokens
    <2>2. waiting' \subseteq (1 .. MaxMsgs) \X Stream'
        BY <1>1, <1>3
    <2>3. dialer' \in {"asleep", "dialing"} /\ incoming' \in 0 .. MaxIncoming
        OBVIOUS
    <2> QED BY <1>2, <1>4, <1>5, <1>6, <2>1, <2>2, <2>3 DEF TypeOK
<1>8. \A s \in Stream' : Ends(s)' => conn'[s] \notin open'
    <2> SUFFICES ASSUME NEW s \in Stream', Ends(s)' PROVE conn'[s] \notin open'
        OBVIOUS
    <2>1. s \in Stream /\ Ends(s)
        <3>1. s # Len(conn) + 1
            BY <1>4, <1>5 DEF Ends
        <3>2. s \in Stream
            BY <1>3, <3>1
        <3> QED BY <1>4, <1>5, <3>2 DEF Ends
    <2> QED BY <2>1, <1>2 DEF IInv, ClosedInv
<1> QED BY <1>2, <1>7, <1>8 DEF IInv, ToldInv, ClosedInv

\* The invariant holds after every step.
LEMMA StepKeeps == ASSUME IInv, [Next]_vars PROVE IInv'
<1> DEFINE R == {"incoming", "top", "blocked", "forget", "forget, tell", "tell", "done"}
           W == {"incoming", "select", "forget", "done"}
<1>0. /\ book \in {0} \cup Stream
      /\ reader \in [Stream -> R] /\ writer \in [Stream -> W]
      /\ closeRead \subseteq Stream /\ closeWrite \subseteq Stream
      /\ dialer \in {"asleep", "dialing"}
      /\ removing \in {"idle", "looking", "telling"} /\ told \in {0} \cup Stream
      /\ waiting \subseteq (1 .. MaxMsgs) \X Stream
      /\ incoming \in 0 .. MaxIncoming /\ msgs \in 0 .. MaxMsgs /\ faults \in 0 .. MaxFaults
      /\ removing = "telling" => told # 0
    BY DEF IInv, TypeOK, ToldInv
<1>31. 0 \notin Stream
    BY Streams DEF IInv
<1>32. MaxFaults \in Nat /\ MaxMsgs \in Nat /\ MaxIncoming \in Nat
    BY PeerBookAssumption
<1> USE DEF net, ends, tokens, rest
<1>1. CASE UNCHANGED vars
    BY <1>0, <1>1, SameStreams DEF vars, Ends
<1>2. CASE Find
    BY <1>0, <1>2, SameStreams DEF Find, Ends
<1>3. CASE DialFails
    BY <1>0, <1>3, SameStreams DEF DialFails, Ends
<1>4. CASE Dial
    BY <1>0, <1>31, <1>4, OneMoreStream DEF Dial
<1>5. CASE PeerDials
    <2>1. incoming' \in 0 .. MaxIncoming
        BY <1>0, <1>32, <1>5, Bump DEF PeerDials
    <2> QED BY <1>0, <1>31, <1>5, <2>1, OneMoreStream DEF PeerDials
<1>6. ASSUME NEW c \in open, Drop(c) PROVE IInv'
    <2>1. faults' \in 0 .. MaxFaults
        BY <1>0, <1>32, <1>6, Bump DEF Drop
    <2> QED BY <1>0, <1>6, <2>1, SameStreams DEF Drop, Ends
<1>7. ASSUME NEW s \in Stream, streamHandler(s) PROVE IInv'
    BY <1>0, <1>7, SameStreams DEF streamHandler, Ends
<1>8. ASSUME NEW s \in Stream, Loop(s) PROVE IInv'
    BY <1>0, <1>8, SameStreams DEF Loop, Close, Ends
<1>9. ASSUME NEW s \in Stream, Closed(s) PROVE IInv'
    BY <1>0, <1>9, SameStreams DEF Closed, ReceiveFails, Close, Ends
<1>10. ASSUME NEW s \in Stream, ReaderForgets(s) PROVE IInv'
    BY <1>0, <1>10, SameStreams DEF ReaderForgets, Ends
<1>11. ASSUME NEW s \in Stream, TellsWriter(s) PROVE IInv'
    BY <1>0, <1>11, SameStreams DEF TellsWriter, Ends
<1>12. ASSUME NEW s \in Stream, Receive(s) PROVE IInv'
    BY <1>0, <1>12, SameStreams DEF Receive, Ends
<1>13. ASSUME NEW s \in Stream, Spoilt(s) PROVE IInv'
    <2>1. faults' \in 0 .. MaxFaults
        BY <1>0, <1>32, <1>13, Bump DEF Spoilt
    <2> QED BY <1>0, <1>13, <2>1, SameStreams DEF Spoilt, ReceiveFails, Close, Ends
<1>14. ASSUME NEW s \in Stream, WriterStops(s) PROVE IInv'
    BY <1>0, <1>14, SameStreams DEF WriterStops, Close, Ends
<1>15. ASSUME NEW s \in Stream, WriterForgets(s) PROVE IInv'
    BY <1>0, <1>15, SameStreams DEF WriterForgets, Ends
<1>16. ASSUME NEW w \in waiting, Write(w[1], w[2]) PROVE IInv'
    BY <1>0, <1>16, SameStreams DEF Write, Ends
<1>17. ASSUME NEW w \in waiting, TimeOut(w[1], w[2]) PROVE IInv'
    BY <1>0, <1>17, SameStreams DEF TimeOut, Ends
<1>18. CASE BroadcastToPeer
    <2>1. msgs < MaxMsgs /\ msgs' = msgs + 1 /\ msgs \in 0 .. MaxMsgs
        BY <1>0, <1>18 DEF BroadcastToPeer
    <2>2. msgs' \in 1 .. MaxMsgs /\ msgs' \in 0 .. MaxMsgs
        BY <1>32, <2>1
    <2>3. CASE book # 0 /\ waiting' = waiting \cup {<<msgs', book>>} /\ UNCHANGED removing
        <3>1. waiting' \subseteq (1 .. MaxMsgs) \X Stream
            <4>1. book \in Stream
                BY <1>0, <2>3
            <4>2. <<msgs', book>> \in (1 .. MaxMsgs) \X Stream
                BY <2>2, <4>1
            <4> QED BY <1>0, <2>3, <4>2
        <3> QED BY <1>0, <1>18, <2>2, <2>3, <3>1, SameStreams DEF BroadcastToPeer, Ends
    <2>4. CASE removing' = "looking" /\ UNCHANGED waiting
        BY <1>0, <1>18, <2>2, <2>4, SameStreams DEF BroadcastToPeer, Ends
    <2> QED BY <1>18, <2>3, <2>4 DEF BroadcastToPeer
<1>19. CASE RemovePeer
    BY <1>0, <1>19, SameStreams DEF RemovePeer, Ends
<1>20. CASE RemoveWriter
    BY <1>0, <1>20, SameStreams DEF RemoveWriter, Ends
<1> QED
    BY <1>1, <1>2, <1>3, <1>4, <1>5, <1>6, <1>7, <1>8, <1>9, <1>10, <1>11, <1>12,
       <1>13, <1>14, <1>15, <1>16, <1>17, <1>18, <1>19, <1>20
    DEF Next, Reader, Writer

\* The type of the book, its streams and their goroutines is kept by every
\* step, for every bound (p2p.go, data_handler.go).
THEOREM TypeCorrect == Spec => []TypeOK
<1>1. IInv => TypeOK
    BY DEF IInv
<1> QED BY <1>1, InitEstablishes, StepKeeps, PTL DEF Spec

\* A stream on an open connection loses its place only to another one: what
\* deletes the entry closed the connection of its own stream before
\* (data_handler.go:25-41, 62-78).
LEMMA PlaceStep ==
    ASSUME IInv, [Next]_vars, NEW s \in Stream, book = s, book' # s, conn[s] \in open'
    PROVE  \E t \in DOMAIN conn' \ {s} :
              \/ book' = t
              \/ t \in Stream /\ Ends(t) /\ (reader'[t] # reader[t] \/ writer'[t] # writer[t])
<1> DEFINE Goal == \E t \in DOMAIN conn' \ {s} :
              \/ book' = t
              \/ t \in Stream /\ Ends(t) /\ (reader'[t] # reader[t] \/ writer'[t] # writer[t])
<1>1. \A t \in Stream : Ends(t) => conn[t] \notin open
    BY DEF IInv, ClosedInv
<1>2. /\ reader \in [Stream -> {"incoming", "top", "blocked", "forget", "forget, tell",
                                "tell", "done"}]
      /\ writer \in [Stream -> {"incoming", "select", "forget", "done"}]
    BY DEF IInv, TypeOK
<1>3. CASE Dial
    <2>1. Len(conn) \in Nat /\ Stream = 1 .. Len(conn)
        BY Streams DEF IInv
    <2>2. Stream' = 1 .. (Len(conn) + 1) /\ book' = Len(conn) + 1
        BY <1>3, NewStreamStep DEF Dial
    <2>3. book' \in Stream' \ {s}
        BY <2>1, <2>2
    <2> QED BY <2>3 DEF Stream
<1>4. ASSUME NEW t \in Stream, streamHandler(t) PROVE Goal
    <2>1. book' = t /\ conn' = conn
        BY <1>4 DEF streamHandler, net
    <2> QED BY <2>1 DEF Stream
<1>5. ASSUME NEW t \in Stream, ReaderForgets(t) PROVE Goal
    <2>1. conn' = conn /\ open' = open /\ Ends(t) /\ reader'[t] # reader[t]
        BY <1>2, <1>5 DEF ReaderForgets, net, Ends
    <2> QED BY <1>1, <2>1 DEF Stream
<1>6. ASSUME NEW t \in Stream, WriterForgets(t) PROVE Goal
    <2>1. conn' = conn /\ open' = open /\ Ends(t) /\ writer'[t] # writer[t]
        BY <1>2, <1>6 DEF WriterForgets, net, Ends
    <2> QED BY <1>1, <2>1 DEF Stream
<1>7. CASE \/ UNCHANGED vars \/ Find \/ DialFails \/ PeerDials
           \/ \E c \in open : Drop(c)
           \/ \E t \in Stream : \/ Loop(t) \/ Closed(t) \/ TellsWriter(t)
                                \/ Receive(t) \/ Spoilt(t) \/ WriterStops(t)
           \/ \E w \in waiting : Write(w[1], w[2]) \/ TimeOut(w[1], w[2])
           \/ BroadcastToPeer \/ RemovePeer \/ RemoveWriter
    <2>1. book' = book
        BY <1>7 DEF vars, Find, DialFails, PeerDials, Drop, Loop, Closed, ReceiveFails,
           TellsWriter, Receive, Spoilt, WriterStops, Write, TimeOut, BroadcastToPeer,
           RemovePeer, RemoveWriter
    <2> QED BY <2>1
<1> QED BY <1>3, <1>4, <1>5, <1>6, <1>7 DEF Next, Reader, Writer

\* In every behaviour of the book, a stream whose connection stays open loses
\* its place only to a stream that begins or one that ends.
THEOREM PlaceIsLostToAnother == Spec => LosesPlaceToAnother
<1> DEFINE Step == \A s \in Stream :
         book = s /\ book' # s /\ conn[s] \in open' =>
            \E t \in DOMAIN conn' \ {s} :
               book' = t \/ (t \in Stream /\ Ends(t) /\ (reader'[t] # reader[t] \/ writer'[t] # writer[t]))
<1>1. IInv /\ [Next]_vars => [Step]_vars
    BY PlaceStep
<1> HIDE DEF Step
<1>2. Spec => [][Step]_vars
    BY <1>1, InitEstablishes, StepKeeps, PTL DEF Spec
<1> QED BY <1>2 DEF Step, LosesPlaceToAnother

=============================================================================
