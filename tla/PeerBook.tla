------------------------------ MODULE PeerBook ------------------------------
(***************************************************************************)
(* libp2p's book of peers at one node, for one peer: the streams the two   *)
(* nodes open to each other, the goroutine that reads and the one that     *)
(* writes each, the goroutines of BroadcastToPeer and of RemovePeer, and   *)
(* the one that dials.                                                     *)
(*                                                                         *)
(* books has one entry for a peer, and a stream that ends deletes it,      *)
(* whichever stream it holds.  Streams to one peer share a connection, and *)
(* a stream that ends closes it.  The peer opens streams when it likes,    *)
(* the network drops connections and spoils frames.  The unlocked reads of *)
(* books are steps of their own.                                           *)
(***************************************************************************)
EXTENDS Naturals, Sequences, FiniteSets

CONSTANTS MaxStreams, MaxIncoming, MaxConns, MaxFaults, MaxMsgs  \* bounds

ASSUME PeerBookAssumption ==
    /\ MaxStreams \in Nat /\ MaxIncoming \in Nat /\ MaxConns \in Nat
    /\ MaxFaults \in Nat /\ MaxMsgs \in Nat

VARIABLES
    conn,      \* the connection of each stream there has been
    open,      \* open connections
    lastConn,  \* the connections there have been
    book,      \* books[peer]: a stream, or 0
    reader,    \* of a stream: where dataStreamRecv is
    writer,    \* of a stream: where dataStreamSend is
    closeRead, closeWrite,  \* streams whose channel of one element holds a token
    dialer,    \* where SpecialNodeConnect is
    removing,  \* RemovePeer's goroutine: idle, looking, telling
    told,      \* the stream it has found, or 0
    waiting,   \* goroutines of BroadcastToPeer: <<message, stream>>
    incoming,  \* streams the peer has opened so far
    msgs,      \* messages handed to BroadcastToPeer so far
    faults     \* dropped connections and spoilt frames so far

net == <<conn, open, lastConn>>
ends == <<reader, writer>>
tokens == <<closeRead, closeWrite>>
rest == <<dialer, removing, told, waiting, incoming, msgs, faults>>
vars == <<net, book, ends, tokens, rest>>

Stream == DOMAIN conn

Init ==
    /\ conn = <<>> /\ open = {} /\ lastConn = 0
    /\ book = 0
    /\ reader = <<>> /\ writer = <<>>
    /\ closeRead = {} /\ closeWrite = {}
    /\ dialer = "asleep" /\ removing = "idle" /\ told = 0
    /\ waiting = {} /\ incoming = 0 /\ msgs = 0 /\ faults = 0

-----------------------------------------------------------------------------
(***************************************************************************)
(* Streams begin.                                                          *)
(***************************************************************************)

\* Every stream has a connection of its own.
OwnConnection ==
    /\ Len(conn) < MaxStreams /\ lastConn < MaxConns
    /\ conn' = Append(conn, lastConn + 1)
    /\ open' = open \cup {lastConn + 1} /\ lastConn' = lastConn + 1

\* Host.NewStream takes an open connection to the peer, or makes one.
NewStream ==
    /\ Len(conn) < MaxStreams
    /\ \/ /\ \E c \in open : conn' = Append(conn, c)
          /\ UNCHANGED <<open, lastConn>>
       \/ /\ open = {} /\ lastConn < MaxConns
          /\ conn' = Append(conn, lastConn + 1)
          /\ open' = {lastConn + 1} /\ lastConn' = lastConn + 1

\* A dialer that gives up after its first stream.
FindOnce ==
    /\ dialer = "asleep" /\ book = 0 /\ conn = <<>>
    /\ dialer' = "dialing"
    /\ UNCHANGED <<net, book, ends, tokens, removing, told, waiting, incoming, msgs, faults>>

\* SpecialNodeConnect, every 5 seconds, and NodeDiscovery look for the peer.
Find ==
    /\ dialer = "asleep" /\ book = 0
    /\ dialer' = "dialing"
    /\ UNCHANGED <<net, book, ends, tokens, removing, told, waiting, incoming, msgs, faults>>

DialFails ==
    /\ dialer = "dialing"
    /\ dialer' = "asleep"
    /\ UNCHANGED <<net, book, ends, tokens, removing, told, waiting, incoming, msgs, faults>>

\* The new stream takes the place of whatever has come in meanwhile.
Dial ==
    /\ dialer = "dialing"
    /\ NewStream
    /\ book' = Len(conn')
    /\ reader' = Append(reader, "top") /\ writer' = Append(writer, "select")
    /\ dialer' = "asleep"
    /\ UNCHANGED <<tokens, removing, told, waiting, incoming, msgs, faults>>

\* The peer opens a stream, which libp2p hands to streamHandler.
PeerDials ==
    /\ incoming < MaxIncoming
    /\ NewStream
    /\ incoming' = incoming + 1
    /\ reader' = Append(reader, "incoming") /\ writer' = Append(writer, "incoming")
    /\ UNCHANGED <<book, tokens, dialer, removing, told, waiting, msgs, faults>>

streamHandler(s) ==
    /\ reader[s] = "incoming"
    /\ book' = s
    /\ reader' = [reader EXCEPT ![s] = "top"]
    /\ writer' = [writer EXCEPT ![s] = "select"]
    /\ UNCHANGED <<net, tokens, rest>>

\* The network drops a connection.
Drop(c) ==
    /\ faults < MaxFaults
    /\ open' = open \ {c}
    /\ faults' = faults + 1
    /\ UNCHANGED <<conn, lastConn, book, ends, tokens, dialer, removing, told, waiting, incoming, msgs>>

-----------------------------------------------------------------------------
(***************************************************************************)
(* data_handler.go: dataStreamRecv.                                        *)
(***************************************************************************)

Close(s) == open' = open \ {conn[s]} /\ UNCHANGED <<conn, lastConn>>

\* A token is seen only between two frames.
Loop(s) ==
    /\ reader[s] = "top"
    /\ IF s \in closeRead
       THEN /\ closeRead' = closeRead \ {s}
            /\ Close(s)
            /\ reader' = [reader EXCEPT ![s] = "forget"]
       ELSE /\ reader' = [reader EXCEPT ![s] = "blocked"]
            /\ UNCHANGED <<closeRead, net>>
    /\ UNCHANGED <<book, writer, closeWrite, rest>>

\* unpackageData has a message; its handler is a goroutine of its own.
Receive(s) ==
    /\ reader[s] = "blocked" /\ conn[s] \in open
    /\ reader' = [reader EXCEPT ![s] = "top"]
    /\ UNCHANGED <<net, book, writer, tokens, rest>>

\* unpackageData fails at a frame with a wrong header, length, checksum or
\* body, and when the connection is closed.
ReceiveFails(s) ==
    /\ reader[s] = "blocked"
    /\ Close(s)
    /\ reader' = [reader EXCEPT ![s] = "forget, tell"]
    /\ UNCHANGED <<book, writer, tokens, dialer, removing, told, waiting, incoming, msgs>>

Closed(s) == ReceiveFails(s) /\ conn[s] \notin open /\ UNCHANGED faults

Spoilt(s) ==
    /\ faults < MaxFaults
    /\ ReceiveFails(s) /\ conn[s] \in open
    /\ faults' = faults + 1

\* The entry goes, whichever stream it holds.
ReaderForgets(s) ==
    /\ reader[s] \in {"forget", "forget, tell"}
    /\ book' = 0
    /\ reader' = [reader EXCEPT ![s] = IF @ = "forget" THEN "done" ELSE "tell"]
    /\ UNCHANGED <<net, writer, tokens, rest>>

\* A reader that ends without a word.
TellsNobody(s) ==
    /\ reader[s] = "tell"
    /\ reader' = [reader EXCEPT ![s] = "done"]
    /\ UNCHANGED <<net, book, writer, tokens, rest>>

TellsWriter(s) ==
    /\ reader[s] = "tell"
    /\ closeWrite' = closeWrite \cup {s}
    /\ reader' = [reader EXCEPT ![s] = "done"]
    /\ UNCHANGED <<net, book, writer, closeRead, rest>>

Reader(s) ==
    Loop(s) \/ Closed(s) \/ ReaderForgets(s) \/ TellsWriter(s)

-----------------------------------------------------------------------------
(***************************************************************************)
(* data_handler.go: dataStreamSend.  packageData cannot fail, so only a    *)
(* token ends it.                                                          *)
(***************************************************************************)

WriterStops(s) ==
    /\ writer[s] = "select" /\ s \in closeWrite
    /\ closeWrite' = closeWrite \ {s}
    /\ Close(s)
    /\ writer' = [writer EXCEPT ![s] = "forget"]
    /\ UNCHANGED <<book, reader, closeRead, rest>>

WriterForgets(s) ==
    /\ writer[s] = "forget"
    /\ book' = 0
    /\ writer' = [writer EXCEPT ![s] = "done"]
    /\ UNCHANGED <<net, reader, tokens, rest>>

\* A message is written, or lost on a closed connection: the break leaves the
\* select, not the loop.
Write(m, s) ==
    /\ writer[s] = "select" /\ <<m, s>> \in waiting
    /\ waiting' = waiting \ {<<m, s>>}
    /\ UNCHANGED <<net, book, ends, tokens, dialer, removing, told, incoming, msgs, faults>>

Writer(s) == WriterStops(s) \/ WriterForgets(s)

-----------------------------------------------------------------------------
(***************************************************************************)
(* p2p.go: what the modules call.                                          *)
(***************************************************************************)

\* The goroutine keeps the stream it has found.  Without one the blockchain
\* module, answering a request, has the peer removed (blockchain/block.go:129).
BroadcastToPeer ==
    /\ msgs < MaxMsgs
    /\ msgs' = msgs + 1
    /\ \/ /\ book # 0
          /\ waiting' = waiting \cup {<<msgs', book>>}
          /\ UNCHANGED removing
       \/ /\ book = 0 /\ removing = "idle"
          /\ removing' = "looking"
          /\ UNCHANGED waiting
    /\ UNCHANGED <<net, book, ends, tokens, dialer, told, incoming, faults>>

\* Nobody takes the message for a minute.
TimeOut(m, s) ==
    /\ <<m, s>> \in waiting
    /\ waiting' = waiting \ {<<m, s>>}
    /\ UNCHANGED <<net, book, ends, tokens, dialer, removing, told, incoming, msgs, faults>>

\* A RemovePeer that takes the peer off the book itself.
RemoveFromBook ==
    /\ removing = "looking"
    /\ book' = 0
    /\ IF book = 0
       THEN removing' = "idle" /\ UNCHANGED closeRead
       ELSE removing' = "telling" /\ closeRead' = closeRead \cup {book}
    /\ told' = book
    /\ UNCHANGED <<net, ends, closeWrite, dialer, waiting, incoming, msgs, faults>>

\* RemovePeer tells the reader of the stream it finds, which may have come in
\* since the peer was to be removed, and then its writer.
RemovePeer ==
    /\ removing = "looking"
    /\ IF book = 0
       THEN removing' = "idle" /\ UNCHANGED closeRead
       ELSE removing' = "telling" /\ closeRead' = closeRead \cup {book}
    /\ told' = book
    /\ UNCHANGED <<net, book, ends, closeWrite, dialer, waiting, incoming, msgs, faults>>

RemoveWriter ==
    /\ removing = "telling"
    /\ closeWrite' = closeWrite \cup {told}
    /\ removing' = "idle" /\ told' = 0
    /\ UNCHANGED <<net, book, ends, closeRead, dialer, waiting, incoming, msgs, faults>>

-----------------------------------------------------------------------------
Next ==
    \/ Find \/ DialFails \/ Dial \/ PeerDials
    \/ \E c \in open : Drop(c)
    \/ \E s \in Stream :
          \/ streamHandler(s)
          \/ Reader(s) \/ Receive(s) \/ Spoilt(s)
          \/ Writer(s)
    \/ \E w \in waiting : Write(w[1], w[2]) \/ TimeOut(w[1], w[2])
    \/ BroadcastToPeer \/ RemovePeer \/ RemoveWriter

Spec == Init /\ [][Next]_vars

\* Goroutines go on.  A token and a message are two cases of one select, which
\* picks at random.  Dialing a peer that is there works in the end; nothing is
\* assumed of what the peer and the network do, nor of a frame to arrive.
FairSpec ==
    /\ Spec
    /\ WF_vars(Find) /\ SF_vars(Dial)
    /\ \A s \in 1 .. MaxStreams :
          /\ WF_vars(s \in Stream /\ (streamHandler(s) \/ Reader(s)))
          /\ WF_vars(s \in Stream /\ Writer(s))
    /\ WF_vars(\E w \in waiting : TimeOut(w[1], w[2]))
    /\ WF_vars(RemovePeer \/ RemoveWriter)

-----------------------------------------------------------------------------
\* The type of the state.  A goroutine of BroadcastToPeer or RemovePeer holds
\* a stream there has been, and no connection but the last is open.
TypeOK ==
    /\ conn \in Seq(1 .. MaxConns) /\ Len(conn) <= MaxStreams
    /\ lastConn \in 0 .. MaxConns /\ open \subseteq {lastConn} \cap (1 .. MaxConns)
    /\ book \in {0} \cup Stream
    /\ reader \in [Stream -> {"incoming", "top", "blocked", "forget", "forget, tell",
                              "tell", "done"}]
    /\ writer \in [Stream -> {"incoming", "select", "forget", "done"}]
    /\ closeRead \subseteq Stream /\ closeWrite \subseteq Stream
    /\ dialer \in {"asleep", "dialing"}
    /\ removing \in {"idle", "looking", "telling"} /\ told \in {0} \cup Stream
    /\ waiting \subseteq (1 .. MaxMsgs) \X Stream
    /\ incoming \in 0 .. MaxIncoming /\ msgs \in 0 .. MaxMsgs /\ faults \in 0 .. MaxFaults

Ends(s) == reader[s] \in {"forget", "forget, tell"} \/ writer[s] = "forget"

\* A stream whose connection stays open loses its place in the book only to
\* another stream to the peer: one that begins, or one that ends and deletes
\* the entry it no longer holds (p2p.go:273, data_handler.go:41).
LosesPlaceToAnother ==
    [][\A s \in Stream :
         book = s /\ book' # s /\ conn[s] \in open' =>
            \E t \in DOMAIN conn' \ {s} :
               book' = t \/ (t \in Stream /\ Ends(t) /\ (reader'[t] # reader[t] \/ writer'[t] # writer[t]))]_vars

\* A stream on a closed connection comes to an end: its reader, its writer,
\* and the goroutines that wait to hand it a message (data_handler.go:10-92).
StreamsEnd ==
    \A s \in 1 .. MaxStreams :
        s \in Stream /\ conn[s] \notin open
        ~> s \in Stream /\ reader[s] = "done" /\ writer[s] = "done"

\* The peer can be reached: its entry is a stream on an open connection whose
\* goroutines are at work and have not been told to end.
Reachable ==
    /\ book # 0
    /\ conn[book] \in open
    /\ reader[book] \in {"top", "blocked"} /\ writer[book] = "select"

\* In the end the peer stays reachable, although streams that end take off
\* the entries of others and requests without an answer take off the peer,
\* unless the bound on streams is reached (p2p.go:217-262).
StaysReachable == <>[]Reachable \/ <>(Len(conn) = MaxStreams)
=============================================================================
