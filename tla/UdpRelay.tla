------------------------------- MODULE UdpRelay -------------------------------
(***************************************************************************)
(* SOCKS5 UDP mode, from the local socket to the targets and back: the     *)
(* client's UDPRelay (Run and readFromServer, two goroutines that share    *)
(* clientAddr), one WebSocket, and the server's connectUDPHandler, which   *)
(* takes datagrams one by one and waits up to five seconds for each        *)
(* answer.  The relay is created by NewUDPRelay (module DialRetry), frames   *)
(* are those of module UdpFrame.  Datagrams are numbered in the order in   *)
(* which the applications send them and an answer carries the number of    *)
(* its request.                                                            *)
(***************************************************************************)
EXTENDS UdpFrame, Sequences, Functions

CONSTANTS
    Apps,          \* local applications, each with an address of its own
    Nobody,        \* clientAddr == nil
    Frames(_),     \* bound: what may be sent after the datagrams so far
    Answers,       \* bound: lengths of what targets answer
    MaxDatagrams   \* bound: datagrams sent

ASSUME UdpRelayAssumption ==
    /\ Nobody \notin Apps
    /\ Answers \subseteq Nat
    /\ MaxDatagrams \in Nat

Ids == 1..MaxDatagrams
None == [id |-> 0, n |-> 0]
Messages == [id : Ids, n : Answers]

VARIABLES
    sent,        \* the datagrams so far: sender and frame
    inbox,       \* udpConn's receive buffer
    udp,         \* udpConn is open
    clientAddr,  \* r.clientAddr
    link,        \* the WebSocket: "up" or "down"
    up, down,    \* messages under way on it: numbers up, answers down
    run,         \* Run: its place and the datagram it holds
    rdr,         \* readFromServer: its place, the answer and its destination
    srv,         \* connectUDPHandler: its place and the answer it deals with
    tx, rx,      \* totalTx and totalRx
    account,     \* what ConnectionOpened, LogClose and ConnectionClosed recorded
    out,         \* history: datagrams that left for a target
    answered,    \* history: answers that the server got, of n bytes each
    coming,      \* datagrams that have an answer of their target on its way
    delivered    \* history: answers handed to applications

client == <<inbox, udp, clientAddr, run, rdr, delivered>>
server == <<srv, tx, rx, account, out, answered, coming>>
vars == <<sent, link, up, down, client, server>>

Init ==
    /\ sent = <<>>
    /\ inbox = <<>>
    /\ udp = TRUE
    /\ clientAddr = Nobody
    /\ link = "up"
    /\ up = <<>> /\ down = <<>>
    /\ run = [pc |-> "read", id |-> 0]
    /\ rdr = [pc |-> "read", msg |-> None, to |-> Nobody]
    /\ srv = [pc |-> "read", msg |-> None]
    /\ tx = 0 /\ rx = 0
    /\ account = [active |-> 1, tx |-> 0, rx |-> 0]
    /\ out = {} /\ answered = {} /\ coming = {}
    /\ delivered = <<>>

Frame(i) == sent[i].frame
Reply(m) == BuildUDPFrame(Frame(m.id), m.n)
TooLarge(f) == f.len > ReadLimit

-----------------------------------------------------------------------------
(* UDPRelay.Run *)

\* Mutant: the address is noted after the datagram is on its way.
RunReadNoAddr ==
    /\ run.pc = "read"
    /\ udp
    /\ inbox # <<>>
    /\ inbox' = Tail(inbox)
    /\ run' = [pc |-> "write", id |-> Head(inbox)]
    /\ clientAddr' = IF run.id = 0 THEN clientAddr ELSE sent[run.id].app
    /\ UNCHANGED <<sent, link, up, down, udp, rdr, delivered, server>>

\* ReadFromUDP returns a datagram; note its sender under the mutex.
RunRead ==
    /\ run.pc = "read"
    /\ udp
    /\ inbox # <<>>
    /\ inbox' = Tail(inbox)
    /\ clientAddr' = sent[Head(inbox)].app
    /\ run' = [pc |-> "write", id |-> Head(inbox)]
    /\ UNCHANGED <<sent, link, up, down, udp, rdr, delivered, server>>

\* wsConn.Write succeeds; on a WebSocket that is down the message is lost.
RunWrite ==
    /\ run.pc = "write"
    /\ up' = IF link = "up" THEN Append(up, run.id) ELSE up
    /\ run' = [pc |-> "read", id |-> run.id]
    /\ UNCHANGED <<sent, link, down, inbox, udp, clientAddr, rdr, delivered, server>>

\* wsConn.Write fails, or the socket is closed: Run returns for good.
RunEnd ==
    /\ \/ run.pc = "write" /\ link = "down"
       \/ run.pc = "read" /\ ~udp
    /\ run' = [pc |-> "ended", id |-> 0]
    /\ UNCHANGED <<sent, link, up, down, inbox, udp, clientAddr, rdr, delivered, server>>

Run == RunRead \/ RunWrite \/ RunEnd

-----------------------------------------------------------------------------
(* UDPRelay.readFromServer *)

\* wsConn.Read returns an answer; load clientAddr, and skip the answer if no
\* datagram has been seen yet.
ReaderRead ==
    /\ rdr.pc = "read"
    /\ down # <<>>
    /\ ~TooLarge(Reply(Head(down)))
    /\ down' = Tail(down)
    /\ rdr' = IF clientAddr = Nobody THEN rdr
              ELSE [pc |-> "send", msg |-> Head(down), to |-> clientAddr]
    /\ UNCHANGED <<sent, link, up, inbox, udp, clientAddr, run, delivered, server>>

\* WriteToUDP, whose error is ignored.
ReaderSend ==
    /\ rdr.pc = "send"
    /\ delivered' = IF udp THEN Append(delivered, [msg |-> rdr.msg, to |-> rdr.to]) ELSE delivered
    /\ rdr' = [pc |-> "read", msg |-> None, to |-> Nobody]
    /\ UNCHANGED <<sent, link, up, down, inbox, udp, clientAddr, run, server>>

ReaderEnd ==
    /\ rdr.pc = "read"
    /\ link = "down"
    /\ rdr' = [pc |-> "ended", msg |-> None, to |-> Nobody]
    /\ UNCHANGED <<sent, link, up, down, inbox, udp, clientAddr, run, delivered, server>>

\* The answer is larger than the WebSocket's read limit: wsConn.Read fails and
\* closes the WebSocket.
ReaderTooLarge ==
    /\ rdr.pc = "read"
    /\ down # <<>>
    /\ TooLarge(Reply(Head(down)))
    /\ rdr' = [pc |-> "ended", msg |-> None, to |-> Nobody]
    /\ link' = "down"
    /\ UNCHANGED <<sent, up, down, inbox, udp, clientAddr, run, delivered, server>>

Reader == ReaderRead \/ ReaderSend \/ ReaderEnd \/ ReaderTooLarge

\* ListenAndServeUDP returns: CloseNow on the WebSocket, Close on the socket.
Close ==
    /\ udp
    /\ udp' = FALSE
    /\ link' = "down"
    /\ UNCHANGED <<sent, up, down, inbox, clientAddr, run, rdr, delivered, server>>

-----------------------------------------------------------------------------
(* connectUDPHandler *)

SrvRead == srv.pc = "read" /\ up # <<>> /\ ~TooLarge(Frame(Head(up))) /\ up' = Tail(up)

\* A frame that does not parse, or whose target is refused: continue.
SrvSkip ==
    /\ SrvRead
    /\ ~Parses(Frame(Head(up))) \/ ~Valid(Frame(Head(up)))
    /\ UNCHANGED <<sent, link, down, client, srv, tx, rx, account, out, answered, coming>>

\* The name does not resolve, or the socket or its write fails: continue.
SrvSendError ==
    /\ SrvRead
    /\ Parses(Frame(Head(up))) /\ Valid(Frame(Head(up)))
    /\ UNCHANGED <<sent, link, down, client, server>>

\* Mutant: what is sent is counted when its answer arrives.
SrvSendUncounted ==
    /\ SrvRead
    /\ Parses(Frame(Head(up))) /\ Valid(Frame(Head(up)))
    /\ out' = out \cup {Head(up)}
    /\ srv' = [pc |-> "wait", msg |-> [id |-> Head(up), n |-> 0]]
    /\ UNCHANGED <<sent, link, down, client, tx, rx, account, answered, coming>>

\* The datagram is sent from a socket of its own; wait for an answer on it.
SrvSend ==
    /\ SrvRead
    /\ Parses(Frame(Head(up))) /\ Valid(Frame(Head(up)))
    /\ out' = out \cup {Head(up)}
    /\ tx' = tx + Payload(Frame(Head(up)))
    /\ srv' = [pc |-> "wait", msg |-> [id |-> Head(up), n |-> 0]]
    /\ UNCHANGED <<sent, link, down, client, rx, account, answered, coming>>

\* The read deadline passes, or the read fails: close the socket, continue.
SrvTimeout ==
    /\ srv.pc = "wait"
    /\ srv' = [pc |-> "read", msg |-> None]
    /\ UNCHANGED <<sent, link, up, down, client, tx, rx, account, out, answered, coming>>

\* Mutant: all datagrams leave from one socket.
SrvAnswerAnySocket ==
    /\ srv.pc = "wait"
    /\ \E i \in coming, n \in Answers :
           LET m == [id |-> i, n |-> n]
           IN  /\ answered' = answered \cup {m} /\ rx' = rx + n
               /\ srv' = [pc |-> "reply", msg |-> m]
               /\ coming' = coming \ {i}
    /\ UNCHANGED <<sent, link, up, down, client, tx, account, out>>

\* An answer to this datagram arrives; close the socket, which drops any
\* further one.  An answer to an earlier datagram comes to a closed socket.
SrvAnswer ==
    /\ srv.pc = "wait"
    /\ srv.msg.id \in coming
    /\ coming' = coming \ {srv.msg.id}
    /\ \E n \in Answers :
           LET m == [id |-> srv.msg.id, n |-> n]
           IN  answered' = answered \cup {m} /\ rx' = rx + n /\ srv' = [pc |-> "reply", msg |-> m]
    /\ UNCHANGED <<sent, link, up, down, client, tx, account, out>>

\* wsConn.Write of the frame around the answer.
SrvReply ==
    /\ srv.pc = "reply"
    /\ down' = IF link = "up" THEN Append(down, srv.msg) ELSE down
    /\ srv' = [pc |-> "read", msg |-> None]
    /\ UNCHANGED <<sent, link, up, client, tx, rx, account, out, answered, coming>>

\* Mutant: the error of a read on a WebSocket that is down is not looked at.
SrvBreakOnlyLarge ==
    /\ srv.pc = "read" /\ up # <<>> /\ TooLarge(Frame(Head(up)))
    /\ srv' = [pc |-> "close", msg |-> None]
    /\ UNCHANGED <<sent, link, up, down, client, tx, rx, account, out, answered, coming>>

\* wsConn.Read fails, because the WebSocket is down or the message exceeds its
\* read limit; or wsConn.Write fails: leave the loop.
SrvBreak ==
    /\ \/ srv.pc = "read" /\ link = "down"
       \/ srv.pc = "read" /\ up # <<>> /\ TooLarge(Frame(Head(up)))
       \/ srv.pc = "reply" /\ link = "down"
    /\ srv' = [pc |-> "close", msg |-> None]
    /\ UNCHANGED <<sent, link, up, down, client, tx, rx, account, out, answered, coming>>

\* LogClose, ConnectionClosed and the deferred wsConn.Close.
SrvEnd ==
    /\ srv.pc = "close"
    /\ srv' = [pc |-> "ended", msg |-> None]
    /\ account' = [active |-> account.active - 1, tx |-> tx, rx |-> rx]
    /\ link' = "down"
    /\ UNCHANGED <<sent, up, down, client, tx, rx, out, answered, coming>>

Serve ==
    \/ SrvSkip \/ SrvSendError \/ SrvSend \/ SrvTimeout \/ SrvAnswer \/ SrvReply
    \/ SrvBreak \/ SrvEnd

-----------------------------------------------------------------------------
(* Applications, targets and the transport *)

\* An application sends a datagram to the local socket.
Send(a, f) ==
    /\ f \in FrameKinds
    /\ Len(sent) < MaxDatagrams
    /\ sent' = Append(sent, [app |-> a, frame |-> f])
    /\ inbox' = Append(inbox, Len(sent) + 1)
    /\ UNCHANGED <<link, up, down, udp, clientAddr, run, rdr, delivered, server>>

\* A target answers a datagram, soon, late, or once more.
TargetAnswers(i) ==
    /\ i \in out \ coming
    /\ coming' = coming \cup {i}
    /\ UNCHANGED <<sent, link, up, down, client, srv, tx, rx, account, out, answered>>

Break ==
    /\ link = "up"
    /\ link' = "down"
    /\ UNCHANGED <<sent, up, down, client, server>>

Next ==
    \/ Run \/ Reader \/ Close \/ Serve \/ Break
    \/ \E a \in Apps, f \in Frames(sent) : Send(a, f)
    \/ \E i \in out : TargetAnswers(i)

\* Goroutines that can run do; the read deadline makes the server's wait end.
Spec == Init /\ [][Next]_vars /\ WF_vars(Run) /\ WF_vars(Reader) /\ WF_vars(Serve)

-----------------------------------------------------------------------------
\* Sockets, wires and what is on them.
WireTypes ==
    /\ sent \in Seq([app : Apps, frame : FrameKinds])
    /\ inbox \in Seq(Ids) /\ up \in Seq(Ids) /\ down \in Seq(Messages)
    /\ udp \in BOOLEAN
    /\ clientAddr \in Apps \cup {Nobody}
    /\ link \in {"up", "down"}
    /\ delivered \in Seq([msg : Messages, to : Apps])

\* The three goroutines; those that hold no message have None.
PlaceTypes ==
    /\ run \in [pc : {"read", "write", "ended"}, id : Ids \cup {0}]
    /\ rdr \in [pc : {"read", "send", "ended"}, msg : [id : Ids \cup {0}, n : Answers \cup {0}],
                to : Apps \cup {Nobody}]
    /\ srv \in [pc : {"read", "wait", "reply", "close", "ended"},
                msg : [id : Ids \cup {0}, n : Answers \cup {0}]]

\* The books.
BookTypes ==
    /\ tx \in Nat /\ rx \in Nat
    /\ account \in [active : {0, 1}, tx : Nat, rx : Nat]
    /\ out \subseteq Ids /\ answered \subseteq Messages /\ coming \subseteq Ids

TypeOK == WireTypes /\ PlaceTypes /\ BookTypes

(* Applications get at most one answer to a datagram, and answers in the    *)
(* order of the requests, although targets answer late or twice: no late    *)
(* answer is passed on for the answer to the next datagram (server.go       *)
(* connectUDPHandler: one socket and one answer at a time).                 *)
AnswersInOrder ==
    \A m, n \in 1..Len(delivered) : m < n => delivered[m].msg.id < delivered[n].msg.id

(* clientAddr is one variable for all applications.  An answer goes to its  *)
(* requester, or to an application that sent a datagram after that request; *)
(* never to one that had sent only before it (udp.go Run, readFromServer).  *)
MisdirectedOnlyByLater ==
    \A n \in 1..Len(delivered) :
        LET d == delivered[n]
        IN  d.to # sent[d.msg.id].app =>
                \E i \in (d.msg.id + 1)..Len(sent) : sent[i].app = d.to

(* When the handler has ended, its connection is off the books and the      *)
(* record shows every payload byte that left and every one that came, the   *)
(* answer it could no longer pass on included (server.go connectUDPHandler).*)
SessionAccounted ==
    srv.pc = "ended" =>
        account = [active |-> 0,
                   tx |-> SumFunction([i \in out |-> Payload(Frame(i))]),
                   rx |-> SumFunction([m \in answered |-> m.n])]

(* The server finds the parts of a frame where RFC 1928 has them.  It reads *)
(* no byte past the end of a message, however short, parses exactly the     *)
(* frames that are complete, forwards all of their payload, and an          *)
(* application finds in an answer the host it named, all of the answer's    *)
(* bytes and no fragment number, after names of any length too (server.go   *)
(* parseUDPFrame, buildUDPFrame).  FRAG is the part it does not look at:    *)
(* against the RFC a fragment is forwarded as if it were a datagram.        *)
FramesDecode ==
    /\ \A i \in DOMAIN sent :
           LET f == Frame(i)
           IN  /\ Touched(f) \subseteq 0..(f.len - 1)
               /\ Parses(f) = (f.atyp # "other" /\ f.len >= HeaderLen(f))
    /\ \A i \in out : Payload(Frame(i)) = Frame(i).len - HeaderLen(Frame(i))
    /\ \A n \in DOMAIN delivered :
           LET m == delivered[n].msg
           IN  /\ Reply(m).len = HeaderLen(Reply(m)) + m.n
               /\ Reply(m).host = SplitHostPort(Frame(m.id).host).host
               /\ Reply(m).frag = 0

(* When the WebSocket is down the handler ends, also from its wait for an   *)
(* answer that does not come.                                               *)
HandlerEnds == link = "down" ~> srv.pc = "ended"
=============================================================================
