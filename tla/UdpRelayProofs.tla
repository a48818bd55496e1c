---------------------------- MODULE UdpRelayProofs ----------------------------
(***************************************************************************)
(* Proofs about UdpFrame and UdpRelay for any number of applications and   *)
(* datagrams and for frames of any kind and length: the parts of a frame   *)
(* are found where they are, answers stay in order, an answer that goes    *)
(* astray goes to an application that sent something later, and the record *)
(* of the session shows all bytes that left and came.                      *)
(***************************************************************************)
EXTENDS UdpRelay, SumTheorems

-----------------------------------------------------------------------------
(* Frames *)

(* parseUDPFrame reads no byte behind the end of a message and accepts     *)
(* exactly the complete ones.                                              *)
LEMMA ParseIsLayout ==
    ASSUME NEW f \in FrameKinds
    PROVE  /\ Touched(f) \subseteq 0..(f.len - 1)
           /\ Parses(f) = (f.atyp # "other" /\ f.len >= HeaderLen(f))
           /\ Parses(f) => Payload(f) = f.len - HeaderLen(f) /\ Payload(f) \in Nat
<1>1. f.len \in Nat /\ f.host.size \in 0..255 /\ f.atyp \in {"ipv4", "domain", "ipv6", "other"}
    BY DEF FrameKinds, Hosts
<1>2. CASE f.atyp = "other"
    BY <1>1, <1>2 DEF Touched, Parses
<1>3. CASE f.atyp = "ipv4"
    <2>1. Need(f) = 10 /\ AddrEnd(f) = 8 /\ HeaderLen(f) = 10
        BY <1>3 DEF Need, AddrEnd, HeaderLen
    <2> QED BY <1>1, <1>3, <2>1 DEF Touched, Parses, Payload
<1>4. CASE f.atyp = "ipv6"
    <2>1. Need(f) = 22 /\ AddrEnd(f) = 20 /\ HeaderLen(f) = 22
        BY <1>4 DEF Need, AddrEnd, HeaderLen
    <2> QED BY <1>1, <1>4, <2>1 DEF Touched, Parses, Payload
<1>5. CASE f.atyp = "domain"
    <2>1. /\ Need(f) = f.host.size + 7 /\ AddrEnd(f) = f.host.size + 5
          /\ HeaderLen(f) = f.host.size + 7
        BY <1>1, <1>5 DEF Need, AddrEnd, HeaderLen
    <2>2. Parses(f) = (f.len >= f.host.size + 7)
        BY <1>1, <1>5, <2>1 DEF Parses
    <2>3. Touched(f) \subseteq 0..(f.len - 1)
        <3>1. CASE f.len >= 7 /\ f.len >= f.host.size + 7
            <4> DEFINE m == f.host.size + 5
            <4>1. m \in Nat /\ m + 2 <= f.len /\ m >= 5
                BY <1>1, <3>1
            <4>2. Touched(f) \subseteq {3, 4} \cup 4..(m - 1) \cup m..(m + 1)
                BY <2>1, <3>1 DEF Touched
            <4> HIDE DEF m
            <4> QED BY <1>1, <4>1, <4>2
        <3>2. CASE f.len >= 7 /\ ~(f.len >= f.host.size + 7)
            <4>1. Touched(f) \subseteq {3, 4}
                BY <1>1, <2>1, <2>2, <3>2 DEF Touched
            <4> QED BY <1>1, <3>2, <4>1
        <3>3. CASE f.len < 7
            BY <3>3 DEF Touched
        <3> QED BY <1>1, <3>1, <3>2, <3>3
    <2>4. Payload(f) = f.len - (f.host.size + 7)
        BY <1>1, <2>1 DEF Payload
    <2>5. Parses(f) = (f.atyp # "other" /\ f.len >= HeaderLen(f))
        BY <1>5, <2>1, <2>2
    <2>6. Parses(f) => Payload(f) = f.len - HeaderLen(f) /\ Payload(f) \in Nat
        <3> DEFINE m == f.host.size + 7
        <3>1. m \in Nat /\ f.len \in Nat
            BY <1>1
        <3>2. HeaderLen(f) = m /\ Payload(f) = f.len - m /\ (Parses(f) => f.len >= m)
            BY <2>1, <2>2, <2>4
        <3> HIDE DEF m
        <3>3. f.len >= m => f.len - m \in Nat
            BY <3>1
        <3> QED BY <3>2, <3>3
    <2> QED BY <2>3, <2>5, <2>6
<1> QED BY <1>1, <1>2, <1>3, <1>4, <1>5

(* buildUDPFrame puts the host it is given and all of the payload behind a *)
(* header of the length that RFC 1928 has, with no fragment number.        *)
LEMMA BuildIsLayout ==
    ASSUME NEW f \in FrameKinds, NEW n \in Nat, Valid(f)
    PROVE  /\ BuildUDPFrame(f, n).len = HeaderLen(BuildUDPFrame(f, n)) + n
           /\ BuildUDPFrame(f, n).host = SplitHostPort(f.host).host
           /\ BuildUDPFrame(f, n).frag = 0
<1> DEFINE h == SplitHostPort(f.host).host
<1>1. /\ f.host \in [is : {"v4", "v6", "name"}, brackets : BOOLEAN, loopback : BOOLEAN, size : 0..255]
      /\ f.host.brackets => f.host.size >= 2
    BY DEF FrameKinds, Hosts
<1>2. /\ h \in [is : {"v4", "v6", "name"}, brackets : BOOLEAN, loopback : BOOLEAN, size : 0..255]
    <2>1. CASE f.host.brackets
        <3>1. h = [is |-> f.host.is, brackets |-> FALSE, loopback |-> f.host.loopback,
                   size |-> f.host.size - 2]
            BY <2>1 DEF SplitHostPort
        <3>2. f.host.size - 2 \in 0..255
            BY <1>1, <2>1
        <3> QED BY <3>1, <3>2, <1>1
    <2>2. CASE ~f.host.brackets
        <3>1. f.host.is # "v6"
            BY <2>2 DEF SplitHostPort, Valid, Error
        <3>2. h = f.host
            BY <2>2, <3>1 DEF SplitHostPort
        <3> QED BY <3>2, <1>1
    <2> QED BY <2>1, <2>2, <1>1
<1> HIDE DEF h
<1>3. [h EXCEPT !.size = @ % 256] = h
    <2>1. h.size % 256 = h.size
        BY <1>2
    <2> QED BY <2>1, <1>2
<1>4. FrameOf(h, n).host = h /\ FrameOf(h, n).len = HeaderLen(FrameOf(h, n)) + n
    BY <1>2, <1>3 DEF FrameOf, HeaderLen
<1>5. FrameOf(h, n).frag = 0
    BY DEF FrameOf
<1> QED BY <1>4, <1>5 DEF BuildUDPFrame, h

-----------------------------------------------------------------------------
(* Sequences *)

(* Taking the first element of a sequence.                                 *)
LEMMA TailOf ==
    ASSUME NEW S, NEW s \in Seq(S), s # <<>>
    PROVE  /\ Len(s) \in Nat /\ Len(s) >= 1 /\ Head(s) = s[1] /\ Head(s) \in S
           /\ Tail(s) \in Seq(S) /\ Len(Tail(s)) = Len(s) - 1
           /\ \A n \in 1..Len(Tail(s)) : n + 1 \in 1..Len(s) /\ Tail(s)[n] = s[n + 1]
OBVIOUS

(* An element of a sequence.                                               *)
LEMMA ElementOf ==
    ASSUME NEW S, NEW s \in Seq(S), NEW k \in 1..Len(s)
    PROVE  s[k] \in S
OBVIOUS

(* Adding an element to a sequence.                                        *)
LEMMA AppendOf ==
    ASSUME NEW S, NEW s \in Seq(S), NEW x \in S
    PROVE  /\ Append(s, x) \in Seq(S) /\ Len(s) \in Nat /\ Len(Append(s, x)) = Len(s) + 1
           /\ \A n \in 1..Len(Append(s, x)) :
                  Append(s, x)[n] = IF n = Len(s) + 1 THEN x ELSE s[n]
           /\ \A n \in 1..Len(s) : s[n] \in S
OBVIOUS

-----------------------------------------------------------------------------
(* The invariant.  Datagrams move through seven stages, each with the ids  *)
(* of the datagrams or answers that are there. *)

Delivered == {delivered[n].msg.id : n \in 1..Len(delivered)}
AtReader == {i \in {rdr.msg.id} : rdr.pc = "send"}
Down == {down[n].id : n \in 1..Len(down)}
AtServer == {i \in {srv.msg.id} : srv.pc \in {"wait", "reply"}}
Up == {up[n] : n \in 1..Len(up)}
AtRun == {i \in {run.id} : run.pc = "write"}
Waiting == {inbox[n] : n \in 1..Len(inbox)}

Below(A, B) == \A i \in A, j \in B : i < j

\* What is further on its way is older.
Pipe(D, R, W, S, U, N, I) ==
    /\ Below(D, R)
    /\ Below(D \cup R, W)
    /\ Below(D \cup R \cup W, S)
    /\ Below(D \cup R \cup W \cup S, U)
    /\ Below(D \cup R \cup W \cup S \cup U, N)
    /\ Below(D \cup R \cup W \cup S \cup U \cup N, I)

Pipeline == Pipe(Delivered, AtReader, Down, AtServer, Up, AtRun, Waiting)

InOrder ==
    /\ \A m, n \in 1..Len(inbox) : m < n => inbox[m] < inbox[n]
    /\ \A m, n \in 1..Len(up) : m < n => up[m] < up[n]
    /\ \A m, n \in 1..Len(down) : m < n => down[m].id < down[n].id
    /\ \A m, n \in 1..Len(delivered) : m < n => delivered[m].msg.id < delivered[n].msg.id

Numbered ==
    /\ Delivered \cup AtReader \cup Down \cup AtServer \cup Up \cup AtRun \cup Waiting
           \subseteq 1..Len(sent)
    /\ Len(sent) <= MaxDatagrams

\* An application that sent datagram i or a later one.
SentSince(a, i) == \E k \in i..Len(sent) : sent[k].app = a

\* clientAddr is the sender of a datagram read after all on their way.
Seen ==
    clientAddr # Nobody =>
        \E k \in 1..Len(sent) :
            /\ sent[k].app = clientAddr
            /\ \A i \in AtRun \cup Up \cup AtServer \cup Down : i <= k

Routed ==
    /\ rdr.pc = "send" => SentSince(rdr.to, rdr.msg.id)
    /\ \A n \in 1..Len(delivered) : SentSince(delivered[n].to, delivered[n].msg.id)

Decoded ==
    /\ out \subseteq {i \in 1..Len(sent) : Parses(Frame(i)) /\ Valid(Frame(i))}
    /\ Delivered \cup AtReader \cup Down \cup AtServer \subseteq out

\* The connection is on the books until the handler ends; what is passed on is
\* an answer.
Held ==
    /\ srv.pc # "ended" => account.active = 1
    /\ srv.pc = "reply" => srv.msg \in Messages
    /\ rdr.pc = "send" => rdr.msg \in Messages

UInv == TypeOK /\ Held /\ InOrder /\ Pipeline /\ Numbered /\ Seen /\ Routed /\ Decoded

-----------------------------------------------------------------------------
(* One step of each part of the invariant *)

(* What is on the way is a datagram or an answer to one.                   *)
LEMMA IdsOnTheWay ==
    ASSUME WireTypes, PlaceTypes, Numbered
    PROVE  /\ Ids \subseteq Nat /\ Answers \subseteq Nat /\ 1..Len(sent) \subseteq Ids
           /\ \A k \in 1..Len(sent) : sent[k].app \in Apps /\ Frame(k) \in FrameKinds
           /\ \A n \in 1..Len(inbox) : inbox[n] \in 1..Len(sent)
           /\ \A n \in 1..Len(up) : up[n] \in 1..Len(sent)
           /\ \A n \in 1..Len(down) : down[n].id \in 1..Len(sent)
           /\ run.pc = "write" => run.id \in 1..Len(sent)
           /\ rdr.pc = "send" => rdr.msg.id \in 1..Len(sent)
           /\ srv.pc \in {"wait", "reply"} => srv.msg.id \in 1..Len(sent)
<1>1. Ids \subseteq Nat /\ Answers \subseteq Nat
    BY UdpRelayAssumption DEF Ids
<1>2. 1..Len(sent) \subseteq Ids
    <2>1. Len(sent) \in Nat /\ Len(sent) <= MaxDatagrams /\ MaxDatagrams \in Nat
        BY UdpRelayAssumption DEF WireTypes, Numbered
    <2> QED BY <2>1 DEF Ids
<1>3. \A n \in 1..Len(inbox) : inbox[n] \in 1..Len(sent)
    BY DEF Numbered, Waiting
<1>4. \A n \in 1..Len(up) : up[n] \in 1..Len(sent)
    BY DEF Numbered, Up
<1>5. \A n \in 1..Len(down) : down[n].id \in 1..Len(sent)
    BY DEF Numbered, Down
<1>6. run.pc = "write" => run.id \in 1..Len(sent)
    BY DEF Numbered, AtRun
<1>7. srv.pc \in {"wait", "reply"} => srv.msg.id \in 1..Len(sent)
    BY DEF Numbered, AtServer
<1>8. rdr.pc = "send" => rdr.msg.id \in 1..Len(sent)
    BY DEF Numbered, AtReader
<1>9. \A k \in 1..Len(sent) : sent[k].app \in Apps /\ Frame(k) \in FrameKinds
    <2> TAKE k \in 1..Len(sent)
    <2>1. sent[k] \in [app : Apps, frame : FrameKinds]
        <3> DEFINE T == [app : Apps, frame : FrameKinds]
        <3>1. sent \in Seq(T)
            BY DEF WireTypes
        <3> HIDE DEF T
        <3>2. sent[k] \in T
            BY <3>1, ElementOf
        <3> QED BY <3>2 DEF T
    <2> QED BY <2>1 DEF Frame
<1> QED BY <1>1, <1>2, <1>3, <1>4, <1>5, <1>6, <1>7, <1>8, <1>9

(* Wires carry datagrams and answers, clientAddr is the address of an      *)
(* application or nil.                                                     *)
LEMMA WireStep ==
    ASSUME UInv, [Next]_vars
    PROVE  WireTypes'
<1>1. WireTypes /\ Held /\ Numbered /\ Routed /\ PlaceTypes
    BY DEF UInv, TypeOK
<1>2. /\ Ids \subseteq Nat /\ 1..Len(sent) \subseteq Ids
      /\ \A k \in 1..Len(sent) : sent[k].app \in Apps
      /\ \A n \in 1..Len(inbox) : inbox[n] \in 1..Len(sent)
      /\ run.pc = "write" => run.id \in Ids
      /\ rdr.pc = "send" => rdr.msg.id \in 1..Len(sent)
    BY <1>1, IdsOnTheWay
<1> HIDE DEF Ids
<1>3. CASE RunRead
    <2>1. Head(inbox) \in 1..Len(sent) /\ Tail(inbox) \in Seq(Ids)
        BY <1>1, <1>2, <1>3, TailOf DEF RunRead, WireTypes
    <2>2. sent[Head(inbox)].app \in Apps
        BY <1>2, <2>1
    <2> QED BY <1>1, <1>3, <2>1, <2>2 DEF RunRead, WireTypes, server
<1>4. CASE RunWrite
    <2>1. Append(up, run.id) \in Seq(Ids)
        BY <1>1, <1>2, <1>4, AppendOf DEF RunWrite, WireTypes
    <2> QED BY <1>1, <1>4, <2>1 DEF RunWrite, WireTypes, server
<1>5. CASE RunEnd
    BY <1>1, <1>5 DEF RunEnd, WireTypes, server
<1>6. CASE ReaderRead
    <2>1. Tail(down) \in Seq(Messages)
        BY <1>1, <1>6, TailOf DEF ReaderRead, WireTypes
    <2> QED BY <1>1, <1>6, <2>1 DEF ReaderRead, WireTypes, server
<1>7. CASE ReaderSend
    <2>1. rdr.msg \in Messages
        BY <1>1, <1>7 DEF ReaderSend, Held
    <2>2. PICK k \in rdr.msg.id..Len(sent) : sent[k].app = rdr.to
        BY <1>1, <1>7 DEF ReaderSend, Routed, SentSince
    <2>3. k \in 1..Len(sent)
        BY <1>1, <1>2, <1>7, <2>2 DEF ReaderSend, WireTypes
    <2>4. rdr.to \in Apps
        BY <1>2, <2>2, <2>3
    <2>5. Append(delivered, [msg |-> rdr.msg, to |-> rdr.to]) \in Seq([msg : Messages, to : Apps])
        BY <1>1, <2>1, <2>4, AppendOf DEF WireTypes
    <2> QED BY <1>1, <1>7, <2>5 DEF ReaderSend, WireTypes, server
<1>8. CASE ReaderEnd
    BY <1>1, <1>8 DEF ReaderEnd, WireTypes, server
<1>9. CASE ReaderTooLarge
    BY <1>1, <1>9 DEF ReaderTooLarge, WireTypes, server
<1>10. CASE Close
    BY <1>1, <1>10 DEF Close, WireTypes, server
<1>11. CASE SrvSkip \/ SrvSendError \/ SrvSend
    <2>1. SrvRead
        BY <1>11 DEF SrvSkip, SrvSendError, SrvSend
    <2>2. Tail(up) \in Seq(Ids)
        BY <1>1, <2>1, TailOf DEF SrvRead, WireTypes
    <2>3. up' = Tail(up) /\ UNCHANGED <<sent, link, down, client>>
        BY <1>11 DEF SrvSkip, SrvSendError, SrvSend, SrvRead
    <2> QED BY <1>1, <2>2, <2>3 DEF WireTypes, client
<1>12. CASE SrvTimeout
    BY <1>1, <1>12 DEF SrvTimeout, WireTypes, client
<1>13. CASE SrvAnswer
    BY <1>1, <1>13 DEF SrvAnswer, WireTypes, client
<1>14. CASE SrvReply
    <2>1. Append(down, srv.msg) \in Seq(Messages)
        BY <1>1, <1>14, AppendOf DEF SrvReply, WireTypes, Held
    <2> QED BY <1>1, <1>14, <2>1 DEF SrvReply, WireTypes, client
<1>15. CASE SrvBreak
    BY <1>1, <1>15 DEF SrvBreak, WireTypes, client
<1>16. CASE SrvEnd
    BY <1>1, <1>16 DEF SrvEnd, WireTypes, client
<1>17. CASE \E a \in Apps, f \in Frames(sent) : Send(a, f)
    <2>1. PICK a \in Apps, f \in Frames(sent) : Send(a, f)
        BY <1>17
    <2>2. Append(sent, [app |-> a, frame |-> f]) \in Seq([app : Apps, frame : FrameKinds])
        BY <1>1, <2>1, AppendOf DEF Send, WireTypes
    <2>3. Len(sent) + 1 \in Ids
        BY <1>1, <2>1, UdpRelayAssumption DEF Send, WireTypes, Ids
    <2>4. Append(inbox, Len(sent) + 1) \in Seq(Ids)
        BY <1>1, <2>3, AppendOf DEF WireTypes
    <2> QED BY <1>1, <2>1, <2>2, <2>4 DEF Send, WireTypes, server
<1>18. CASE Break
    BY <1>1, <1>18 DEF Break, WireTypes, client, server
<1>19. CASE \E i \in out : TargetAnswers(i)
    BY <1>1, <1>19 DEF TargetAnswers, WireTypes, client
<1>20. CASE UNCHANGED vars
    BY <1>1, <1>20 DEF vars, WireTypes, client, server
<1> QED
    BY <1>3, <1>4, <1>5, <1>6, <1>7, <1>8, <1>9, <1>10, <1>11, <1>12, <1>13, <1>14, <1>15, <1>16,
       <1>17, <1>18, <1>19, <1>20 DEF Next, Run, Reader, Serve

(* The goroutines hold datagrams and answers (Run's datagram,              *)
(* readFromServer's answer and address, the handler's answer).             *)
LEMMA PlaceStep ==
    ASSUME UInv, [Next]_vars
    PROVE  PlaceTypes' /\ Held'
<1> DEFINE NoId == Ids \cup {0}
           NoAnswer == Answers \cup {0}
<1>1. WireTypes /\ Held /\ Numbered /\ PlaceTypes /\ BookTypes
    BY DEF UInv, TypeOK
<1>2. /\ Ids \subseteq Nat /\ 1..Len(sent) \subseteq Ids
      /\ \A n \in 1..Len(inbox) : inbox[n] \in 1..Len(sent)
      /\ \A n \in 1..Len(up) : up[n] \in 1..Len(sent)
      /\ srv.pc \in {"wait", "reply"} => srv.msg.id \in 1..Len(sent)
    BY <1>1, IdsOnTheWay
<1>3. Messages = [id : Ids, n : Answers] /\ None \in [id : NoId, n : NoAnswer]
    BY DEF Messages, None
<1> HIDE DEF Ids
<1>4. CASE RunRead
    <2>1. Head(inbox) \in Ids
        BY <1>1, <1>2, <1>4, TailOf DEF RunRead, WireTypes
    <2> QED BY <1>1, <1>4, <2>1 DEF RunRead, PlaceTypes, Held, server
<1>5. CASE RunWrite
    BY <1>1, <1>5 DEF RunWrite, PlaceTypes, Held, server
<1>6. CASE RunEnd
    BY <1>1, <1>6 DEF RunEnd, PlaceTypes, Held, server
<1>7. CASE ReaderRead
    <2>1. Head(down) \in Messages
        BY <1>1, <1>7, TailOf DEF ReaderRead, WireTypes
    <2>2. Head(down) \in [id : NoId, n : NoAnswer]
        BY <2>1, <1>3
    <2>3. clientAddr \in Apps \cup {Nobody}
        BY <1>1 DEF WireTypes
    <2> QED BY <1>1, <1>7, <2>1, <2>2, <2>3 DEF ReaderRead, PlaceTypes, Held, server
<1>8. CASE ReaderSend \/ ReaderEnd \/ ReaderTooLarge
    <2>1. /\ rdr'.pc \in {"read", "ended"} /\ rdr' = [pc |-> rdr'.pc, msg |-> None, to |-> Nobody]
          /\ UNCHANGED <<run, server>>
        BY <1>8 DEF ReaderSend, ReaderEnd, ReaderTooLarge
    <2>2. rdr' \in [pc : {"read", "send", "ended"}, msg : [id : NoId, n : NoAnswer],
                    to : Apps \cup {Nobody}]
        BY <1>3, <2>1
    <2> QED BY <1>1, <2>1, <2>2 DEF PlaceTypes, Held, server
<1>9. CASE Close
    BY <1>1, <1>9 DEF Close, PlaceTypes, Held, server
<1>10. CASE SrvSkip \/ SrvSendError
    BY <1>1, <1>10 DEF SrvSkip, SrvSendError, PlaceTypes, Held, client, server
<1>11. CASE SrvSend
    <2>1. Head(up) \in Ids
        BY <1>1, <1>2, <1>11, TailOf DEF SrvSend, SrvRead, WireTypes
    <2>2. srv' \in [pc : {"read", "wait", "reply", "close", "ended"}, msg : [id : NoId, n : NoAnswer]]
        BY <1>11, <2>1 DEF SrvSend
    <2>3. srv.pc = "read" /\ srv'.pc = "wait"
        BY <1>11 DEF SrvSend, SrvRead
    <2> QED BY <1>1, <1>11, <2>2, <2>3 DEF SrvSend, PlaceTypes, Held, client
<1>12. CASE SrvTimeout \/ SrvReply \/ SrvBreak
    <2>1. /\ srv'.pc \in {"read", "close"} /\ srv' = [pc |-> srv'.pc, msg |-> None]
          /\ srv.pc # "ended"
          /\ UNCHANGED <<client, account>>
        BY <1>12 DEF SrvTimeout, SrvReply, SrvBreak
    <2>2. srv' \in [pc : {"read", "wait", "reply", "close", "ended"}, msg : [id : NoId, n : NoAnswer]]
        BY <1>3, <2>1
    <2> QED BY <1>1, <2>1, <2>2 DEF PlaceTypes, Held, client
<1>13. CASE SrvAnswer
    <2>1. PICK n \in Answers : srv' = [pc |-> "reply", msg |-> [id |-> srv.msg.id, n |-> n]]
        BY <1>13 DEF SrvAnswer
    <2>2. srv.msg.id \in Ids /\ srv.pc = "wait"
        BY <1>2, <1>13 DEF SrvAnswer
    <2>3. srv' \in [pc : {"read", "wait", "reply", "close", "ended"}, msg : [id : NoId, n : NoAnswer]]
        BY <2>1, <2>2
    <2>4. srv'.msg \in Messages /\ srv'.pc = "reply"
        BY <1>3, <2>1, <2>2
    <2>5. UNCHANGED <<client, account>>
        BY <1>13 DEF SrvAnswer
    <2> QED BY <1>1, <2>2, <2>3, <2>4, <2>5 DEF PlaceTypes, Held, client
<1>14. CASE SrvEnd
    <2>1. srv' = [pc |-> "ended", msg |-> None] /\ UNCHANGED client
        BY <1>14 DEF SrvEnd
    <2>2. srv' \in [pc : {"read", "wait", "reply", "close", "ended"}, msg : [id : NoId, n : NoAnswer]]
        BY <1>3, <2>1
    <2> QED BY <1>1, <2>1, <2>2 DEF PlaceTypes, Held, client
<1>15. CASE \E a \in Apps, f \in Frames(sent) : Send(a, f)
    BY <1>1, <1>15 DEF Send, PlaceTypes, Held, server
<1>16. CASE Break
    BY <1>1, <1>16 DEF Break, PlaceTypes, Held, client, server
<1>17. CASE \E i \in out : TargetAnswers(i)
    BY <1>1, <1>17 DEF TargetAnswers, PlaceTypes, Held, client
<1>18. CASE UNCHANGED vars
    BY <1>1, <1>18 DEF vars, PlaceTypes, Held, client, server
<1> QED
    BY <1>4, <1>5, <1>6, <1>7, <1>8, <1>9, <1>10, <1>11, <1>12, <1>13, <1>14, <1>15, <1>16, <1>17,
       <1>18
    DEF Next, Run, Reader, Serve

(* The books keep their types: no byte is taken off a counter, and the     *)
(* gauge of open connections does not fall below zero.                     *)
LEMMA BookStep ==
    ASSUME UInv, [Next]_vars
    PROVE  BookTypes'
<1>1. WireTypes /\ Held /\ Numbered /\ PlaceTypes /\ BookTypes
    BY DEF UInv, TypeOK
<1>2. /\ Ids \subseteq Nat /\ Answers \subseteq Nat /\ 1..Len(sent) \subseteq Ids
      /\ \A k \in 1..Len(sent) : Frame(k) \in FrameKinds
      /\ \A n \in 1..Len(up) : up[n] \in 1..Len(sent)
      /\ srv.pc \in {"wait", "reply"} => srv.msg.id \in 1..Len(sent)
    BY <1>1, IdsOnTheWay
<1> HIDE DEF Ids
<1>3. CASE Run \/ Reader \/ Close \/ Break \/ (\E a \in Apps, f \in Frames(sent) : Send(a, f))
    <2>1. UNCHANGED server
        BY <1>3 DEF Run, Reader, Close, Break, Send, RunRead, RunWrite, RunEnd, ReaderRead,
                    ReaderSend, ReaderEnd, ReaderTooLarge
    <2> QED BY <1>1, <2>1 DEF BookTypes, server
<1>4. CASE SrvSkip \/ SrvSendError \/ SrvTimeout \/ SrvReply \/ SrvBreak
    <2>1. UNCHANGED <<tx, rx, account, out, answered, coming>>
        BY <1>4 DEF SrvSkip, SrvSendError, SrvTimeout, SrvReply, SrvBreak, server
    <2> QED BY <1>1, <2>1 DEF BookTypes
<1>5. CASE SrvSend
    <2>1. Head(up) \in 1..Len(sent)
        BY <1>1, <1>2, <1>5, TailOf DEF SrvSend, SrvRead, WireTypes
    <2>2. Payload(Frame(Head(up))) \in Nat
        BY <1>2, <1>5, <2>1, ParseIsLayout DEF SrvSend
    <2>3. /\ tx' = tx + Payload(Frame(Head(up))) /\ out' = out \cup {Head(up)}
          /\ UNCHANGED <<rx, account, answered, coming>>
        BY <1>5 DEF SrvSend
    <2>4. tx' \in Nat
        BY <1>1, <2>2, <2>3 DEF BookTypes
    <2>5. out' \subseteq Ids
        BY <1>1, <1>2, <2>1, <2>3 DEF BookTypes
    <2> QED BY <1>1, <2>3, <2>4, <2>5 DEF BookTypes
<1>6. CASE SrvAnswer
    <2>1. PICK n \in Answers :
              answered' = answered \cup {[id |-> srv.msg.id, n |-> n]} /\ rx' = rx + n
        BY <1>6 DEF SrvAnswer
    <2>2. [id |-> srv.msg.id, n |-> n] \in Messages
        BY <1>2, <1>6 DEF SrvAnswer, Messages
    <2>3. rx' \in Nat /\ answered' \subseteq Messages
        BY <1>1, <1>2, <2>1, <2>2 DEF BookTypes
    <2>4. coming' \subseteq Ids /\ UNCHANGED <<tx, account, out>>
        BY <1>1, <1>6 DEF SrvAnswer, BookTypes
    <2> QED BY <1>1, <2>3, <2>4 DEF BookTypes
<1>7. CASE SrvEnd
    <2>1. account.active = 1 /\ account' = [active |-> account.active - 1, tx |-> tx, rx |-> rx]
        BY <1>1, <1>7 DEF SrvEnd, Held
    <2>2. account' \in [active : {0, 1}, tx : Nat, rx : Nat]
        BY <1>1, <2>1 DEF BookTypes
    <2> QED BY <1>1, <1>7, <2>2 DEF SrvEnd, BookTypes
<1>8. CASE \E i \in out : TargetAnswers(i)
    BY <1>1, <1>8 DEF TargetAnswers, BookTypes
<1>9. CASE UNCHANGED vars
    BY <1>1, <1>9 DEF vars, BookTypes, server
<1> QED BY <1>3, <1>4, <1>5, <1>6, <1>7, <1>8, <1>9 DEF Next, Serve

-----------------------------------------------------------------------------
(* How datagrams move from stage to stage *)

(* Run takes the oldest datagram from the socket.                          *)
LEMMA WaitingLeaves ==
    ASSUME WireTypes, InOrder, inbox # <<>>, inbox' = Tail(inbox)
    PROVE  /\ Head(inbox) \in Waiting /\ Waiting' \subseteq Waiting
           /\ Below({Head(inbox)}, Waiting')
           /\ \A m, n \in 1..Len(inbox') : m < n => inbox'[m] < inbox'[n]
<1>1. inbox \in Seq(Ids) /\ \A m, n \in 1..Len(inbox) : m < n => inbox[m] < inbox[n]
    BY DEF WireTypes, InOrder
<1>2. /\ Len(inbox) \in Nat /\ Len(inbox) >= 1 /\ Head(inbox) = inbox[1]
      /\ Len(inbox') = Len(inbox) - 1
      /\ \A n \in 1..Len(inbox') : n + 1 \in 1..Len(inbox) /\ inbox'[n] = inbox[n + 1]
    BY <1>1, TailOf
<1>3. \A n \in 1..Len(inbox') : inbox'[n] \in Waiting /\ Head(inbox) < inbox'[n]
    BY <1>1, <1>2 DEF Waiting
<1>4. \A m, n \in 1..Len(inbox') : m < n => inbox'[m] < inbox'[n]
    BY <1>1, <1>2
<1> QED BY <1>2, <1>3, <1>4 DEF Waiting, Below

(* The handler takes the oldest datagram from the WebSocket.               *)
LEMMA UpLeaves ==
    ASSUME WireTypes, InOrder, up # <<>>, up' = Tail(up)
    PROVE  /\ Head(up) \in Up /\ Up' \subseteq Up
           /\ Below({Head(up)}, Up')
           /\ \A m, n \in 1..Len(up') : m < n => up'[m] < up'[n]
<1>1. up \in Seq(Ids) /\ \A m, n \in 1..Len(up) : m < n => up[m] < up[n]
    BY DEF WireTypes, InOrder
<1>2. /\ Len(up) \in Nat /\ Len(up) >= 1 /\ Head(up) = up[1] /\ Len(up') = Len(up) - 1
      /\ \A n \in 1..Len(up') : n + 1 \in 1..Len(up) /\ up'[n] = up[n + 1]
    BY <1>1, TailOf
<1>3. \A n \in 1..Len(up') : up'[n] \in Up /\ Head(up) < up'[n]
    BY <1>1, <1>2 DEF Up
<1>4. \A m, n \in 1..Len(up') : m < n => up'[m] < up'[n]
    BY <1>1, <1>2
<1> QED BY <1>2, <1>3, <1>4 DEF Up, Below

(* readFromServer takes the oldest answer from the WebSocket.              *)
LEMMA DownLeaves ==
    ASSUME WireTypes, InOrder, down # <<>>, down' = Tail(down)
    PROVE  /\ Head(down).id \in Down /\ Down' \subseteq Down
           /\ Below({Head(down).id}, Down')
           /\ \A m, n \in 1..Len(down') : m < n => down'[m].id < down'[n].id
<1>1. down \in Seq(Messages) /\ \A m, n \in 1..Len(down) : m < n => down[m].id < down[n].id
    BY DEF WireTypes, InOrder
<1>2. /\ Len(down) \in Nat /\ Len(down) >= 1 /\ Head(down) = down[1]
      /\ Len(down') = Len(down) - 1
      /\ \A n \in 1..Len(down') : n + 1 \in 1..Len(down) /\ down'[n] = down[n + 1]
    BY <1>1, TailOf
<1>3. \A n \in 1..Len(down') : down'[n].id \in Down /\ Head(down).id < down'[n].id
    BY <1>1, <1>2 DEF Down
<1>4. \A m, n \in 1..Len(down') : m < n => down'[m].id < down'[n].id
    BY <1>1, <1>2
<1> QED BY <1>2, <1>3, <1>4 DEF Down, Below

(* A datagram that is newer than all that wait joins them.                 *)
LEMMA WaitingGrows ==
    ASSUME WireTypes, InOrder, NEW x \in Ids, inbox' = Append(inbox, x), Below(Waiting, {x})
    PROVE  /\ Waiting' = Waiting \cup {x}
           /\ \A m, n \in 1..Len(inbox') : m < n => inbox'[m] < inbox'[n]
<1>1. inbox \in Seq(Ids) /\ \A m, n \in 1..Len(inbox) : m < n => inbox[m] < inbox[n]
    BY DEF WireTypes, InOrder
<1>2. /\ Len(inbox) \in Nat /\ Len(inbox') = Len(inbox) + 1
      /\ \A n \in 1..Len(inbox') : inbox'[n] = IF n = Len(inbox) + 1 THEN x ELSE inbox[n]
    BY <1>1, AppendOf
<1>3. \A n \in 1..Len(inbox) : inbox[n] < x
    BY DEF Waiting, Below
<1>4. \A m, n \in 1..Len(inbox') : m < n => inbox'[m] < inbox'[n]
    BY <1>1, <1>2, <1>3
<1> QED BY <1>2, <1>4 DEF Waiting

(* A datagram that is newer than all on the WebSocket joins them.          *)
LEMMA UpGrows ==
    ASSUME WireTypes, InOrder, NEW x \in Ids, up' = Append(up, x), Below(Up, {x})
    PROVE  /\ Up' = Up \cup {x}
           /\ \A m, n \in 1..Len(up') : m < n => up'[m] < up'[n]
<1>1. up \in Seq(Ids) /\ \A m, n \in 1..Len(up) : m < n => up[m] < up[n]
    BY DEF WireTypes, InOrder
<1>2. /\ Len(up) \in Nat /\ Len(up') = Len(up) + 1
      /\ \A n \in 1..Len(up') : up'[n] = IF n = Len(up) + 1 THEN x ELSE up[n]
    BY <1>1, AppendOf
<1>3. \A n \in 1..Len(up) : up[n] < x
    BY DEF Up, Below
<1>4. \A m, n \in 1..Len(up') : m < n => up'[m] < up'[n]
    BY <1>1, <1>2, <1>3
<1> QED BY <1>2, <1>4 DEF Up

(* An answer to a newer datagram joins the answers on the WebSocket.       *)
LEMMA DownGrows ==
    ASSUME WireTypes, InOrder, NEW m \in Messages, down' = Append(down, m), Below(Down, {m.id})
    PROVE  /\ Down' = Down \cup {m.id}
           /\ \A k, n \in 1..Len(down') : k < n => down'[k].id < down'[n].id
<1>1. down \in Seq(Messages) /\ \A k, n \in 1..Len(down) : k < n => down[k].id < down[n].id
    BY DEF WireTypes, InOrder
<1>2. /\ Len(down) \in Nat /\ Len(down') = Len(down) + 1
      /\ \A n \in 1..Len(down') : down'[n] = IF n = Len(down) + 1 THEN m ELSE down[n]
    BY <1>1, AppendOf
<1>3. \A n \in 1..Len(down) : down[n].id < m.id
    BY DEF Down, Below
<1>4. \A k, n \in 1..Len(down') : k < n => down'[k].id < down'[n].id
    BY <1>1, <1>2, <1>3
<1> QED BY <1>2, <1>4 DEF Down

(* An answer to a newer datagram is handed to an application.              *)
LEMMA DeliveredGrows ==
    ASSUME WireTypes, InOrder, NEW d \in [msg : Messages, to : Apps],
           delivered' = Append(delivered, d), Below(Delivered, {d.msg.id})
    PROVE  /\ Delivered' = Delivered \cup {d.msg.id}
           /\ \A k, n \in 1..Len(delivered') :
                  k < n => delivered'[k].msg.id < delivered'[n].msg.id
<1> DEFINE T == [msg : Messages, to : Apps]
<1>1. delivered \in Seq(T) /\ d \in T
    BY DEF WireTypes
<1>2. \A k, n \in 1..Len(delivered) : k < n => delivered[k].msg.id < delivered[n].msg.id
    BY DEF InOrder
<1> HIDE DEF T
<1>3. /\ Len(delivered) \in Nat /\ Len(delivered') = Len(delivered) + 1
      /\ \A n \in 1..Len(delivered') :
             delivered'[n] = IF n = Len(delivered) + 1 THEN d ELSE delivered[n]
    BY <1>1, AppendOf
<1>4. \A n \in 1..Len(delivered) : delivered[n].msg.id < d.msg.id
    BY DEF Delivered, Below
<1>5. \A k, n \in 1..Len(delivered') : k < n => delivered'[k].msg.id < delivered'[n].msg.id
    BY <1>2, <1>3, <1>4
<1> QED BY <1>3, <1>5 DEF Delivered

Rest == InOrder /\ Pipeline /\ Numbered /\ Seen /\ Routed /\ Decoded

(* Where nothing moves on, and perhaps something is dropped, order, routes *)
(* and what is decoded stay.                                               *)
LEMMA QuietStep ==
    ASSUME Rest,
           AtReader' \subseteq AtReader, AtServer' \subseteq AtServer, AtRun' \subseteq AtRun,
           rdr'.pc = "send" => rdr' = rdr,
           UNCHANGED <<sent, inbox, up, down, delivered, out, clientAddr>>
    PROVE  Rest'
<1>1. UNCHANGED <<Delivered, Down, Up, Waiting>>
    BY DEF Delivered, Down, Up, Waiting
<1>2. InOrder'
    BY DEF InOrder, Rest
<1>3. Pipeline'
    BY <1>1 DEF Pipeline, Pipe, Below, Rest
<1>4. Numbered'
    BY <1>1 DEF Numbered, Rest
<1>5. Seen'
    BY <1>1 DEF Seen, Rest
<1>6. Routed'
    BY DEF Routed, SentSince, Rest
<1>7. Decoded'
    BY <1>1 DEF Decoded, Frame, Rest
<1> QED BY <1>2, <1>3, <1>4, <1>5, <1>6, <1>7 DEF Rest

(* Run notes the sender of the datagram that it holds, the newest on the   *)
(* way (udp.go Run).                                                       *)
LEMMA RunReadKeeps ==
    ASSUME Rest, WireTypes, PlaceTypes, RunRead
    PROVE  Rest'
<1> DEFINE x == Head(inbox)
<1>1. /\ x \in Waiting /\ Waiting' \subseteq Waiting /\ Below({x}, Waiting')
      /\ \A m, n \in 1..Len(inbox') : m < n => inbox'[m] < inbox'[n]
    BY WaitingLeaves DEF RunRead, Rest
<1>2. AtRun' = {x} /\ AtRun = {} /\ clientAddr' = sent[x].app
    BY DEF RunRead, AtRun
<1>3. /\ UNCHANGED <<Delivered, AtReader, Down, AtServer, Up>>
      /\ UNCHANGED <<sent, up, down, rdr, delivered, out>>
    BY DEF RunRead, server, Delivered, AtReader, Down, AtServer, Up
<1> HIDE DEF x
<1>4. InOrder'
    BY <1>1, <1>3 DEF InOrder, Rest
<1>5. Pipeline'
    BY <1>1, <1>2, <1>3 DEF Pipeline, Pipe, Below, Rest
<1>6. Numbered'
    BY <1>1, <1>2, <1>3 DEF Numbered, Rest
<1>7. Seen'
    <2>1. x \in 1..Len(sent) /\ Len(sent) \in Nat
        BY <1>1 DEF Rest, Numbered, WireTypes
    <2>2. \A i \in Up \cup AtServer \cup Down : i < x
        BY <1>1 DEF Rest, Pipeline, Pipe, Below
    <2>3. Up \cup AtServer \cup Down \subseteq 1..Len(sent)
        BY DEF Rest, Numbered
    <2>4. \A i \in (AtRun \cup Up \cup AtServer \cup Down)' : i <= x
        BY <1>2, <1>3, <2>1, <2>2, <2>3
    <2> QED BY <1>2, <1>3, <2>1, <2>4 DEF Seen
<1>8. Routed'
    BY <1>3 DEF Routed, SentSince, Rest
<1>9. Decoded'
    BY <1>3 DEF Decoded, Frame, Rest
<1> QED BY <1>4, <1>5, <1>6, <1>7, <1>8, <1>9 DEF Rest

(* Run's datagram goes to the WebSocket or is lost.                        *)
LEMMA RunWriteKeeps ==
    ASSUME Rest, WireTypes, PlaceTypes, RunWrite
    PROVE  Rest'
<1>1. AtRun = {run.id} /\ AtRun' = {} /\ run.id \in 1..Len(sent)
    BY DEF RunWrite, AtRun, Rest, Numbered
<1>2. run.id \in Ids
    BY <1>1, IdsOnTheWay DEF Rest
<1>3. /\ UNCHANGED <<Delivered, AtReader, Down, AtServer, Waiting>>
      /\ UNCHANGED <<sent, inbox, down, rdr, delivered, out, clientAddr>>
    BY DEF RunWrite, server, Delivered, AtReader, Down, AtServer, Waiting
<1>4. /\ Up' \subseteq Up \cup {run.id}
      /\ \A m, n \in 1..Len(up') : m < n => up'[m] < up'[n]
    <2>1. CASE link = "up"
        <3>1. Below(Up, {run.id})
            BY <1>1 DEF Rest, Pipeline, Pipe, Below
        <3> QED BY <1>2, <2>1, <3>1, UpGrows DEF RunWrite, Rest
    <2>2. CASE link # "up"
        BY <2>2 DEF RunWrite, Up, Rest, InOrder
    <2> QED BY <2>1, <2>2
<1>5. InOrder'
    BY <1>3, <1>4 DEF InOrder, Rest
<1>6. Pipeline'
    BY <1>1, <1>3, <1>4 DEF Pipeline, Pipe, Below, Rest
<1>7. Numbered'
    BY <1>1, <1>3, <1>4 DEF Numbered, Rest
<1>8. Seen'
    BY <1>1, <1>3, <1>4 DEF Seen, Rest
<1>9. Routed'
    BY <1>3 DEF Routed, SentSince, Rest
<1>10. Decoded'
    BY <1>3 DEF Decoded, Frame, Rest
<1> QED BY <1>5, <1>6, <1>7, <1>8, <1>9, <1>10 DEF Rest

(* readFromServer takes an answer and loads clientAddr, or drops it.       *)
LEMMA ReaderReadKeeps ==
    ASSUME Rest, WireTypes, PlaceTypes, ReaderRead
    PROVE  Rest'
<1> DEFINE x == Head(down).id
<1>1. /\ x \in Down /\ Down' \subseteq Down /\ Below({x}, Down')
      /\ \A m, n \in 1..Len(down') : m < n => down'[m].id < down'[n].id
    BY DownLeaves DEF ReaderRead, Rest
<1>2. /\ AtReader = {} /\ AtReader' \subseteq {x}
      /\ rdr'.pc = "send" => clientAddr # Nobody /\ rdr'.to = clientAddr /\ rdr'.msg.id = x
    BY DEF ReaderRead, AtReader
<1>3. /\ UNCHANGED <<Delivered, AtServer, Up, AtRun, Waiting>>
      /\ UNCHANGED <<sent, inbox, up, delivered, out, clientAddr>>
    BY DEF ReaderRead, server, Delivered, AtServer, Up, AtRun, Waiting
<1> HIDE DEF x
<1>4. InOrder'
    BY <1>1, <1>3 DEF InOrder, Rest
<1>5. Pipeline'
    BY <1>1, <1>2, <1>3 DEF Pipeline, Pipe, Below, Rest
<1>6. Numbered'
    BY <1>1, <1>2, <1>3 DEF Numbered, Rest
<1>7. Seen'
    BY <1>1, <1>3 DEF Seen, Rest
<1>8. Routed'
    <2>1. CASE rdr'.pc = "send"
        <3>1. PICK k \in 1..Len(sent) :
                  /\ sent[k].app = clientAddr
                  /\ \A i \in AtRun \cup Up \cup AtServer \cup Down : i <= k
            BY <1>2, <2>1 DEF Rest, Seen
        <3>2. x \in 1..Len(sent) /\ x <= k /\ Len(sent) \in Nat
            BY <1>1, <3>1 DEF Rest, Numbered, WireTypes
        <3>3. k \in x..Len(sent)
            BY <3>2
        <3> QED BY <1>2, <1>3, <2>1, <3>1, <3>3 DEF Routed, SentSince, Rest
    <2>2. CASE rdr'.pc # "send"
        BY <1>3, <2>2 DEF Routed, SentSince, Rest
    <2> QED BY <2>1, <2>2
<1>9. Decoded'
    BY <1>1, <1>2, <1>3 DEF Decoded, Frame, Rest
<1> QED BY <1>4, <1>5, <1>6, <1>7, <1>8, <1>9 DEF Rest

(* readFromServer hands the answer to the address that it loaded.          *)
LEMMA ReaderSendKeeps ==
    ASSUME Rest, WireTypes, WireTypes', PlaceTypes, Held, ReaderSend
    PROVE  Rest'
<1> DEFINE x == rdr.msg.id
           d == [msg |-> rdr.msg, to |-> rdr.to]
<1>1. AtReader = {x} /\ AtReader' = {} /\ rdr'.pc = "read"
    BY DEF ReaderSend, AtReader
<1>2. /\ UNCHANGED <<Down, AtServer, Up, AtRun, Waiting>>
      /\ UNCHANGED <<sent, inbox, up, down, out, clientAddr>>
    BY DEF ReaderSend, server, Down, AtServer, Up, AtRun, Waiting
<1>3. CASE udp
    <2>1. delivered' = Append(delivered, d)
        BY <1>3 DEF ReaderSend
    <2>2. x \in 1..Len(sent) /\ Len(sent) \in Nat /\ SentSince(rdr.to, x)
        BY <1>1 DEF Rest, Numbered, WireTypes, Routed, ReaderSend
    <2>3. rdr.to \in Apps
        <3>1. PICK k \in x..Len(sent) : sent[k].app = rdr.to
            BY <2>2 DEF SentSince
        <3>2. k \in 1..Len(sent)
            BY <2>2, <3>1
        <3>3. sent[k].app \in Apps
            BY <3>2, IdsOnTheWay DEF Rest
        <3> QED BY <3>1, <3>3
    <2>4. d \in [msg : Messages, to : Apps] /\ d.msg.id = x /\ d.to = rdr.to
        BY <2>3 DEF Held, ReaderSend
    <2>5. Below(Delivered, {x})
        BY <1>1 DEF Rest, Pipeline, Pipe, Below
    <2> HIDE DEF d
    <2>6. /\ Delivered' = Delivered \cup {x}
          /\ \A k, n \in 1..Len(delivered') :
                 k < n => delivered'[k].msg.id < delivered'[n].msg.id
        BY <2>1, <2>4, <2>5, DeliveredGrows DEF Rest
    <2> HIDE DEF x
    <2>7. InOrder'
        BY <1>2, <2>6 DEF InOrder, Rest
    <2>8. Pipeline'
        BY <1>1, <1>2, <2>6 DEF Pipeline, Pipe, Below, Rest
    <2>9. Numbered'
        BY <1>1, <1>2, <2>6 DEF Numbered, Rest
    <2>10. Seen'
        BY <1>2 DEF Seen, Rest
    <2>11. Routed'
        <3> DEFINE T == [msg : Messages, to : Apps]
        <3>1. d \in T /\ delivered \in Seq(T)
            BY <2>4 DEF WireTypes
        <3> HIDE DEF T
        <3>2. /\ Len(delivered) \in Nat /\ Len(delivered') = Len(delivered) + 1
              /\ \A n \in 1..Len(delivered') :
                     delivered'[n] = IF n = Len(delivered) + 1 THEN d ELSE delivered[n]
            BY <2>1, <3>1, AppendOf
        <3>3. \A n \in 1..Len(delivered') : SentSince(delivered'[n].to, delivered'[n].msg.id)
            BY <2>2, <2>4, <3>2 DEF Rest, Routed
        <3> QED BY <1>1, <1>2, <3>3 DEF Routed, SentSince
    <2>12. Decoded'
        BY <1>1, <1>2, <2>6 DEF Decoded, Frame, Rest
    <2> QED BY <2>7, <2>8, <2>9, <2>10, <2>11, <2>12 DEF Rest
<1>4. CASE ~udp
    <2>1. UNCHANGED delivered
        BY <1>4 DEF ReaderSend
    <2> QED BY <1>1, <1>2, <2>1, QuietStep
<1> QED BY <1>3, <1>4

(* The handler takes a datagram from the WebSocket and sends it or drops   *)
(* it (server.go connectUDPHandler).                                       *)
LEMMA SrvTakesKeeps ==
    ASSUME Rest, WireTypes, PlaceTypes, SrvSkip \/ SrvSendError \/ SrvSend
    PROVE  Rest'
<1> DEFINE x == Head(up)
<1>1. SrvRead /\ UNCHANGED <<sent, link, down, client>>
    BY DEF SrvSkip, SrvSendError, SrvSend
<1>2. /\ x \in Up /\ Up' \subseteq Up /\ Below({x}, Up')
      /\ \A m, n \in 1..Len(up') : m < n => up'[m] < up'[n]
    BY <1>1, UpLeaves DEF SrvRead, Rest
<1>3. \/ AtServer' = {} /\ out' = out
      \/ AtServer' = {x} /\ out' = out \cup {x} /\ Parses(Frame(x)) /\ Valid(Frame(x))
    <2>1. CASE SrvSend
        BY <2>1 DEF SrvSend, AtServer
    <2>2. CASE SrvSkip \/ SrvSendError
        BY <1>1, <2>2 DEF SrvSkip, SrvSendError, SrvRead, AtServer, server
    <2> QED BY <2>1, <2>2
<1>4. /\ UNCHANGED <<Delivered, AtReader, Down, AtRun, Waiting>>
      /\ UNCHANGED <<sent, inbox, down, rdr, delivered, clientAddr>>
    BY <1>1 DEF client, Delivered, AtReader, Down, AtRun, Waiting
<1>5. AtServer = {}
    BY <1>1 DEF SrvRead, AtServer
<1> HIDE DEF x
<1>6. InOrder'
    BY <1>2, <1>4 DEF InOrder, Rest
<1>7. Pipeline'
    BY <1>2, <1>3, <1>4, <1>5 DEF Pipeline, Pipe, Below, Rest
<1>8. Numbered'
    BY <1>2, <1>3, <1>4 DEF Numbered, Rest
<1>9. Seen'
    BY <1>2, <1>3, <1>4 DEF Seen, Rest
<1>10. Routed'
    BY <1>4 DEF Routed, SentSince, Rest
<1>11. Decoded'
    <2>1. x \in 1..Len(sent)
        BY <1>2 DEF Rest, Numbered
    <2>2. out' \subseteq {i \in 1..Len(sent) : Parses(Frame(i)) /\ Valid(Frame(i))}
        BY <1>3, <2>1 DEF Rest, Decoded
    <2> QED BY <1>3, <1>4, <2>2 DEF Rest, Decoded, Frame
<1> QED BY <1>6, <1>7, <1>8, <1>9, <1>10, <1>11 DEF Rest

(* The handler's answer goes to the WebSocket or is lost.                  *)
LEMMA SrvReplyKeeps ==
    ASSUME Rest, WireTypes, PlaceTypes, Held, SrvReply
    PROVE  Rest'
<1> DEFINE x == srv.msg.id
<1>1. AtServer = {x} /\ AtServer' = {} /\ srv.msg \in Messages
    BY DEF SrvReply, AtServer, Held
<1>2. /\ UNCHANGED <<Delivered, AtReader, Up, AtRun, Waiting>>
      /\ UNCHANGED <<sent, inbox, up, rdr, delivered, out, clientAddr>>
    BY DEF SrvReply, client, Delivered, AtReader, Up, AtRun, Waiting
<1>3. /\ Down' \subseteq Down \cup {x}
      /\ \A k, n \in 1..Len(down') : k < n => down'[k].id < down'[n].id
    <2>1. CASE link = "up"
        <3>1. Below(Down, {x})
            BY <1>1 DEF Rest, Pipeline, Pipe, Below
        <3> QED BY <1>1, <2>1, <3>1, DownGrows DEF SrvReply, Rest
    <2>2. CASE link # "up"
        BY <2>2 DEF SrvReply, Down, Rest, InOrder
    <2> QED BY <2>1, <2>2
<1> HIDE DEF x
<1>4. InOrder'
    BY <1>2, <1>3 DEF InOrder, Rest
<1>5. Pipeline'
    BY <1>1, <1>2, <1>3 DEF Pipeline, Pipe, Below, Rest
<1>6. Numbered'
    BY <1>1, <1>2, <1>3 DEF Numbered, Rest
<1>7. Seen'
    BY <1>1, <1>2, <1>3 DEF Seen, Rest
<1>8. Routed'
    BY <1>2 DEF Routed, SentSince, Rest
<1>9. Decoded'
    BY <1>1, <1>2, <1>3 DEF Decoded, Frame, Rest
<1> QED BY <1>4, <1>5, <1>6, <1>7, <1>8, <1>9 DEF Rest

(* An application's datagram is newer than all others; what was sent       *)
(* before stays what it was.                                               *)
LEMMA SendKeeps ==
    ASSUME Rest, WireTypes, PlaceTypes, NEW a \in Apps, NEW f, Send(a, f)
    PROVE  Rest'
<1> DEFINE x == Len(sent) + 1
<1>1. /\ Len(sent) \in Nat /\ x \in Nat /\ x \in Ids
      /\ Len(sent') = x /\ x <= MaxDatagrams
      /\ \A k \in 1..Len(sent) : sent'[k] = sent[k]
    <2>1. [app |-> a, frame |-> f] \in [app : Apps, frame : FrameKinds]
        BY DEF Send
    <2> DEFINE T == [app : Apps, frame : FrameKinds]
    <2>2. sent \in Seq(T) /\ [app |-> a, frame |-> f] \in T
        BY <2>1 DEF WireTypes
    <2> HIDE DEF T
    <2>3. /\ Len(sent) \in Nat /\ Len(sent') = Len(sent) + 1
          /\ \A n \in 1..Len(sent') :
                 sent'[n] = IF n = Len(sent) + 1 THEN [app |-> a, frame |-> f] ELSE sent[n]
        BY <2>2, AppendOf DEF Send
    <2>4. Len(sent) < MaxDatagrams /\ MaxDatagrams \in Nat
        BY UdpRelayAssumption DEF Send
    <2> QED BY <2>3, <2>4 DEF Ids
<1>2. /\ UNCHANGED <<Delivered, AtReader, Down, AtServer, Up, AtRun>>
      /\ UNCHANGED <<up, down, rdr, delivered, out, clientAddr>>
      /\ inbox' = Append(inbox, x)
    BY DEF Send, server, Delivered, AtReader, Down, AtServer, Up, AtRun
<1>3. \A i \in 1..Len(sent) : i < x /\ i \in 1..Len(sent')
    BY <1>1
<1>4. Delivered \cup AtReader \cup Down \cup AtServer \cup Up \cup AtRun \cup Waiting
          \subseteq 1..Len(sent)
    BY DEF Rest, Numbered
<1>5. Below(Waiting, {x})
    BY <1>3, <1>4 DEF Below
<1> HIDE DEF x
<1>6. /\ Waiting' = Waiting \cup {x}
      /\ \A m, n \in 1..Len(inbox') : m < n => inbox'[m] < inbox'[n]
    BY <1>1, <1>2, <1>5, WaitingGrows DEF Rest
<1>7. InOrder'
    BY <1>2, <1>6 DEF InOrder, Rest
<1>8. Pipeline'
    BY <1>2, <1>3, <1>4, <1>6 DEF Pipeline, Pipe, Below, Rest
<1>9. Numbered'
    <2>1. x \in 1..Len(sent')
        BY <1>1 DEF x
    <2> QED BY <1>1, <1>2, <1>3, <1>4, <1>6, <2>1 DEF Numbered
<1>10. Seen'
    BY <1>1, <1>2, <1>3 DEF Seen, Rest
<1>11. \A b, i : i \in 1..Len(sent) /\ SentSince(b, i) => SentSince(b, i)'
    BY <1>1 DEF SentSince, x
<1>12. Routed'
    <2>1. rdr.pc = "send" => rdr.msg.id \in 1..Len(sent)
        BY <1>4 DEF AtReader
    <2>2. \A n \in 1..Len(delivered) : delivered[n].msg.id \in 1..Len(sent)
        BY <1>4 DEF Delivered
    <2>3. rdr.pc = "send" => SentSince(rdr.to, rdr.msg.id)'
        BY <1>2, <1>11, <2>1 DEF Rest, Routed
    <2>4. \A n \in 1..Len(delivered) : SentSince(delivered[n].to, delivered[n].msg.id)'
        BY <1>2, <1>11, <2>2 DEF Rest, Routed
    <2> QED BY <1>2, <2>3, <2>4 DEF Routed
<1>13. Decoded'
    BY <1>1, <1>2, <1>3 DEF Decoded, Frame, Rest
<1> QED BY <1>7, <1>8, <1>9, <1>10, <1>12, <1>13 DEF Rest

-----------------------------------------------------------------------------
(* The invariant *)

(* Init establishes the invariant.                                         *)
LEMMA InitUInv == Init => UInv
<1> SUFFICES ASSUME Init PROVE UInv
    OBVIOUS
<1>1. WireTypes /\ BookTypes
    BY DEF Init, WireTypes, BookTypes
<1>2. PlaceTypes /\ Held
    BY DEF Init, PlaceTypes, Held, None
<1>3. Len(sent) = 0 /\ Len(inbox) = 0 /\ Len(up) = 0 /\ Len(down) = 0 /\ Len(delivered) = 0
    BY DEF Init
<1>4. /\ Delivered = {} /\ AtReader = {} /\ Down = {} /\ AtServer = {} /\ Up = {} /\ AtRun = {}
      /\ Waiting = {}
    BY <1>3 DEF Init, Delivered, AtReader, Down, AtServer, Up, AtRun, Waiting
<1>5. InOrder
    BY <1>3 DEF InOrder
<1>6. Pipeline
    BY <1>4 DEF Pipeline, Pipe, Below
<1>7. Numbered
    BY <1>3, <1>4, UdpRelayAssumption DEF Numbered
<1>8. Seen /\ Routed
    BY <1>3 DEF Init, Seen, Routed
<1>9. Decoded
    BY <1>4 DEF Init, Decoded
<1> QED BY <1>1, <1>2, <1>5, <1>6, <1>7, <1>8, <1>9 DEF UInv, TypeOK

(* Every step keeps the invariant.                                         *)
LEMMA NextUInv == UInv /\ [Next]_vars => UInv'
<1> SUFFICES ASSUME UInv, [Next]_vars PROVE UInv'
    OBVIOUS
<1>1. WireTypes /\ PlaceTypes /\ BookTypes /\ Held /\ Rest
    BY DEF UInv, TypeOK, Rest
<1>2. WireTypes' /\ PlaceTypes' /\ BookTypes' /\ Held'
    BY WireStep, PlaceStep, BookStep
<1> SUFFICES Rest'
    BY <1>2 DEF UInv, TypeOK, Rest
<1>3. CASE RunRead
    BY <1>1, <1>3, RunReadKeeps
<1>4. CASE RunWrite
    BY <1>1, <1>4, RunWriteKeeps
<1>5. CASE ReaderRead
    BY <1>1, <1>5, ReaderReadKeeps
<1>6. CASE ReaderSend
    BY <1>1, <1>2, <1>6, ReaderSendKeeps
<1>7. CASE SrvSkip \/ SrvSendError \/ SrvSend
    BY <1>1, <1>7, SrvTakesKeeps
<1>8. CASE SrvReply
    BY <1>1, <1>8, SrvReplyKeeps
<1>9. CASE \E a \in Apps, f \in Frames(sent) : Send(a, f)
    BY <1>1, <1>9, SendKeeps
<1>10. CASE RunEnd
    <2>1. AtRun' = {} /\ UNCHANGED <<AtReader, AtServer>>
        BY <1>10 DEF RunEnd, AtRun, AtReader, AtServer, server
    <2> QED BY <1>1, <1>10, <2>1, QuietStep DEF RunEnd, server
<1>11. CASE ReaderEnd \/ ReaderTooLarge
    <2>1. rdr'.pc = "ended" /\ AtReader' = {} /\ UNCHANGED <<AtRun, AtServer>>
        BY <1>11 DEF ReaderEnd, ReaderTooLarge, AtRun, AtReader, AtServer, server
    <2> QED BY <1>1, <1>11, <2>1, QuietStep DEF ReaderEnd, ReaderTooLarge, server
<1>12. CASE SrvTimeout \/ SrvBreak \/ SrvEnd
    <2>1. srv'.pc \in {"read", "close", "ended"} /\ AtServer' = {} /\ UNCHANGED <<AtRun, AtReader>>
        BY <1>12 DEF SrvTimeout, SrvBreak, SrvEnd, AtRun, AtReader, AtServer, client
    <2> QED BY <1>1, <1>12, <2>1, QuietStep DEF SrvTimeout, SrvBreak, SrvEnd, client
<1>13. CASE SrvAnswer
    <2>1. AtServer' = AtServer /\ UNCHANGED <<AtRun, AtReader>>
        BY <1>13 DEF SrvAnswer, AtRun, AtReader, AtServer, client
    <2> QED BY <1>1, <1>13, <2>1, QuietStep DEF SrvAnswer, client
<1>14. CASE Close \/ Break \/ (\E i \in out : TargetAnswers(i)) \/ UNCHANGED vars
    <2>1. UNCHANGED <<AtRun, AtReader, AtServer>>
        BY <1>14 DEF Close, Break, TargetAnswers, vars, AtRun, AtReader, AtServer, client, server
    <2>2. UNCHANGED <<sent, inbox, up, down, delivered, out, clientAddr, rdr>>
        BY <1>14 DEF Close, Break, TargetAnswers, vars, client, server
    <2> QED BY <1>1, <2>1, <2>2, QuietStep
<1> QED
    BY <1>3, <1>4, <1>5, <1>6, <1>7, <1>8, <1>9, <1>10, <1>11, <1>12, <1>13, <1>14
    DEF Next, Run, Reader, Serve

(* The invariant holds in every reachable state.                           *)
THEOREM UInductive == Spec => []UInv
BY InitUInv, NextUInv, PTL DEF Spec

(* TypeOK: ids on their way are ids of datagrams, and the gauge of open    *)
(* connections is 0 or 1.                                                  *)
THEOREM TypeCorrect == Spec => []TypeOK
<1>1. UInv => TypeOK
    BY DEF UInv
<1> QED BY <1>1, UInductive, PTL

(* AnswersInOrder for any number of applications, datagrams and answers:   *)
(* one answer at most for each datagram, in the order of the datagrams     *)
(* (server.go connectUDPHandler waits for one answer at a time).           *)
THEOREM AnswersOrdered == Spec => []AnswersInOrder
<1>1. UInv => AnswersInOrder
    BY DEF UInv, InOrder, AnswersInOrder
<1> QED BY <1>1, UInductive, PTL

(* MisdirectedOnlyByLater: an answer that misses its requester goes to an  *)
(* application that sent something after the request (udp.go, clientAddr). *)
THEOREM StrayAnswersGoForward == Spec => []MisdirectedOnlyByLater
<1>1. UInv => MisdirectedOnlyByLater
    <2> SUFFICES ASSUME UInv,
                        NEW n \in 1..Len(delivered),
                        delivered[n].to # sent[delivered[n].msg.id].app
                 PROVE  \E i \in (delivered[n].msg.id + 1)..Len(sent) :
                            sent[i].app = delivered[n].to
        BY DEF MisdirectedOnlyByLater
    <2>1. PICK k \in delivered[n].msg.id..Len(sent) : sent[k].app = delivered[n].to
        BY DEF UInv, Routed, SentSince
    <2>2. delivered[n].msg.id \in 1..Len(sent) /\ Len(sent) \in Nat
        BY DEF UInv, TypeOK, WireTypes, Numbered, Delivered
    <2>3. k # delivered[n].msg.id
        BY <2>1
    <2>4. k \in (delivered[n].msg.id + 1)..Len(sent)
        BY <2>1, <2>2, <2>3
    <2> QED BY <2>1, <2>4
<1> QED BY <1>1, UInductive, PTL

(* FramesDecode: whatever applications send and targets answer, the server *)
(* reads no byte past a message, forwards the payload of exactly those     *)
(* frames that are complete, fragments among them, and makes whole frames  *)
(* (server.go parseUDPFrame, buildUDPFrame).                               *)
THEOREM FramesAreDecoded == Spec => []FramesDecode
<1>1. UInv => FramesDecode
    <2> SUFFICES ASSUME UInv PROVE FramesDecode
        OBVIOUS
    <2>1. WireTypes /\ PlaceTypes /\ Numbered /\ Decoded
        BY DEF UInv, TypeOK
    <2>2. Len(sent) \in Nat /\ DOMAIN sent = 1..Len(sent)
        BY <2>1 DEF WireTypes
    <2>3. \A i \in 1..Len(sent) : Frame(i) \in FrameKinds
        BY <2>1, IdsOnTheWay
    <2>4. \A i \in DOMAIN sent :
              /\ Touched(Frame(i)) \subseteq 0..(Frame(i).len - 1)
              /\ Parses(Frame(i)) =
                     (Frame(i).atyp # "other" /\ Frame(i).len >= HeaderLen(Frame(i)))
        BY <2>2, <2>3, ParseIsLayout
    <2>5. \A i \in out : Payload(Frame(i)) = Frame(i).len - HeaderLen(Frame(i))
        BY <2>1, <2>3, ParseIsLayout DEF Decoded
    <2>6. \A n \in DOMAIN delivered :
              LET m == delivered[n].msg
              IN  /\ Reply(m).len = HeaderLen(Reply(m)) + m.n
                  /\ Reply(m).host = SplitHostPort(Frame(m.id).host).host
                  /\ Reply(m).frag = 0
        <3> SUFFICES ASSUME NEW n \in DOMAIN delivered
                     PROVE  LET m == delivered[n].msg
                            IN  /\ Reply(m).len = HeaderLen(Reply(m)) + m.n
                                /\ Reply(m).host = SplitHostPort(Frame(m.id).host).host
                                /\ Reply(m).frag = 0
            OBVIOUS
        <3> DEFINE T == [msg : Messages, to : Apps]
                   m == delivered[n].msg
        <3>1. delivered \in Seq(T)
            BY <2>1 DEF WireTypes
        <3> HIDE DEF T
        <3>2. n \in 1..Len(delivered) /\ delivered[n] \in T
            BY <3>1, ElementOf
        <3>3. m.n \in Nat
            BY <3>2, UdpRelayAssumption DEF T, Messages
        <3>4. m.id \in 1..Len(sent) /\ Valid(Frame(m.id))
            BY <2>1, <3>2 DEF Decoded, Delivered
        <3> HIDE DEF m
        <3>5. /\ BuildUDPFrame(Frame(m.id), m.n).len
                     = HeaderLen(BuildUDPFrame(Frame(m.id), m.n)) + m.n
              /\ BuildUDPFrame(Frame(m.id), m.n).host = SplitHostPort(Frame(m.id).host).host
              /\ BuildUDPFrame(Frame(m.id), m.n).frag = 0
            BY <2>3, <3>3, <3>4, BuildIsLayout
        <3> QED BY <3>5 DEF Reply, m
    <2> QED BY <2>4, <2>5, <2>6 DEF FramesDecode
<1> QED BY <1>1, UInductive, PTL

-----------------------------------------------------------------------------
(* The books *)

\* A datagram is counted once: those still on their way to the server are newer
\* than all that it has sent, and the one whose answer it waits for has none.
Fresh ==
    /\ Below(out, Up \cup AtRun \cup Waiting)
    /\ \A m \in answered : m.id \in out
    /\ srv.pc = "wait" => \A m \in answered : m.id < srv.msg.id

\* totalTx and totalRx are what left and what came, and the record has both.
Left == SumFunction([i \in out |-> Payload(Frame(i))])
Came == SumFunction([m \in answered |-> m.n])
Counted ==
    /\ IsFiniteSet(answered)
    /\ tx = Left
    /\ rx = Came
    /\ srv.pc = "ended" => account = [active |-> 0, tx |-> tx, rx |-> rx]

Books == Fresh /\ Counted

(* What left for targets is finite, and it stays what it was.              *)
LEMMA WhatLeft ==
    ASSUME TypeOK, Numbered, Decoded
    PROVE  IsFiniteSet(out) /\ \A i \in out : i \in 1..Len(sent) /\ Payload(Frame(i)) \in Nat
<1>1. Len(sent) \in Nat
    BY DEF TypeOK, WireTypes
<1>2. out \subseteq 1..Len(sent)
    BY DEF Decoded
<1>3. IsFiniteSet(1..Len(sent))
    BY <1>1, FS_Interval
<1>4. \A i \in out : Payload(Frame(i)) \in Nat
    <2> TAKE i \in out
    <2>1. Frame(i) \in FrameKinds /\ Parses(Frame(i))
        BY <1>2, IdsOnTheWay DEF TypeOK, Decoded
    <2> QED BY <2>1, ParseIsLayout
<1> QED BY <1>2, <1>3, <1>4, FS_Subset

(* A datagram is still on its way at most once before and after each step. *)
LEMMA FreshStep ==
    ASSUME UInv, Fresh, [Next]_vars
    PROVE  Fresh'
<1>1. WireTypes /\ PlaceTypes /\ InOrder /\ Pipeline /\ Numbered /\ Decoded
    BY DEF UInv, TypeOK
<1>2. CASE RunRead
    <2>1. Head(inbox) \in Waiting /\ Waiting' \subseteq Waiting
        BY <1>1, <1>2, WaitingLeaves DEF RunRead
    <2>2. AtRun' = {Head(inbox)} /\ UNCHANGED <<out, Up, answered, srv>>
        BY <1>2 DEF RunRead, AtRun, Up, server
    <2> QED BY <2>1, <2>2 DEF Fresh, Below
<1>3. CASE RunWrite
    <2>1. AtRun = {run.id} /\ AtRun' = {} /\ run.id \in Ids
        BY <1>1, <1>3, IdsOnTheWay DEF RunWrite, AtRun
    <2>2. Below(Up, {run.id})
        BY <1>1, <2>1 DEF Pipeline, Pipe, Below
    <2>3. Up' \subseteq Up \cup {run.id}
        BY <1>1, <1>3, <2>1, <2>2, UpGrows DEF RunWrite, Up
    <2>4. UNCHANGED <<out, Waiting, answered, srv>>
        BY <1>3 DEF RunWrite, Waiting, server
    <2> QED BY <2>1, <2>3, <2>4 DEF Fresh, Below
<1>4. CASE RunEnd
    <2>1. AtRun' = {} /\ UNCHANGED <<out, Up, Waiting, answered, srv>>
        BY <1>4 DEF RunEnd, AtRun, Up, Waiting, server
    <2> QED BY <2>1 DEF Fresh, Below
<1>5. CASE Reader \/ Close \/ Break \/ (\E i \in out : TargetAnswers(i)) \/ UNCHANGED vars
    <2>1. UNCHANGED <<out, AtRun, Up, Waiting, answered, srv>>
        BY <1>5 DEF Reader, ReaderRead, ReaderSend, ReaderEnd, ReaderTooLarge, Close, Break,
                    TargetAnswers, vars, AtRun, Up, Waiting, client, server
    <2> QED BY <2>1 DEF Fresh, Below
<1>6. CASE SrvSkip \/ SrvSendError \/ SrvSend
    <2>1. SrvRead /\ UNCHANGED <<AtRun, Waiting, answered>>
        BY <1>6 DEF SrvSkip, SrvSendError, SrvSend, AtRun, Waiting, client, server
    <2>2. Head(up) \in Up /\ Up' \subseteq Up /\ Below({Head(up)}, Up')
        BY <1>1, <2>1, UpLeaves DEF SrvRead
    <2>3. \/ out' = out /\ srv' = srv
          \/ out' = out \cup {Head(up)} /\ srv'.msg.id = Head(up)
        BY <1>6 DEF SrvSkip, SrvSendError, SrvSend, server
    <2>4. Below({Head(up)}, AtRun \cup Waiting)
        BY <1>1, <2>2 DEF Pipeline, Pipe, Below
    <2>5. \A m \in answered : m.id < Head(up)
        BY <2>2 DEF Fresh, Below
    <2> QED BY <2>1, <2>2, <2>3, <2>4, <2>5 DEF Fresh, Below
<1>7. CASE SrvAnswer
    <2>1. srv.msg.id \in out
        BY <1>1, <1>7 DEF SrvAnswer, Decoded, AtServer
    <2>2. PICK n \in Answers : answered' = answered \cup {[id |-> srv.msg.id, n |-> n]}
        BY <1>7 DEF SrvAnswer
    <2>3. srv'.pc = "reply" /\ UNCHANGED <<out, AtRun, Up, Waiting>>
        BY <1>7 DEF SrvAnswer, AtRun, Up, Waiting, client
    <2> QED BY <2>1, <2>2, <2>3 DEF Fresh, Below
<1>8. CASE SrvTimeout \/ SrvReply \/ SrvBreak \/ SrvEnd
    <2>1. srv'.pc # "wait" /\ UNCHANGED <<out, AtRun, Up, Waiting, answered>>
        BY <1>8 DEF SrvTimeout, SrvReply, SrvBreak, SrvEnd, AtRun, Up, Waiting, client
    <2> QED BY <2>1 DEF Fresh, Below
<1>9. CASE \E a \in Apps, f \in Frames(sent) : Send(a, f)
    <2>1. PICK a \in Apps, f \in Frames(sent) : Send(a, f)
        BY <1>9
    <2> DEFINE x == Len(sent) + 1
    <2>2. Len(sent) \in Nat /\ x \in Ids
        BY <1>1, <2>1, UdpRelayAssumption DEF Send, WireTypes, Ids
    <2>3. \A i \in 1..Len(sent) : i < x
        BY <2>2
    <2>4. Below(Waiting, {x}) /\ Below(out, {x})
        BY <1>1, <2>3 DEF Numbered, Decoded, Below
    <2>5. inbox' = Append(inbox, x) /\ UNCHANGED <<out, AtRun, Up, answered, srv>>
        BY <2>1 DEF Send, AtRun, Up, server
    <2> HIDE DEF x
    <2>6. Waiting' = Waiting \cup {x}
        BY <1>1, <2>2, <2>4, <2>5, WaitingGrows
    <2> QED BY <2>4, <2>5, <2>6 DEF Fresh, Below
<1> QED BY <1>2, <1>3, <1>4, <1>5, <1>6, <1>7, <1>8, <1>9 DEF Next, Run, Serve

(* Every byte that leaves or comes is counted, once, and nothing is        *)
(* counted after the record is written (server.go connectUDPHandler).      *)
LEMMA CountedStep ==
    ASSUME UInv, Fresh, Counted, [Next]_vars
    PROVE  Counted'
<1>1. TypeOK /\ Held /\ Pipeline /\ Numbered /\ Decoded
    BY DEF UInv
<1>2. IsFiniteSet(out) /\ \A i \in out : i \in 1..Len(sent) /\ Payload(Frame(i)) \in Nat
    BY <1>1, WhatLeft
<1>3. \A m \in answered : m.n \in Nat
    BY <1>1, UdpRelayAssumption DEF TypeOK, BookTypes, Messages
<1>4. CASE UNCHANGED <<sent, out, tx, rx, account, answered>> /\ srv.pc # "ended" /\ srv'.pc # "ended"
    BY <1>4 DEF Counted, Left, Came, Frame
<1>5. CASE UNCHANGED <<sent, server>>
    BY <1>5 DEF Counted, Left, Came, Frame, server
<1>6. CASE SrvSend
    <2> DEFINE x == Head(up)
               f == [i \in out |-> Payload(Frame(i))]
               g == [i \in out \cup {x} |-> Payload(Frame(i))]
    <2>1. /\ out' = out \cup {x} /\ tx' = tx + Payload(Frame(x)) /\ srv'.pc = "wait"
          /\ Parses(Frame(x)) /\ UNCHANGED <<sent, rx, answered>>
        BY <1>6 DEF SrvSend
    <2>2. x \in Up /\ x \in 1..Len(sent)
        BY <1>1, <1>6, UpLeaves DEF UInv, TypeOK, SrvSend, SrvRead, Numbered
    <2>3. x \notin out
        <3>1. x \in Nat
            BY <2>2
        <3> QED BY <2>2, <3>1 DEF Fresh, Below
    <2>4. Payload(Frame(x)) \in Nat
        BY <1>1, <2>1, <2>2, IdsOnTheWay, ParseIsLayout DEF TypeOK
    <2>5. Left' = SumFunction(g) /\ Left = SumFunction(f)
        BY <2>1 DEF Left, Frame
    <2>6. DOMAIN f = out /\ DOMAIN g = out \cup {x} /\ g[x] = Payload(Frame(x))
        OBVIOUS
    <2>7. \A y \in out : f[y] \in Int /\ g[y] = f[y]
        BY <1>2
    <2> HIDE DEF x, f, g
    <2>8. SumFunction(g) = SumFunction(f) + g[x]
        <3>1. g[x] \in Int
            BY <2>4, <2>6
        <3> QED BY <1>2, <2>3, <2>6, <2>7, <3>1, SumGrows
    <2>9. tx' = Left'
        BY <2>1, <2>5, <2>6, <2>8 DEF Counted
    <2>10. rx' = Came' /\ IsFiniteSet(answered') /\ srv'.pc # "ended"
        BY <2>1 DEF Counted, Came
    <2> QED BY <2>9, <2>10 DEF Counted
<1>7. CASE SrvAnswer
    <2>1. PICK n \in Answers :
              /\ answered' = answered \cup {[id |-> srv.msg.id, n |-> n]} /\ rx' = rx + n
              /\ srv'.pc = "reply"
        BY <1>7 DEF SrvAnswer
    <2> DEFINE a == [id |-> srv.msg.id, n |-> n]
               f == [m \in answered |-> m.n]
               g == [m \in answered \cup {a} |-> m.n]
    <2>2. srv.msg.id \in 1..Len(sent) /\ srv.pc = "wait"
        BY <1>1, <1>7, IdsOnTheWay DEF TypeOK, SrvAnswer
    <2>3. a \notin answered
        <3>1. srv.msg.id \in Nat
            BY <2>2
        <3>2. a.id = srv.msg.id
            OBVIOUS
        <3> HIDE DEF a
        <3> QED BY <2>2, <3>1, <3>2 DEF Fresh
    <2>4. n \in Nat
        BY UdpRelayAssumption
    <2>5. Came' = SumFunction(g) /\ Came = SumFunction(f)
        BY <2>1 DEF Came
    <2>6. DOMAIN f = answered /\ DOMAIN g = answered \cup {a} /\ g[a] = n
        OBVIOUS
    <2>7. \A y \in answered : f[y] \in Int /\ g[y] = f[y]
        BY <1>3
    <2>8. answered' = answered \cup {a}
        BY <2>1
    <2> HIDE DEF a, f, g
    <2>9. SumFunction(g) = SumFunction(f) + g[a]
        <3>1. g[a] \in Int /\ IsFiniteSet(answered)
            BY <2>4, <2>6 DEF Counted
        <3> QED BY <2>3, <2>6, <2>7, <3>1, SumGrows
    <2>10. IsFiniteSet(answered')
        BY <2>8, FS_AddElement DEF Counted
    <2>11. rx' = Came'
        BY <2>1, <2>5, <2>6, <2>9 DEF Counted
    <2>12. tx' = Left'
        BY <1>7 DEF SrvAnswer, Counted, Left, Frame
    <2> QED BY <2>1, <2>10, <2>11, <2>12 DEF Counted
<1>8. CASE SrvEnd
    <2>1. /\ account.active = 1
          /\ account' = [active |-> account.active - 1, tx |-> tx, rx |-> rx]
          /\ UNCHANGED <<sent, out, answered, tx, rx>>
        BY <1>1, <1>8 DEF SrvEnd, Held
    <2>2. account' = [active |-> 0, tx |-> tx', rx |-> rx']
        BY <2>1
    <2>3. tx' = Left' /\ rx' = Came' /\ IsFiniteSet(answered')
        BY <2>1 DEF Counted, Left, Came, Frame
    <2> QED BY <2>2, <2>3 DEF Counted
<1>9. CASE SrvSkip \/ SrvSendError \/ SrvTimeout \/ SrvReply \/ SrvBreak
    <2>1. /\ UNCHANGED <<sent, out, tx, rx, account, answered>>
          /\ srv.pc # "ended" /\ srv'.pc # "ended"
        BY <1>9 DEF SrvSkip, SrvSendError, SrvRead, SrvTimeout, SrvReply, SrvBreak, server
    <2> QED BY <1>4, <2>1
<1>10. CASE Run \/ Reader \/ Close \/ Break \/ UNCHANGED vars
    <2>1. UNCHANGED <<sent, server>>
        BY <1>10 DEF Run, RunRead, RunWrite, RunEnd, Reader, ReaderRead, ReaderSend, ReaderEnd,
                     ReaderTooLarge, Close, Break, vars
    <2> QED BY <1>5, <2>1
<1>11. CASE \E a \in Apps, f \in Frames(sent) : Send(a, f)
    <2>1. PICK a \in Apps, f \in Frames(sent) : Send(a, f)
        BY <1>11
    <2>2. \A k \in 1..Len(sent) : sent'[k] = sent[k]
        <3> DEFINE T == [app : Apps, frame : FrameKinds]
        <3>1. sent \in Seq(T) /\ [app |-> a, frame |-> f] \in T
            BY <1>1, <2>1 DEF Send, TypeOK, WireTypes
        <3> HIDE DEF T
        <3> QED BY <2>1, <3>1, AppendOf DEF Send
    <2>3. UNCHANGED server
        BY <2>1 DEF Send
    <2>4. \A i \in out : Frame(i)' = Frame(i)
        BY <1>2, <2>2 DEF Frame
    <2>5. Left' = Left /\ Came' = Came
        BY <2>3, <2>4 DEF Left, Came, server
    <2> QED BY <2>3, <2>5 DEF Counted, server
<1>12. CASE \E i \in out : TargetAnswers(i)
    <2>1. UNCHANGED <<sent, srv, out, tx, rx, account, answered>>
        BY <1>12 DEF TargetAnswers
    <2> QED BY <2>1 DEF Counted, Left, Came, Frame
<1> QED BY <1>6, <1>7, <1>8, <1>9, <1>10, <1>11, <1>12 DEF Next, Serve

(* SessionAccounted for any number of datagrams, of any lengths: when the  *)
(* handler has ended the record shows every payload byte that left and     *)
(* every byte of the answers that came (server.go connectUDPHandler).      *)
THEOREM SessionIsAccounted == Spec => []SessionAccounted
<1>1. Init => Books
    <2> SUFFICES ASSUME Init PROVE Books
        OBVIOUS
    <2>1. Fresh
        BY DEF Init, Fresh, Below
    <2> DEFINE f == [i \in {} |-> Payload(Frame(i))]
               g == [m \in {} |-> m.n]
    <2>2. Left = SumFunction(f) /\ Came = SumFunction(g) /\ DOMAIN f = {} /\ DOMAIN g = {}
        BY DEF Init, Left, Came
    <2> HIDE DEF f, g
    <2>3. Left = 0 /\ Came = 0
        BY <2>2, SumOverEmpty DEF SumFunction
    <2>4. Counted
        BY <2>3, FS_EmptySet DEF Init, Counted
    <2> QED BY <2>1, <2>4 DEF Books
<1>2. UInv /\ Books /\ [Next]_vars => Books'
    BY FreshStep, CountedStep DEF Books
<1>3. Books => SessionAccounted
    BY DEF Books, Counted, Left, Came, SessionAccounted
<1> QED BY <1>1, <1>2, <1>3, UInductive, PTL DEF Spec
=============================================================================
