------------------------------ MODULE UdpFrame ------------------------------
(***************************************************************************)
(* The datagrams of the UDP relay, by the lengths of their parts:          *)
(* parseUDPFrame, validateTarget and buildUDPFrame of server.go, and the   *)
(* header of RFC 1928 as the applications read and write it.  Bytes 0 to 2 *)
(* (FRAG is byte 2) are not looked at, byte 3 is the address type, the     *)
(* address and two bytes of port follow, the rest is payload.              *)
(***************************************************************************)
EXTENDS Integers

\* A host as fmt prints it: an address or a name, perhaps in brackets; size is
\* the length of the text where it is sent as text.  An IPv6 address that maps
\* an IPv4 address prints like that one.
Hosts ==
    {h \in [is : {"v4", "v6", "name"}, brackets : BOOLEAN, loopback : BOOLEAN, size : 0..255] :
         h.brackets => h.size >= 2}

\* A frame: FRAG (1 stands for any fragment number), address type, host, length.
FrameKinds ==
    [frag : {0, 1}, atyp : {"ipv4", "domain", "ipv6", "other"}, host : Hosts, len : Nat]

Error == [ok |-> FALSE]
ReadLimit == 32768  \* of a websocket.Conn, in bytes

-----------------------------------------------------------------------------
(* parseUDPFrame *)

\* Mutant: the length of a name is checked like that of an IPv4 address.
NeedFixed(f) == IF f.atyp = "ipv6" THEN 22 ELSE 10

\* The length that each address type is checked against.
Need(f) ==
    CASE f.atyp = "ipv4" -> 10
      [] f.atyp = "domain" -> 5 + f.host.size + 2
      [] OTHER -> 22

AddrEnd(f) ==
    CASE f.atyp = "ipv4" -> 8
      [] f.atyp = "domain" -> 5 + f.host.size
      [] OTHER -> 20

\* Whatever FRAG says.
Parses(f) == f.len >= 7 /\ f.atyp # "other" /\ f.len >= Need(f) /\ f.len >= AddrEnd(f) + 2

\* The bytes of the frame that it touches, whether it parses or not.
Touched(f) ==
    IF f.len < 7 THEN {}
    ELSE {3}
         \cup {i \in {4} : f.atyp = "domain"}
         \cup {i \in 4..(AddrEnd(f) - 1) : f.atyp # "other" /\ f.len >= Need(f)}
         \cup {i \in AddrEnd(f)..(AddrEnd(f) + 1) : Parses(f)}

Payload(f) == f.len - (AddrEnd(f) + 2)

-----------------------------------------------------------------------------
(* validateTarget *)

\* net.SplitHostPort on host:port: brackets go; without them an IPv6 address
\* has too many colons.
SplitHostPort(h) ==
    CASE h.is = "v6" /\ ~h.brackets -> Error
      [] h.brackets -> [ok |-> TRUE, host |-> [is |-> h.is, brackets |-> FALSE,
                                             loopback |-> h.loopback, size |-> h.size - 2]]
      [] OTHER -> [ok |-> TRUE, host |-> h]

\* The target splits, and is not and does not resolve to a loopback address.
Valid(f) == SplitHostPort(f.host).ok /\ ~f.host.loopback

-----------------------------------------------------------------------------
(* buildUDPFrame *)

\* What is appended: zeroes, type, address, port and n bytes of payload.
FrameOf(h, n) ==
    CASE h.is = "v4" -> [frag |-> 0, atyp |-> "ipv4", host |-> h, len |-> 3 + 1 + 4 + 2 + n]
      [] h.is = "v6" -> [frag |-> 0, atyp |-> "ipv6", host |-> h, len |-> 3 + 1 + 16 + 2 + n]
      [] OTHER -> [frag |-> 0, atyp |-> "domain", host |-> [h EXCEPT !.size = @ % 256],
                   len |-> 3 + 1 + 1 + h.size + 2 + n]

BuildUDPFrame(f, n) == FrameOf(SplitHostPort(f.host).host, n)

-----------------------------------------------------------------------------
(* RFC 1928, section 7: the length of a header. *)
HeaderLen(f) ==
    2 + 1 + 1 + 2 + (CASE f.atyp = "ipv4" -> 4 [] f.atyp = "domain" -> 1 + f.host.size [] OTHER -> 16)
=============================================================================
