------------------------------ MODULE MCUdpRelay ------------------------------
(* Instances of UdpRelay with two applications.                                *)
EXTENDS UdpRelay

Of(t, is, size, len) ==
    [frag |-> 0, atyp |-> t, len |-> len,
     host |-> [is |-> is, brackets |-> FALSE, loopback |-> FALSE, size |-> size]]
Bracketed(f) == [f EXCEPT !.host.brackets = TRUE]
Fragment(f) == [f EXCEPT !.frag = 1]
Loopback(f) == [f EXCEPT !.host.loopback = TRUE]

Good == Of("ipv4", "v4", 0, 12)

\* Frames around each length that is checked, with each form of host.
Sample ==
    {Good, Fragment(Good), Loopback(Good), Of("other", "v4", 0, 12)}
    \cup {Of("ipv4", "v4", 0, n) : n \in {0, 4, 6, 7, 9, 10}}
    \cup {Of("domain", "name", 0, n) : n \in {6, 7}}
    \cup {Of("domain", "name", 3, n) : n \in {9, 10, 11}}
    \cup {Of("domain", "name", 255, n) : n \in {261, 262, ReadLimit, ReadLimit + 1}}
    \cup {Of("domain", "v4", 7, 20), Bracketed(Of("domain", "name", 5, 20))}
    \cup {Of("domain", "v6", 11, 40), Bracketed(Of("domain", "v6", 13, 40))}
    \cup {Of("ipv6", "v6", 0, n) : n \in {21, 22}}
    \cup {Of("ipv6", "v4", 0, 30)}

\* Any of them comes first; what comes later is plain, or over the read limit,
\* and comes after a plain one, one that does not parse or one that is refused.
FramesAfter(s) ==
    CASE s = <<>> -> Sample
      [] s # <<>> /\ s[1].frame = Good -> {Good, Of("ipv4", "v4", 0, ReadLimit + 1)}
      [] Len(s) = 1 /\ s[1].frame \in {Of("ipv4", "v4", 0, 9), Loopback(Good)} -> {Good}
      [] OTHER -> {}
=============================================================================
