----------------------------- MODULE MCSession -----------------------------
(* Instances of Session for TLC.                                           *)
EXTENDS Session

Node(suite, pqc, psk, identity, blocking) ==
    [suite |-> suite, pqc |-> pqc, psk |-> psk, identity |-> identity, blocking |-> blocking,
     sndbuf |-> SockCap]

Pair(i, r) == [e \in Endpoint |-> IF e = "initiator" THEN i ELSE r]

Pqc(suite, b) == Node(suite, TRUE, NoPsk, "paired", b)
Degraded(suite, psk, b) == Node(suite, FALSE, psk, "paired", b)

\* Two nodes configured alike, blocking or not.
MatchedPqc == {Pair(Pqc("768", b), Pqc("768", c)) : b, c \in BOOLEAN}
MatchedPsk == {Pair(Degraded("768", "k1", b), Degraded("768", "k1", c)) : b, c \in BOOLEAN}

\* Nodes whose suites, PSKs, postures or identities do not fit together.
Mismatched ==
    {Pair(Pqc("768", FALSE), Pqc("1024", TRUE)),
     Pair(Degraded("768", "k1", TRUE), Degraded("768", "k2", FALSE)),
     Pair(Degraded("768", "k1", FALSE), Degraded("1024", "k1", TRUE)),
     Pair(Degraded("768", "k1", TRUE), Node("768", TRUE, "k1", "paired", FALSE)),
     Pair(Pqc("768", TRUE), Degraded("768", "k1", FALSE)),
     Pair(Node("768", TRUE, NoPsk, "foreign", TRUE), Pqc("768", FALSE)),
     Pair(Pqc("768", FALSE), Node("768", TRUE, NoPsk, "none", TRUE)),
     Pair(Node("768", TRUE, NoPsk, "none", FALSE), Pqc("768", FALSE)),
     Pair(Node(BadPolicy, TRUE, NoPsk, "paired", FALSE), Pqc("768", FALSE)),
     Pair(Pqc("768", FALSE), Node(BadPolicy, TRUE, NoPsk, "paired", FALSE)),
     Pair(Degraded("768", NoPsk, FALSE), Pqc("768", FALSE))}

\* Kernels that take half a frame at a time: hellos leave in pieces.
Tight(c) == [e \in Endpoint |-> [c[e] EXCEPT !.sndbuf = 1]]

AllConfigs == MatchedPqc \cup MatchedPsk \cup Mismatched
                  \cup {Tight(c) : c \in MatchedPqc \cup MatchedPsk}

BlockingConfigs == {c \in MatchedPqc \cup MatchedPsk : \A e \in Endpoint : c[e].blocking}

NonblockingConfigs == {c \in MatchedPqc : \A e \in Endpoint : ~c[e].blocking}

\* One end blocking, the other not, as the mismatched ones already are.
FaultConfigs ==
    {c \in MatchedPqc \cup MatchedPsk : c["initiator"].blocking # c["responder"].blocking}
        \cup Mismatched

=============================================================================
