--------------------------- MODULE SecureChannel ---------------------------
(***************************************************************************)
(* What an overlaid connection promises its two applications, whatever the *)
(* network does to the bytes in between: both ends use one session, each   *)
(* end receives a prefix of the records the other one sent, and an end     *)
(* that is shut stays shut.  Records are numbered from 1.                  *)
(***************************************************************************)
EXTENDS Naturals

CONSTANTS
    Client, Server,   \* the two ends
    Sessions          \* the sessions they can agree on

End == {Client, Server}

Other(e) == IF e = Client THEN Server ELSE Client

VARIABLES
    status,      \* "opening", "open" or "shut"
    agreed,      \* the set of sessions that an end ever used
    sent,        \* records an end sealed
    delivered    \* records handed to the application of an end

chan == <<status, agreed, sent, delivered>>

ChannelInit ==
    /\ status \in [End -> {"opening", "shut"}]
    /\ agreed = {}
    /\ sent = [e \in End |-> 0]
    /\ delivered = [e \in End |-> 0]

\* The server opens first and fixes the session the client opens with.
OpenServer ==
    /\ status[Server] = "opening"
    /\ status' = [status EXCEPT ![Server] = "open"]
    /\ \E s \in Sessions : agreed' = {s}
    /\ UNCHANGED <<sent, delivered>>

OpenClient ==
    /\ status[Client] = "opening" /\ agreed # {}
    /\ status' = [status EXCEPT ![Client] = "open"]
    /\ UNCHANGED <<agreed, sent, delivered>>

Send(e) ==
    /\ status[e] = "open"
    /\ sent' = [sent EXCEPT ![e] = @ + 1]
    /\ UNCHANGED <<status, agreed, delivered>>

\* The records are the next ones of those the other end sent.
Receive(e) ==
    /\ status[e] = "open"
    /\ \E n \in (delivered[e] + 1)..sent[Other(e)] : delivered' = [delivered EXCEPT ![e] = n]
    /\ UNCHANGED <<status, agreed, sent>>

\* An end shuts for good; the record of a send that fails may be lost.
Shut(e) ==
    /\ status[e] # "shut"
    /\ status' = [status EXCEPT ![e] = "shut"]
    /\ \/ UNCHANGED sent
       \/ status[e] = "open" /\ sent' = [sent EXCEPT ![e] = @ + 1]
    /\ UNCHANGED <<agreed, delivered>>

ChannelNext ==
    \/ OpenServer \/ OpenClient
    \/ \E e \in End : Send(e) \/ Receive(e) \/ Shut(e)

ChannelSpec == ChannelInit /\ [][ChannelNext]_chan

=============================================================================
