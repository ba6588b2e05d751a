------------------------------ MODULE MCRelay ------------------------------
(* Relay with a source device A of one connection, which carries a flow    *)
(* and datagrams, and a destination device B of two that sends nothing.    *)
EXTENDS Relay

OneToTwo == [c \in Conn |-> IF c = "a" THEN "A" ELSE "B"]
ToB == [f \in TcpFlow \cup Datagram |-> "B"]
FromA == [c \in Conn |-> IF c = "a" THEN TcpFlow \cup Datagram ELSE {}]
=============================================================================
