--------------------------- MODULE TracyConnection --------------------------
(***************************************************************************)
(* What spec.md 4.5 promises of the connection manager: one collector at  *)
(* a time, Idle --accept--> Active --close--> Idle, with client_connected  *)
(* true exactly while a connection is held.  A new connection is a fresh  *)
(* stream, never the previous one reopened.                               *)
(***************************************************************************)
EXTENDS Naturals

CONSTANTS NoConn, ConnIds

VARIABLES conn, connected

Init == conn = NoConn /\ connected = FALSE

\* Idle -> Active: accept one socket and set client_connected.
Accept ==
    /\ conn = NoConn
    /\ \E c \in ConnIds : conn' = c
    /\ connected' = TRUE

\* Active -> Idle: drop the socket and clear client_connected.
Close ==
    /\ conn # NoConn
    /\ conn' = NoConn
    /\ connected' = FALSE

Spec == Init /\ [][Accept \/ Close]_<<conn, connected>>

Consistent == connected <=> conn # NoConn
=============================================================================
