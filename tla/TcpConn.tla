------------------------------ MODULE TcpConn ------------------------------
(***************************************************************************)
(* What one TCP connection of the event loop promises the code that uses   *)
(* it (the llarp_tcp_conn handed out by the connected and accepted         *)
(* callbacks), stated without libuv handles or threads:                    *)
(*   - it is pending until the connect result arrives, then open or        *)
(*     failed;                                                              *)
(*   - while open, a write is accepted up to the queue capacity, and every  *)
(*     accepted write is handed to the socket unless a close discards it;   *)
(*   - reads and ticks reach the user only while open or closing;           *)
(*   - a close leads to exactly one closed callback, then to the free.      *)
(* TcpConnGlue implements it under the mapping defined there.              *)
(***************************************************************************)
EXTENDS Naturals

CONSTANT Cap   \* capacity of the write queue

VARIABLES
    conn,       \* "pending", "open", "failed", "closing", "closed", "freed"
    unsent,     \* accepted writes not yet handed to the socket
    delivered   \* reads and ticks handed to the user

avars == <<conn, unsent, delivered>>

Init ==
    /\ conn \in {"pending", "open"}
    /\ unsent = 0
    /\ delivered = 0

Connect ==
    /\ conn = "pending"
    /\ conn' \in {"open", "failed"}
    /\ UNCHANGED <<unsent, delivered>>

Write ==
    /\ conn = "open" /\ unsent < Cap
    /\ unsent' = unsent + 1
    /\ UNCHANGED <<conn, delivered>>

\* Some of the accepted writes are handed to the socket, oldest first.
Send ==
    /\ conn = "open" /\ unsent > 0
    /\ unsent' \in 0..(unsent - 1)
    /\ UNCHANGED <<conn, delivered>>

Deliver ==
    /\ conn \in {"open", "closing"}
    /\ delivered' = delivered + 1
    /\ UNCHANGED <<conn, unsent>>

\* A close, by the user or by the connection itself, discards what was
\* accepted and not yet sent.
Close ==
    /\ conn = "open"
    /\ conn' = "closing"
    /\ unsent' = 0
    /\ UNCHANGED delivered

Closed ==
    /\ conn = "closing"
    /\ conn' = "closed"
    /\ UNCHANGED <<unsent, delivered>>

Free ==
    /\ conn = "closed"
    /\ conn' = "freed"
    /\ UNCHANGED <<unsent, delivered>>

Next == Connect \/ Write \/ Send \/ Deliver \/ Close \/ Closed \/ Free

\* Accepted writes go out and a started close finishes; nothing forces the
\* connect result, the user's writes or a close.
Spec ==
    /\ Init /\ [][Next]_avars
    /\ WF_avars(Send) /\ WF_avars(Closed) /\ WF_avars(Free)
====
