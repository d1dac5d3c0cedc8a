---------------------------- MODULE TcpConnGlue ----------------------------
(***************************************************************************)
(* One TCP connection of the libuv event loop (libuv::conn_glue in         *)
(* src/llarp/ev/ev_libuv.cpp): its three libuv handles (the stream, the    *)
(* tick check and the write-notify async), the write queue filled by the   *)
(* logic thread, and its close chain                                        *)
(*   Close -> OnWriteClosed -> uv_shutdown -> OnShutdown -> OnClosed ->     *)
(*   HandleClosed -> FullClose.                                             *)
(* libuv callbacks run on the event loop thread; Call(h, f) queues f on    *)
(* the logic thread, which runs its jobs in order.  The user of the        *)
(* connection (link code on the logic thread) writes and closes it.  Each  *)
(* libuv call is one atomic step.                                          *)
(***************************************************************************)
EXTENDS Naturals, Sequences

CONSTANTS
    Roles,          \* "outbound" (Loop::tcp_connect) and/or "accepted" (Accept)
    SyncFailures,   \* whether uv_tcp_connect / uv_accept may fail at once
    QueueCap,       \* capacity of m_WriteQueue (32 in the code)
    MaxWrites,      \* bound on the user's writes
    MaxPosts,       \* bound on the read and tick jobs the loop posts
    CloseInCallback \* whether the connected / accepted callback may Close

ASSUME Roles \subseteq {"outbound", "accepted"} /\ SyncFailures \in BOOLEAN
ASSUME QueueCap \in Nat \ {0} /\ MaxWrites \in Nat /\ MaxPosts \in Nat
ASSUME CloseInCallback \in BOOLEAN

\* The user's connected / accepted callback holds m_Conn and may close it.
CallbackCloses == IF CloseInCallback THEN BOOLEAN ELSE {FALSE}

Jobs == {"connectOk", "connectFail", "read", "tick", "closed"}

VARIABLES
    role,
    tcp,         \* m_Handle: "connecting", "open", "unconnected", "closing", "closed"
    connectReq,  \* m_Connect is outstanding
    reading,     \* uv_read_start was called and not stopped
    check,       \* m_Ticker: "idle", "active", "closing", "closed"
    async,       \* m_WriteNotify: "active", "closing", "closed"
    notified,    \* uv_async_send pending on m_WriteNotify
    queue,       \* m_WriteQueue length
    disabled,    \* m_WriteQueue.disable() was called
    inflight,    \* uv_write requests not yet completed
    shutdown,    \* "none", "pending", "failed", "done"
    logicQ,      \* jobs queued on the logic thread by Call
    impl,        \* m_Conn.impl points at this glue (the user holds it)
    closedCbs,   \* times m_Conn.closed / m_Accept->closed was called
    freed,       \* the glue was deleted
    writes,      \* history: writes the user attempted
    posts        \* history: read and tick jobs posted

vars == <<role, tcp, connectReq, reading, check, async, notified, queue,
          disabled, inflight, shutdown, logicQ, impl, closedCbs, freed,
          writes, posts>>

Post(j) == logicQ' = Append(logicQ, j)

\* Loop::tcp_connect: new conn_glue (the constructor inits all three
\* handles), ConnectAsync; when uv_tcp_connect fails (~ok) the glue is
\* deleted.
ConnectStarted(ok) ==
    /\ tcp = IF ok THEN "connecting" ELSE "unconnected"
    /\ connectReq = ok
    /\ freed = ~ok
    /\ reading = FALSE /\ check = "idle" /\ impl = FALSE
    /\ async = "active" /\ disabled = FALSE /\ shutdown = "none"

\* conn_glue::Accept: new child glue, uv_accept; on failure child->Close(),
\* else the accepted callback gets m_Conn (and may Close it), and then
\* Start() begins reading and ticking whatever the callback did.
AcceptedChild(ok) ==
    /\ connectReq = FALSE /\ freed = FALSE
    /\ IF ok
       THEN /\ tcp = "open" /\ reading = TRUE /\ check = "active"
            /\ impl = TRUE
            /\ \E cbClose \in CallbackCloses :
                 /\ async = IF cbClose THEN "closing" ELSE "active"
                 /\ disabled = cbClose
       ELSE /\ tcp = "unconnected" /\ reading = FALSE
            /\ check = "idle" /\ impl = FALSE
            /\ async = "closing" /\ disabled = TRUE
    /\ shutdown = "none"

Init ==
    /\ role \in Roles
    /\ \E ok \in IF SyncFailures THEN BOOLEAN ELSE {TRUE} :
         IF role = "outbound" THEN ConnectStarted(ok) ELSE AcceptedChild(ok)
    /\ notified = FALSE /\ queue = 0 /\ inflight = 0
    /\ logicQ = <<>> /\ closedCbs = 0 /\ writes = 0 /\ posts = 0

\* Mutant: Close() without uv_check_stop.
CloseConnNoCheckStop ==
    /\ async = "active"
    /\ disabled' = TRUE
    /\ async' = "closing"
    /\ check' = check
    /\ reading' = FALSE

\* Close(): once only (guarded by uv_is_closing(m_WriteNotify)); disable the
\* queue, close the async, stop the ticker and reading.
CloseConn ==
    /\ async = "active"
    /\ disabled' = TRUE
    /\ async' = "closing"
    /\ check' = IF check = "active" THEN "idle" ELSE check
    /\ reading' = FALSE

-----------------------------------------------------------------------------
(* Event loop thread *)

\* OnOutboundConnect: queue HandleConnectResult(status).  (Nothing can
\* close the glue while it connects: the user gets it only on success.)
OnOutboundConnect ==
    /\ connectReq /\ tcp = "connecting" /\ ~freed
    /\ \E ok \in BOOLEAN :
         /\ tcp' = IF ok THEN "open" ELSE "unconnected"
         /\ Post(IF ok THEN "connectOk" ELSE "connectFail")
    /\ connectReq' = FALSE
    /\ UNCHANGED <<role, reading, check, async, notified, queue, disabled,
                   inflight, shutdown, impl, closedCbs, freed, writes, posts>>

\* OnRead: data is queued to Read on the logic thread; EOF or an error
\* closes the connection.
OnRead ==
    /\ reading /\ tcp = "open" /\ ~freed
    /\ \/ /\ posts < MaxPosts
          /\ Post("read")
          /\ posts' = posts + 1
          /\ UNCHANGED <<reading, check, async, disabled>>
       \/ /\ CloseConn
          /\ UNCHANGED <<logicQ, posts>>
    /\ UNCHANGED <<role, tcp, connectReq, notified, queue, inflight, shutdown,
                   impl, closedCbs, freed, writes>>

\* OnTick (the check handle): queue Tick on the logic thread.
OnTick ==
    /\ check = "active" /\ ~freed
    /\ posts < MaxPosts
    /\ Post("tick")
    /\ posts' = posts + 1
    /\ UNCHANGED <<role, tcp, connectReq, reading, check, async, notified,
                   queue, disabled, inflight, shutdown, impl, closedCbs,
                   freed, writes>>

\* OnShouldWrite -> FlushWrite: pop and uv_write every queued buffer; the
\* first uv_write that fails drops its buffer, closes and returns.
OnShouldWrite ==
    /\ notified /\ async = "active" /\ ~freed
    /\ notified' = FALSE
    /\ \/ /\ inflight' = inflight + queue
          /\ queue' = 0
          /\ UNCHANGED <<disabled, async, check, reading>>
       \/ \E k \in 0..(queue - 1) :
            /\ inflight' = inflight + k
            /\ queue' = queue - (k + 1)
            /\ CloseConn
    /\ UNCHANGED <<role, tcp, connectReq, shutdown, logicQ, impl, closedCbs,
                   freed, writes, posts>>

\* OnWritten: a write request completes (or is cancelled by the close).
OnWritten ==
    /\ inflight > 0 /\ ~freed
    /\ inflight' = inflight - 1
    /\ UNCHANGED <<role, tcp, connectReq, reading, check, async, notified,
                   queue, disabled, shutdown, logicQ, impl, closedCbs, freed,
                   writes, posts>>

\* OnWriteClosed: the async is closed; uv_shutdown the stream.  Its result
\* is not checked: on a stream that is not connected it fails with
\* UV_ENOTCONN and OnShutdown never runs.
OnWriteClosed ==
    /\ async = "closing" /\ ~freed
    /\ async' = "closed"
    /\ notified' = FALSE
    /\ shutdown' = IF tcp = "open" THEN "pending" ELSE "failed"
    /\ UNCHANGED <<role, tcp, connectReq, reading, check, queue, disabled,
                   inflight, logicQ, impl, closedCbs, freed, writes, posts>>

\* OnShutdown: runs once the pending writes are done; uv_close the stream.
OnShutdown ==
    /\ shutdown = "pending" /\ inflight = 0 /\ ~freed
    /\ shutdown' = "done"
    /\ tcp' = "closing"
    /\ UNCHANGED <<role, connectReq, reading, check, async, notified, queue,
                   disabled, inflight, logicQ, impl, closedCbs, freed, writes,
                   posts>>

\* OnClosed: after an outstanding connect request was cancelled, queue
\* HandleClosed on the logic thread.
OnClosed ==
    /\ tcp = "closing" /\ ~connectReq /\ ~freed
    /\ tcp' = "closed"
    /\ Post("closed")
    /\ UNCHANGED <<role, connectReq, reading, check, async, notified, queue,
                   disabled, inflight, shutdown, impl, closedCbs, freed,
                   writes, posts>>

\* FullClose: the ticker is closed; delete the glue.
FullClose ==
    /\ check = "closing" /\ ~freed
    /\ check' = "closed"
    /\ freed' = TRUE
    /\ UNCHANGED <<role, tcp, connectReq, reading, async, notified, queue,
                   disabled, inflight, shutdown, logicQ, impl, closedCbs,
                   writes, posts>>

LoopStep ==
    \/ OnOutboundConnect \/ OnRead \/ OnTick \/ OnShouldWrite \/ OnWritten
    \/ OnWriteClosed \/ OnShutdown \/ OnClosed \/ FullClose

-----------------------------------------------------------------------------
(* Logic thread *)

\* HandleConnectResult(0): publish m_Conn (impl), the connected callback
\* (which may Close it: the queue is disabled and the async closing), then
\* Start: uv_check_start and uv_read_start, unconditionally.  A failed
\* connect calls the error callback and nothing else.
HandleConnectResult ==
    /\ logicQ # <<>> /\ Head(logicQ) \in {"connectOk", "connectFail"}
    /\ logicQ' = Tail(logicQ)
    /\ IF Head(logicQ) = "connectOk"
       THEN /\ impl' = TRUE
            /\ \E cbClose \in CallbackCloses :
                 IF cbClose THEN /\ disabled' = TRUE /\ async' = "closing"
                            ELSE UNCHANGED <<disabled, async>>
            /\ check' = "active"
            /\ reading' = TRUE
       ELSE UNCHANGED <<impl, check, reading, disabled, async>>
    /\ UNCHANGED <<role, tcp, connectReq, notified, queue, inflight,
                   shutdown, closedCbs, freed, writes, posts>>

\* Read and Tick hand the data / the tick to the user's callbacks.
ReadOrTick ==
    /\ logicQ # <<>> /\ Head(logicQ) \in {"read", "tick"}
    /\ logicQ' = Tail(logicQ)
    /\ UNCHANGED <<role, tcp, connectReq, reading, check, async, notified,
                   queue, disabled, inflight, shutdown, impl, closedCbs,
                   freed, writes, posts>>

\* Mutant: HandleClosed without uv_close of the ticker.
HandleClosedNoTickerClose ==
    /\ logicQ # <<>> /\ Head(logicQ) = "closed"
    /\ logicQ' = Tail(logicQ)
    /\ closedCbs' = closedCbs + 1
    /\ impl' = FALSE
    /\ UNCHANGED <<role, tcp, connectReq, reading, check, async, notified, queue,
                   disabled, inflight, shutdown, freed, writes, posts>>

\* HandleClosed: the closed callback, clear impl, uv_close the ticker.
HandleClosed ==
    /\ logicQ # <<>> /\ Head(logicQ) = "closed"
    /\ logicQ' = Tail(logicQ)
    /\ closedCbs' = closedCbs + 1
    /\ impl' = FALSE
    /\ check' = "closing"
    /\ UNCHANGED <<role, tcp, connectReq, reading, async, notified, queue,
                   disabled, inflight, shutdown, freed, writes, posts>>

\* Mutant: pushBack without the capacity check.
WriteAsyncNoCap ==
    /\ impl /\ writes < MaxWrites
    /\ writes' = writes + 1
    /\ IF tcp \in {"closing", "closed"} \/ async # "active" \/ disabled
       THEN UNCHANGED <<queue, notified>>
       ELSE /\ queue' = queue + 1
            /\ notified' = TRUE
    /\ UNCHANGED <<role, tcp, connectReq, reading, check, async, disabled,
                   inflight, shutdown, logicQ, impl, closedCbs, freed, posts>>

\* Mutant: pushBack without the uv_async_send.
WriteAsyncNoNotify ==
    /\ impl /\ writes < MaxWrites
    /\ writes' = writes + 1
    /\ IF tcp \in {"closing", "closed"} \/ async # "active"
          \/ disabled \/ queue = QueueCap
       THEN UNCHANGED queue
       ELSE queue' = queue + 1
    /\ UNCHANGED <<role, tcp, connectReq, reading, check, async, disabled,
                   inflight, shutdown, logicQ, impl, closedCbs, freed, posts,
                   notified>>

\* The user's write (ExplicitWrite -> WriteAsync): refused once the stream
\* or the async is closing; else pushBack, and uv_async_send on success.
WriteAsync ==
    /\ impl /\ writes < MaxWrites
    /\ writes' = writes + 1
    /\ IF tcp \in {"closing", "closed"} \/ async # "active"
          \/ disabled \/ queue = QueueCap
       THEN UNCHANGED <<queue, notified>>
       ELSE /\ queue' = queue + 1
            /\ notified' = TRUE
    /\ UNCHANGED <<role, tcp, connectReq, reading, check, async, disabled,
                   inflight, shutdown, logicQ, impl, closedCbs, freed, posts>>

\* The user's close (ExplicitClose -> Close).
UserClose ==
    /\ impl
    /\ CloseConn
    /\ UNCHANGED <<role, tcp, connectReq, notified, queue, inflight, shutdown,
                   logicQ, impl, closedCbs, freed, writes, posts>>

LogicStep == HandleConnectResult \/ ReadOrTick \/ HandleClosed \/ WriteAsync \/ UserClose

Next == LoopStep \/ LogicStep

\* Both threads keep running: the loop runs the callback of every event
\* that has happened (a connect result, a tick, an async send, a finished
\* write, shutdown or close) and the logic thread runs its queue.  Data or
\* EOF from the peer (OnRead) need not come, nor the user's writes and
\* closes.
LoopCallbacks ==
    \/ OnOutboundConnect \/ OnTick \/ OnShouldWrite \/ OnWritten
    \/ OnWriteClosed \/ OnShutdown \/ OnClosed \/ FullClose

Spec ==
    /\ Init /\ [][Next]_vars
    /\ WF_vars(LoopCallbacks)
    /\ WF_vars(HandleConnectResult \/ ReadOrTick \/ HandleClosed)

-----------------------------------------------------------------------------
(* Properties *)

TypeOK ==
    /\ role \in {"outbound", "accepted"}
    /\ tcp \in {"connecting", "open", "unconnected", "closing", "closed"}
    /\ check \in {"idle", "active", "closing", "closed"}
    /\ async \in {"active", "closing", "closed"}
    /\ shutdown \in {"none", "pending", "failed", "done"}
    /\ queue \in 0..QueueCap /\ inflight \in Nat
    /\ logicQ \in Seq(Jobs)
    /\ closedCbs \in Nat
    /\ {connectReq, reading, notified, disabled, impl, freed} \subseteq BOOLEAN

\* The glue is deleted only when libuv and the logic thread are done with
\* it: all three handles closed, no write or connect request outstanding
\* and no Read, Tick or HandleClosed job left on the logic thread.
\* Loop::tcp_connect deletes it after a failed ConnectAsync; FullClose
\* deletes it from the ticker's close callback.
NoUseAfterFree ==
    freed => /\ tcp \in {"closed", "unconnected"} /\ check = "closed"
             /\ async = "closed" /\ ~connectReq /\ inflight = 0
             /\ logicQ = <<>>

\* A close is carried through: once a connection handed to the user is
\* closed (by the user, EOF or a failed write), the user's closed callback
\* eventually runs, exactly once, and the glue is freed.
CloseCompletes ==
    (impl /\ async # "active") ~> (closedCbs = 1 /\ freed)

-----------------------------------------------------------------------------
(* Refinement of TcpConn, the connection as its user sees it.  The user     *)
(* holds the connection while impl is set; a failed outbound connect has    *)
(* consumed its result and left the stream unconnected.  Writes count as    *)
(* unsent while they sit in m_WriteQueue and the queue is not disabled      *)
(* (a disabled queue is never flushed again).  A read or tick is delivered  *)
(* when its job has left the logic queue.                                   *)

JobsQueued(S) == Len(SelectSeq(logicQ, LAMBDA j : j \in S))

ConnPhase ==
    CASE freed                 -> "freed"
      [] closedCbs > 0         -> "closed"
      [] impl /\ async = "active" -> "open"
      [] impl                  -> "closing"
      [] tcp = "unconnected" /\ JobsQueued({"connectFail"}) = 0 -> "failed"
      [] OTHER                 -> "pending"

Conn == INSTANCE TcpConn
          WITH Cap <- QueueCap,
               conn <- ConnPhase,
               unsent <- IF disabled THEN 0 ELSE queue,
               delivered <- posts - JobsQueued({"read", "tick"})

\* The glue implements the abstract connection: the user sees pending,
\* then open or failed; accepted writes are flushed to the socket while
\* the connection stays open (OnShouldWrite after uv_async_send); reads
\* and ticks reach the user only before its closed callback; a close
\* ends in one closed callback and the free.
ConnSpec == Conn!Spec
====
