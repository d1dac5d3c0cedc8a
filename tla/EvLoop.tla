------------------------------- MODULE EvLoop -------------------------------
(***************************************************************************)
(* The libuv event loop's handle registry and the glues other than TCP    *)
(* (src/llarp/ev/ev_libuv.cpp): ticker_glue (Loop::add_ticker, the        *)
(* router's PumpLL ticker), udp_glue (Loop::udp_listen, one per link       *)
(* layer), pipe_glue and tun_glue, with Loop::stop and the uv_walk of      *)
(* Loop::CloseAll.                                                          *)
(*                                                                         *)
(* libuv keeps every handle from its uv_*_init until its uv_close          *)
(* callback in loop->handle_queue, in init order; uv_walk moves that queue *)
(* aside and visits it one handle at a time.  A glue owns its handles (they *)
(* are members), so a glue may be deleted only once all of them are        *)
(* closed.  Each libuv call, callback and logic job is one atomic step.    *)
(***************************************************************************)
EXTENDS Naturals, Sequences, SequencesExt

CONSTANTS
    Glues,         \* the glues the program creates
    Kind,          \* Glues -> {"ticker", "udp", "pipe", "tun"}
    InitFailures,  \* whether the start-up libuv and tuntap calls may fail
    MaxPosts       \* bound on the jobs the check handles post

ASSUME Kind \in [Glues -> {"ticker", "udp", "pipe", "tun"}]
ASSUME InitFailures \in BOOLEAN /\ MaxPosts \in Nat

\* Handle <<g, "main">> is m_Handle (uv_udp_t or uv_poll_t), <<g, "check">>
\* is m_Ticker (uv_check_t).  A ticker_glue has only its check.
Names(g) == IF Kind[g] = "ticker" THEN {"check"} ELSE {"main", "check"}
Handles == {<<g, n>> : g \in Glues, n \in {"main", "check"}}

VARIABLES
    life,     \* glue: "none" (not created), "live", "freed"
    hstate,   \* handle: "none" (not in the loop), "inactive", "active", "closing"
    data,     \* handle->data is set
    impl,     \* m_UDP->impl / m_Tun->impl points at the glue
    hq,       \* loop->handle_queue
    walk,     \* the handles uv_walk has still to visit
    stopped,  \* Loop::stop was called
    logicQ,   \* jobs the check callbacks queued on the logic thread
    posts

vars == <<life, hstate, data, impl, hq, walk, stopped, logicQ, posts>>

\* Loop::init.  Its m_TickTimer (data: the Loop, not a glue) is left out,
\* and with it the walk reaching the timer while it is still active (see
\* README).
Init ==
    /\ life = [g \in Glues |-> "none"]
    /\ hstate = [h \in Handles |-> "none"]
    /\ data = [h \in Handles |-> FALSE]
    /\ impl = [g \in Glues |-> FALSE]
    /\ hq = <<>> /\ walk = <<>>
    /\ stopped = FALSE
    /\ logicQ = <<>> /\ posts = 0

\* A start-up result: the handles uv_*_init registered (in order), those
\* uv_*_start started, and whether the glue is kept.
Res(reg, act, ok) == [reg |-> reg, act |-> act, ok |-> ok]

\* ticker_glue(loop, tick) inits the check; Start() starts it.
TickerStart(g) ==
    {Res(<<<<g, "check">>>>, {<<g, "check">>}, TRUE),
     Res(<<<<g, "check">>>>, {}, FALSE)}

\* udp_glue(loop, udp, src) inits both handles; Bind() fails at
\* uv_udp_bind, uv_udp_recv_start, uv_check_start or uv_fileno.
UdpBind(g) ==
    LET reg == <<<<g, "main">>, <<g, "check">>>> IN
    {Res(reg, {<<g, "main">>, <<g, "check">>}, TRUE)}
    \cup {Res(reg, a, FALSE) : a \in {{}, {<<g, "main">>}, {<<g, "main">>, <<g, "check">>}}}

\* pipe_glue(loop, pipe) inits both handles; Start() fails at
\* uv_poll_start or uv_check_start.
PipeStart(g) ==
    LET reg == <<<<g, "main">>, <<g, "check">>>> IN
    {Res(reg, {<<g, "main">>, <<g, "check">>}, TRUE),
     Res(reg, {}, FALSE), Res(reg, {<<g, "main">>}, FALSE)}

\* tun_glue::Init: the tuntap calls come first (nothing registered yet),
\* then uv_poll_init/uv_poll_start, then uv_check_init/uv_check_start.
TunInit(g) ==
    {Res(<<<<g, "main">>, <<g, "check">>>>, {<<g, "main">>, <<g, "check">>}, TRUE),
     Res(<<>>, {}, FALSE), Res(<<<<g, "main">>>>, {}, FALSE),
     Res(<<<<g, "main">>, <<g, "check">>>>, {<<g, "main">>}, FALSE)}

\* Start a glue with one of its start-up results; a failed start deletes
\* it.  The registered handles stay in the loop either way, and
\* udp_listen and tun_listen set udp->impl / tun->impl before the start
\* and leave it set when they delete the glue.
StartGlue(g, results) ==
    /\ life[g] = "none" /\ ~stopped
    /\ \E r \in results :
         /\ r.ok \/ InitFailures
         /\ life' = [life EXCEPT ![g] = IF r.ok THEN "live" ELSE "freed"]
         /\ hq' = hq \o r.reg
         /\ hstate' = [h \in Handles |->
                         IF h \in r.act THEN "active"
                         ELSE IF h \in ToSet(r.reg) THEN "inactive" ELSE hstate[h]]
         /\ data' = [h \in Handles |-> data[h] \/ h \in ToSet(r.reg)]
         /\ impl' = [impl EXCEPT ![g] = Kind[g] \in {"udp", "tun"}]
    /\ UNCHANGED <<walk, stopped, logicQ, posts>>

AddTicker(g) == Kind[g] = "ticker" /\ StartGlue(g, TickerStart(g))
UdpListen(g) == Kind[g] = "udp" /\ StartGlue(g, UdpBind(g))
AddPipe(g)   == Kind[g] = "pipe" /\ StartGlue(g, PipeStart(g))
TunListen(g) == Kind[g] = "tun" /\ StartGlue(g, TunInit(g))

\* ticker_glue::Close: stop the check, clear its data, delete the glue.
CloseTicker(g) ==
    /\ hstate' = [hstate EXCEPT ![<<g, "check">>] = "inactive"]
    /\ data' = [data EXCEPT ![<<g, "check">>] = FALSE]
    /\ life' = [life EXCEPT ![g] = "freed"]
    /\ UNCHANGED impl

\* udp_glue::Close (tun_glue and pipe_glue alike): clear the user's impl
\* (a pipe has none), stop the check, uv_close m_Handle only.
CloseStream(g) ==
    /\ hstate' = [hstate EXCEPT ![<<g, "check">>] = "inactive",
                                ![<<g, "main">>] = "closing"]
    /\ impl' = [impl EXCEPT ![g] = FALSE]
    /\ UNCHANGED <<data, life>>

\* glue::Close(), virtual.
CloseGlue(g) == IF Kind[g] = "ticker" THEN CloseTicker(g) ELSE CloseStream(g)

\* Loop::udp_close: close the glue the llarp_udp_io points at, if any.
UdpClose(g) ==
    /\ Kind[g] = "udp" /\ impl[g]
    /\ CloseGlue(g)
    /\ UNCHANGED <<hq, walk, stopped, logicQ, posts>>

-----------------------------------------------------------------------------
(* Event loop thread *)

\* The job a check callback queues on the logic thread: pipe_glue and
\* tun_glue bind their own Tick to the glue; the ticker's copy of its
\* function and udp_tick's lambda hold only the router or link layer.
TickJob(g) == IF Kind[g] \in {"pipe", "tun"} THEN g ELSE "user"

\* The check callbacks (OnTick).  ticker_glue queues a copy of its
\* function (PumpLL, bound to the router); udp_glue runs Tick on the loop
\* thread, whose udp_tick LogicCalls a lambda holding the link layer;
\* pipe_glue and tun_glue queue their Tick bound to the glue itself.
OnTick(g) ==
    /\ hstate[<<g, "check">>] = "active" /\ data[<<g, "check">>]
    /\ posts < MaxPosts
    /\ logicQ' = Append(logicQ, TickJob(g))
    /\ posts' = posts + 1
    /\ UNCHANGED <<life, hstate, data, impl, hq, walk, stopped>>

\* The close callback of m_Handle (OnClosed): libuv drops the handle from
\* the loop; the glue deletes itself when the handle still has its data.
OnClosed(g) ==
    /\ hstate[<<g, "main">>] = "closing"
    /\ hstate' = [hstate EXCEPT ![<<g, "main">>] = "none"]
    /\ hq' = SelectSeq(hq, LAMBDA h : h # <<g, "main">>)
    /\ walk' = SelectSeq(walk, LAMBDA h : h # <<g, "main">>)
    /\ data' = [data EXCEPT ![<<g, "main">>] = FALSE]
    /\ life' = IF data[<<g, "main">>] THEN [life EXCEPT ![g] = "freed"] ELSE life
    /\ UNCHANGED <<impl, stopped, logicQ, posts>>

-----------------------------------------------------------------------------
(* Logic thread *)

\* Run the oldest queued job: a pipe or tun Tick reads its glue.
RunJob ==
    /\ logicQ # <<>>
    /\ logicQ' = Tail(logicQ)
    /\ UNCHANGED <<life, hstate, data, impl, hq, walk, stopped, posts>>

\* Loop::stop (from Router::Close): uv_stop, m_Run = false, CloseAll,
\* whose uv_walk takes the whole handle queue.
Stop ==
    /\ ~stopped
    /\ stopped' = TRUE
    /\ walk' = hq
    /\ UNCHANGED <<life, hstate, data, impl, hq, logicQ, posts>>

\* One visit of the CloseAll walk: a handle that is not closing, has its
\* data and is active has its glue closed.
WalkStep ==
    /\ walk # <<>>
    /\ walk' = Tail(walk)
    /\ LET h == Head(walk) IN
       IF hstate[h] = "active" /\ data[h]
       THEN CloseGlue(h[1])
       ELSE UNCHANGED <<life, hstate, data, impl>>
    /\ UNCHANGED <<hq, stopped, logicQ, posts>>

Next ==
    \/ \E g \in Glues : \/ AddTicker(g) \/ UdpListen(g) \/ AddPipe(g) \/ TunListen(g)
                       \/ UdpClose(g) \/ OnTick(g) \/ OnClosed(g)
    \/ RunJob \/ Stop \/ WalkStep

Spec == Init /\ [][Next]_vars

-----------------------------------------------------------------------------
(* Properties *)

TypeOK ==
    /\ life \in [Glues -> {"none", "live", "freed"}]
    /\ hstate \in [Handles -> {"none", "inactive", "active", "closing"}]
    /\ data \in [Handles -> BOOLEAN] /\ impl \in [Glues -> BOOLEAN]
    /\ hq \in Seq(Handles) /\ walk \in Seq(Handles)
    /\ logicQ \in Seq(Glues \cup {"user"})

\* A glue is deleted only when the loop no longer knows any of its
\* handles (each was never registered, or its uv_close callback ran) and
\* no job on the logic thread still refers to it.  Every glue's Close or
\* failed start deletes its memory, handles included.
LoopNoUseAfterFree ==
    \A g \in Glues : life[g] = "freed" =>
        /\ \A n \in Names(g) : hstate[<<g, n>>] = "none"
        /\ \A i \in DOMAIN logicQ : logicQ[i] # g
====
