----------------------------- MODULE SendContext -----------------------------
(***************************************************************************)
(* The hidden-service send context (src/llarp/service/sendcontext.cpp):    *)
(* EncryptAndSendTo numbers a frame, on the logic thread, and hands it to  *)
(* the crypto worker pool to be encrypted and signed; the job posts a      *)
(* LogicCall that queues the frame (Send) and pushes the queue onto its    *)
(* paths (FlushUpstream).                                                  *)
(*                                                                         *)
(* The crypto pool is a FIFO job queue served by CryptoThreads threads     *)
(* (router.worker-threads, spec section 5; two in the checked model); the  *)
(* logic thread runs its queued calls in order.  A frame is its sequence  *)
(* number S; a path is "there or not", and a routing send over it succeeds *)
(* or fails.                                                               *)
(***************************************************************************)
EXTENDS Naturals, Sequences, SequencesExt, FiniteSets

CONSTANTS
    MaxSends,       \* payloads the endpoint hands to the context
    CryptoThreads   \* threads of the crypto worker pool

ASSUME MaxSends \in Nat /\ CryptoThreads \in Nat \ {0}

VARIABLES
    sequenceNo,     \* SendContext::sequenceNo
    lastGoodSend,   \* lastGoodSend # 0
    calls,          \* payloads handed in so far
    intros,         \* payloads waiting in AsyncGenIntro's key exchange
    pool,           \* crypto jobs queued, in order
    running,        \* crypto jobs a pool thread is executing
    logicQ,         \* LogicCalls queued on the router's logic thread
    m_SendQueue,    \* frames queued by Send and not yet flushed
    upstream,       \* frames SendRoutingMessage accepted, in order
    dropped         \* frames that were numbered and will never be sent

vars == <<sequenceNo, lastGoodSend, calls, intros, pool, running, logicQ,
          m_SendQueue, upstream, dropped>>

Init ==
    /\ sequenceNo = 0
    /\ lastGoodSend = FALSE
    /\ calls = 0
    /\ intros = 0
    /\ pool = <<>>
    /\ running = {}
    /\ logicQ = <<>>
    /\ m_SendQueue = <<>>
    /\ upstream = <<>>
    /\ dropped = {}

\* Send: append the frame to m_SendQueue.
Send(q, f) == Append(q, f)

\* Mutant: FlushUpstream that forgets m_SendQueue.clear().
FlushUpstreamNoClear(q) ==
    \E ok \in [1..Len(q) -> BOOLEAN] :
        LET idx  == SelectSeq([i \in 1..Len(q) |-> i], LAMBDA i : ok[i])
            sent == [k \in 1..Len(idx) |-> q[idx[k]]]
        IN  /\ upstream' = upstream \o sent
            /\ dropped' = dropped \cup {q[i] : i \in {i \in 1..Len(q) : ~ok[i]}}
            /\ lastGoodSend' = (lastGoodSend \/ sent # <<>>)
            /\ m_SendQueue' = q

\* FlushUpstream: every queued frame is offered to its path; those the path
\* accepts go upstream (and set lastGoodSend), the others are lost; the
\* queue is cleared.
FlushUpstream(q) ==
    \E ok \in [1..Len(q) -> BOOLEAN] :
        LET idx  == SelectSeq([i \in 1..Len(q) |-> i], LAMBDA i : ok[i])
            sent == [k \in 1..Len(idx) |-> q[idx[k]]]
        IN  /\ upstream' = upstream \o sent
            /\ dropped' = dropped \cup {q[i] : i \in {i \in 1..Len(q) : ~ok[i]}}
            /\ lastGoodSend' = (lastGoodSend \/ sent # <<>>)
            /\ m_SendQueue' = <<>>

\* Mutant: S = sequenceNo++ instead of ++sequenceNo.
EncryptAndSendToPostIncrement ==
    /\ sequenceNo' = sequenceNo + 1
    /\ \E hasPath, hasKey \in BOOLEAN :
         IF hasPath /\ hasKey
         THEN /\ pool' = Append(pool, sequenceNo)
              /\ UNCHANGED dropped
         ELSE /\ dropped' = dropped \cup {sequenceNo}
              /\ UNCHANGED pool
    /\ UNCHANGED intros

\* EncryptAndSendTo: S = ++sequenceNo comes first; with no path to the
\* intro's router, or no cached session key, the frame is only logged;
\* otherwise the encrypt-and-sign job is added to the crypto pool.
EncryptAndSendTo ==
    /\ sequenceNo' = sequenceNo + 1
    /\ \E hasPath, hasKey \in BOOLEAN :
         IF hasPath /\ hasKey
         THEN /\ pool' = Append(pool, sequenceNo + 1)
              /\ UNCHANGED dropped
         ELSE /\ dropped' = dropped \cup {sequenceNo + 1}
              /\ UNCHANGED pool
    /\ UNCHANGED intros

\* AsyncGenIntro (OutboundContext, not in this tree): the payload goes into
\* a key exchange of its own, without a sequence number.
AsyncGenIntro ==
    /\ intros' = intros + 1
    /\ UNCHANGED <<sequenceNo, pool, dropped>>

\* AsyncEncryptAndSendTo: the established route once a send has succeeded,
\* the intro exchange before that.
AsyncEncryptAndSendTo ==
    /\ calls < MaxSends
    /\ calls' = calls + 1
    /\ IF lastGoodSend THEN EncryptAndSendTo ELSE AsyncGenIntro
    /\ UNCHANGED <<lastGoodSend, running, logicQ, m_SendQueue, upstream>>

\* The intro exchange ends (spec_modelled): its frame is sent and
\* FlushUpstream'd, and lastGoodSend is set if its path took it.
IntroDone ==
    /\ intros > 0
    /\ intros' = intros - 1
    /\ lastGoodSend' \in {lastGoodSend, TRUE}
    /\ UNCHANGED <<sequenceNo, calls, pool, running, logicQ, m_SendQueue,
                   upstream, dropped>>

\* A free pool thread takes the oldest job.
TakeJob ==
    /\ pool # <<>>
    /\ Cardinality(running) < CryptoThreads
    /\ running' = running \cup {Head(pool)}
    /\ pool' = Tail(pool)
    /\ UNCHANGED <<sequenceNo, lastGoodSend, calls, intros, logicQ,
                   m_SendQueue, upstream, dropped>>

\* Mutant: a crypto job that signs but never posts its LogicCall.
CryptoJobNoPost(f) ==
    /\ f \in running
    /\ running' = running \ {f}
    /\ \/ UNCHANGED <<logicQ, dropped>>
       \/ /\ dropped' = dropped \cup {f}
          /\ UNCHANGED logicQ
    /\ UNCHANGED <<sequenceNo, lastGoodSend, calls, intros, pool,
                   m_SendQueue, upstream>>

\* The crypto job: EncryptAndSign, then LogicCall of Send + FlushUpstream;
\* a failed signature is only logged.
CryptoJob(f) ==
    /\ f \in running
    /\ running' = running \ {f}
    /\ \/ /\ logicQ' = Append(logicQ, f)
          /\ UNCHANGED dropped
       \/ /\ dropped' = dropped \cup {f}
          /\ UNCHANGED logicQ
    /\ UNCHANGED <<sequenceNo, lastGoodSend, calls, intros, pool,
                   m_SendQueue, upstream>>

\* The LogicCall on the logic thread: self->Send(f, path), then
\* self->FlushUpstream().
SendAndFlush ==
    /\ logicQ # <<>>
    /\ logicQ' = Tail(logicQ)
    /\ FlushUpstream(Send(m_SendQueue, Head(logicQ)))
    /\ UNCHANGED <<sequenceNo, calls, intros, pool, running>>

Next ==
    \/ AsyncEncryptAndSendTo \/ IntroDone \/ TakeJob
    \/ \E f \in running : CryptoJob(f)
    \/ SendAndFlush

\* Pool threads and the logic thread keep running while they have work.
Fairness ==
    /\ WF_vars(TakeJob)
    /\ \A f \in 1..MaxSends : WF_vars(CryptoJob(f))
    /\ WF_vars(SendAndFlush)

Spec == Init /\ [][Next]_vars /\ Fairness

-----------------------------------------------------------------------------
(* Properties *)

Frame == 1..MaxSends

TypeOK ==
    /\ sequenceNo \in 0..MaxSends /\ calls \in 0..MaxSends
    /\ intros \in 0..MaxSends /\ lastGoodSend \in BOOLEAN
    /\ pool \in Seq(Frame) /\ running \subseteq Frame
    /\ logicQ \in Seq(Frame) /\ m_SendQueue \in Seq(Frame)
    /\ upstream \in Seq(Frame) /\ dropped \subseteq Frame

\* No frame is sent twice or both sent and lost: whatever order the pool's
\* threads finish in, and whatever the paths refuse, every LogicCall's
\* FlushUpstream offers only frames no earlier flush has offered, so the
\* receiver never sees a sequence number twice.  (The order of S is not
\* kept with more than one crypto thread.)
FramesSentOnce ==
    /\ IsInjective(upstream)
    /\ \A i \in 1..Len(upstream) : upstream[i] \notin dropped

\* Every frame EncryptAndSendTo numbers eventually leaves the context: it
\* goes upstream, or is lost (no path, no key, failed signature, refused
\* by its path); no frame stays in the pool, the logic queue or
\* m_SendQueue.
EveryFrameSettles ==
    \A f \in Frame :
        [](f <= sequenceNo => <>(f \in dropped \/ Contains(upstream, f)))
====
