----------------------------- MODULE LinkLayer -----------------------------
(***************************************************************************)
(* The session tables of one link layer (llarp::ILinkLayer in              *)
(* src/llarp/link/server.cpp and llarp::iwp::LinkLayer in                  *)
(* src/llarp/iwp/linklayer.cpp).                                           *)
(*                                                                         *)
(*   m_Pending     multimap remote endpoint -> session (handshaking)       *)
(*   m_AuthedLinks multimap RouterID -> session (established)              *)
(*   m_AuthedAddrs map remote endpoint -> RouterID (iwp ingress routing)   *)
(*                                                                         *)
(* Every action runs on the logic lane, so each is atomic.  A session's    *)
(* time since its last packet is abstracted away: Pump may find any        *)
(* subset of the sessions timed out.  The session object itself            *)
(* (iwp/session.cpp) is not in the source tree; its handshake and Close()  *)
(* are modelled from the spec (section 4.1).                               *)
(***************************************************************************)
EXTENDS Naturals, FiniteSets

CONSTANTS
    Peer,                   \* RouterIDs of remote routers
    Addr,                   \* remote UDP endpoints
    Session,                \* pool of session objects; bounds the run
    AddrOf,                 \* Peer -> Addr: the iwp address in the peer's RC
    MaxSessionsPerKey,      \* server.cpp:9   (16 in the code)
    MaxSessionsPerEndpoint, \* server.cpp:441 (5 in the code)
    PermitInbound,          \* iwp LinkLayer::permitInbound
    None

ASSUME AddrOf \in [Peer -> Addr]
ASSUME MaxSessionsPerEndpoint \in Nat /\ MaxSessionsPerKey \in Nat
ASSUME PermitInbound \in BOOLEAN

VARIABLES
    sstate,      \* session state: "unused" | "handshake" | "linking" | "ready" | "closed"
    remote,      \* session -> remote endpoint (GetRemoteEndpoint)
    rpeer,       \* session -> RouterID of the remote RC, None until known
    pending,     \* m_Pending, as the set of its sessions (key = remote[s])
    authed,      \* m_AuthedLinks, as a set of <<RouterID, session>> pairs
    authedAddrs, \* m_AuthedAddrs
    timeoutQ     \* sessions whose deferred HandleTimeout+Close is queued

vars == <<sstate, remote, rpeer, pending, authed, authedAddrs, timeoutQ>>

\* "linking": the session verified the last handshake packet on the crypto
\* worker and its call to MapAddr is queued on the logic lane (spec 4.9).
States == {"unused", "handshake", "linking", "ready", "closed"}

-----------------------------------------------------------------------------
(* Helpers over the tables *)

PendingAt(a) == {s \in pending : remote[s] = a}

AuthedOf(p) == {e[2] : e \in {x \in authed : x[1] = p}}

\* m_Pending.find(a)->second: the container's order is not known, but a
\* lookup in an unchanged table always yields the same entry.
FindPending(a) == CHOOSE s \in PendingAt(a) : TRUE

\* m_AuthedLinks.count(pk); a session is in the multimap at most once
CountAuthed(p) == Cardinality(AuthedOf(p))

AuthedSessions == {e[2] : e \in authed}

\* LinkLayer::PickAddress: the first address of our dialect in the RC
PickAddress(p) == AddrOf[p]

\* ILinkSession::Close (spec 4.1, session.cpp is not in this tree): the
\* sessions become terminal; closing a closed session does nothing.
Close(S) ==
    sstate' = [s \in Session |-> IF s \in S THEN "closed" ELSE sstate[s]]

\* Mutant: PutSession without its per-endpoint cap.
PutSessionUncapped(s, a) == pending' = pending \cup {s}

\* ILinkLayer::PutSession: insert into m_Pending unless the endpoint is full
PutSession(s, a) ==
    /\ Cardinality(PendingAt(a)) < MaxSessionsPerEndpoint
    /\ pending' = pending \cup {s}

FreshSession == CHOOSE s \in Session : sstate[s] = "unused"

HasFreshSession == \E s \in Session : sstate[s] = "unused"

-----------------------------------------------------------------------------
Init ==
    /\ sstate = [s \in Session |-> "unused"]
    /\ remote = [s \in Session |-> None]
    /\ rpeer = [s \in Session |-> None]
    /\ pending = {}
    /\ authed = {}
    /\ authedAddrs = [a \in Addr |-> None]
    /\ timeoutQ = {}

\* ILinkLayer::TryEstablishTo(rc): the successful path; every early return
\* leaves the tables untouched.  Start() begins the handshake.
TryEstablishTo(p) ==
    LET a == PickAddress(p)
        s == FreshSession
    IN  /\ HasFreshSession
        /\ CountAuthed(p) < MaxSessionsPerKey
        /\ Cardinality(PendingAt(a)) < MaxSessionsPerKey
        /\ PutSession(s, a)
        /\ sstate' = [sstate EXCEPT ![s] = "handshake"]
        /\ remote' = [remote EXCEPT ![s] = a]
        /\ rpeer' = [rpeer EXCEPT ![s] = p]
        /\ UNCHANGED <<authed, authedAddrs, timeoutQ>>

\* LinkLayer::RecvFrom from an endpoint with neither an authed mapping nor a
\* pending session: a new inbound session is created and kept when its
\* first packet is accepted (a rejected first packet erases it again).
RecvFromNew(a) ==
    LET s == FreshSession
    IN  /\ HasFreshSession
        /\ authedAddrs[a] = None
        /\ PendingAt(a) = {}
        /\ PermitInbound
        /\ pending' = pending \cup {s}
        /\ sstate' = [sstate EXCEPT ![s] = "handshake"]
        /\ remote' = [remote EXCEPT ![s] = a]
        /\ UNCHANGED <<rpeer, authed, authedAddrs, timeoutQ>>

\* ILinkLayer::MapAddr(pk, s) followed by the iwp override: the pending
\* entry is looked up by s's endpoint (m_Pending.find(addr)) and that
\* entry's session, which need not be s, is moved to m_AuthedLinks, and
\* the endpoint is mapped to pk in m_AuthedAddrs (emplace: an existing
\* mapping stays).  Over the cap, s is closed; with no pending entry
\* MapAddr only returns false.  The session itself is linked (spec 4.1)
\* whatever MapAddr returns.
MapAddr(pk, s) ==
    LET a   == remote[s]
        itr == FindPending(a)
    IN  CASE PendingAt(a) = {} ->
                /\ sstate' = [sstate EXCEPT ![s] = "ready"]
                /\ UNCHANGED <<pending, authed, authedAddrs>>
          [] CountAuthed(pk) > MaxSessionsPerKey ->
                /\ Close({s})
                /\ UNCHANGED <<pending, authed, authedAddrs>>
          [] OTHER ->
                /\ authed' = authed \cup {<<pk, itr>>}
                /\ pending' = pending \ {itr}
                /\ authedAddrs' = IF authedAddrs[a] = None
                                  THEN [authedAddrs EXCEPT ![a] = pk]
                                  ELSE authedAddrs
                /\ sstate' = [sstate EXCEPT ![s] = "ready"]

\* Mutant: the session calls MapAddr without having learnt the remote RouterID.
RecvFromPendingNoPeer(a) ==
    LET s == FindPending(a) IN
    /\ authedAddrs[a] = None
    /\ PendingAt(a) # {}
    /\ sstate[s] = "handshake"
    /\ sstate' = [sstate EXCEPT ![s] = "linking"]
    /\ UNCHANGED <<remote, rpeer, pending, authed, authedAddrs, timeoutQ>>

\* LinkLayer::RecvFrom from an endpoint with pending sessions: the packet is
\* handed to m_Pending.find(from)->second.  When it is that session's last
\* handshake packet, the session learns the remote RouterID (from the LIM
\* for an inbound session) and its MapAddr call is queued (spec 4.1, 4.9).
RecvFromPending(a) ==
    LET s == FindPending(a) IN
    /\ authedAddrs[a] = None
    /\ PendingAt(a) # {}
    /\ sstate[s] = "handshake"
    /\ sstate' = [sstate EXCEPT ![s] = "linking"]
    /\ \E p \in IF rpeer[s] = None THEN Peer ELSE {rpeer[s]} :
           rpeer' = [rpeer EXCEPT ![s] = p]
    /\ UNCHANGED <<remote, pending, authed, authedAddrs, timeoutQ>>

\* The queued job of a linking session: it calls MapAddr on its link layer.
SessionMapAddr(s) ==
    /\ sstate[s] = "linking"
    /\ MapAddr(rpeer[s], s)
    /\ UNCHANGED <<remote, rpeer, timeoutQ>>

\* Mutant: timed-out pending sessions are erased but never closed.
PumpNoDeferredClose ==
    \E TA \in SUBSET AuthedSessions, TP \in SUBSET pending :
        /\ authed' = {e \in authed : e[2] \notin TA}
        /\ pending' = pending \ TP
        /\ Close(TA)
        /\ UNCHANGED <<remote, rpeer, authedAddrs, timeoutQ>>

\* ILinkLayer::Pump: timed-out authed sessions are closed and erased;
\* timed-out pending sessions are erased and their HandleTimeout+Close is
\* deferred to a later logic-lane job.
Pump ==
    \E TA \in SUBSET AuthedSessions, TP \in SUBSET pending :
        /\ authed' = {e \in authed : e[2] \notin TA}
        /\ pending' = pending \ TP
        /\ timeoutQ' = timeoutQ \cup TP
        /\ Close(TA)
        /\ UNCHANGED <<remote, rpeer, authedAddrs>>

\* The job queued by Pump: HandleTimeout(self); self->Close().
PendingTimeoutJob(s) ==
    /\ s \in timeoutQ
    /\ timeoutQ' = timeoutQ \ {s}
    /\ Close({s})
    /\ UNCHANGED <<remote, rpeer, pending, authed, authedAddrs>>

\* ILinkLayer::CloseSessionTo: close and erase every session to the peer.
CloseSessionTo(p) ==
    /\ AuthedOf(p) # {}
    /\ authed' = {e \in authed : e[1] # p}
    /\ Close(AuthedOf(p))
    /\ UNCHANGED <<remote, rpeer, pending, authedAddrs, timeoutQ>>

\* ILinkLayer::Stop: close every session, leaving both tables as they are.
Stop ==
    /\ Close(AuthedSessions \cup pending)
    /\ UNCHANGED <<remote, rpeer, pending, authed, authedAddrs, timeoutQ>>

Next ==
    \/ \E p \in Peer : TryEstablishTo(p) \/ CloseSessionTo(p)
    \/ \E a \in Addr : RecvFromNew(a) \/ RecvFromPending(a)
    \/ Pump
    \/ \E s \in Session : SessionMapAddr(s) \/ PendingTimeoutJob(s)
    \/ Stop

Spec == Init /\ [][Next]_vars

-----------------------------------------------------------------------------
(* Properties *)

TypeOK ==
    /\ sstate \in [Session -> States]
    /\ remote \in [Session -> Addr \cup {None}]
    /\ rpeer \in [Session -> Peer \cup {None}]
    /\ pending \subseteq Session
    /\ authed \subseteq Peer \X Session
    /\ authedAddrs \in [Addr -> Peer \cup {None}]
    /\ timeoutQ \subseteq Session

\* Spec 4.2 / invariant 2: an endpoint never has more handshaking sessions
\* than MaxSessionsPerEndpoint, although both TryEstablishTo (via
\* PutSession) and the inbound path of RecvFrom insert into m_Pending.
PendingPerEndpointCap ==
    \A a \in Addr : Cardinality(PendingAt(a)) <= MaxSessionsPerEndpoint

\* Spec invariant 1 and scenario 4: MapAddr keeps at most
\* MaxSessionsPerKey sessions per RouterID in m_AuthedLinks.
AuthedPerKeyCap ==
    \A p \in Peer : CountAuthed(p) <= MaxSessionsPerKey

\* Every session MapAddr put into m_AuthedLinks under RouterID p has
\* finished its handshake and is a session to p: no handshaking or
\* unauthenticated session is ever treated as established.
AuthedSessionsAuthenticated ==
    \A e \in authed : sstate[e[2]] # "handshake" /\ rpeer[e[2]] = e[1]

\* No session is leaked open: a session that is not closed is held by
\* m_Pending or m_AuthedLinks, or Pump has queued its HandleTimeout+Close,
\* whatever order timeouts, late MapAddr jobs and CloseSessionTo run in.
LiveSessionsTracked ==
    \A s \in Session :
        sstate[s] \in {"handshake", "linking", "ready"} =>
            s \in pending \cup AuthedSessions \cup timeoutQ
=============================================================================
