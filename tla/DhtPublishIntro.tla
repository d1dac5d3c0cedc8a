-------------------------- MODULE DhtPublishIntro --------------------------
(***************************************************************************)
(* Propagation of one EncryptedIntroSet through the DHT of a network of    *)
(* service nodes: PublishIntroMessage::HandleMessage                       *)
(* (src/llarp/dht/messages/pubintro.cpp) at every node, the forwarding     *)
(* transactions it opens (dht::Context::PropagateIntroSetTo, spec 4.6) and *)
(* the GotIntro replies bridged back to the asker.                         *)
(*                                                                         *)
(* Service nodes are numbered 1..N by the XOR distance of their RouterID   *)
(* to the introset's key, so the order FindClosestTo sorts by is the       *)
(* numeric order.  Node 0 is the publishing client.  Each node's nodedb    *)
(* (the RCs it knows) is fixed while one introset propagates.              *)
(***************************************************************************)
EXTENDS Naturals, Sequences, SequencesExt, FiniteSets

CONSTANTS
    N,            \* number of service nodes
    Publishes,    \* the client's publishes: sequence of <<relay, relayOrder>>
    SelfInNodeDB, \* whether every node's nodedb holds its own RC
    MinKnown,     \* fewest RCs a node's nodedb may hold
    MaxPartial,   \* most nodes whose nodedb lacks some RC
    CanExpire     \* whether the introset may expire during propagation

ASSUME N \in Nat /\ MinKnown \in 1..N /\ MaxPartial \in 0..N
ASSUME SelfInNodeDB \in BOOLEAN /\ CanExpire \in BOOLEAN

Node == 1..N
Client == 0
Origin == DOMAIN Publishes

ASSUME \A o \in Origin : Publishes[o][1] \in Node /\ Publishes[o][2] \in Nat

VARIABLES
    known,     \* node -> the RCs in its nodedb
    msgs,      \* DHT messages in flight
    stored,    \* nodes whose services table holds the introset (PutNode)
    txs,       \* open PublishServiceJob TXs <<node, peer, asker, origin>>
    answered,  \* origins of the client's publishes that got a GotIntro
    expired    \* the introset is past expiresAt + MAX_INTROSET_TIME_DELTA

vars == <<known, msgs, stored, txs, answered, expired>>

\* A message carries the index of the client publish it descends from; the
\* real messages carry a fresh txID per hop instead (see README).
Pub(to, from, relayed, order, o) ==
    [kind |-> "pub", to |-> to, from |-> from, relayed |-> relayed,
     order |-> order, origin |-> o]

Got(to, from, o) == [kind |-> "got", to |-> to, from |-> from, origin |-> o]

-----------------------------------------------------------------------------
\* llarp_nodedb::FindClosestTo(key, 4): the (at most) 4 closest known RCs,
\* closest first
FindClosestTo(V) ==
    LET rank(x) == Cardinality({y \in V : y < x})
    IN  [i \in 1..Min({4, Cardinality(V)}) |-> CHOOSE x \in V : rank(x) = i - 1]

\* The nodedbs a node can have when the introset arrives (a node outside
\* the MaxPartial chosen ones knows every RC; Node is one of its choices)
NodeDBs(n) ==
    {V \in SUBSET Node : /\ Cardinality(V) >= MinKnown
                         /\ SelfInNodeDB => n \in V}

Init ==
    /\ \E P \in kSubset(MaxPartial, Node) :
       \E v \in [P -> SUBSET Node] :
         /\ \A n \in P : v[n] \in NodeDBs(n)
         /\ known = [n \in Node |-> IF n \in P THEN v[n] ELSE Node]
    /\ msgs = {Pub(Publishes[o][1], Client, TRUE, Publishes[o][2], o) : o \in Origin}
    /\ stored = {}
    /\ txs = {}
    /\ answered = {}
    /\ expired = FALSE

\* Mutant: relayOrder 1 picks the 2nd and 3rd closest.
PropagateToClosestFourShifted(n, m, closest) ==
    LET pair  == IF m.order = 0 THEN {closest[1], closest[2]}
                                ELSE {closest[2], closest[3]}
        peers == pair \ {n}
    IN  /\ stored' = IF n \in pair THEN stored \cup {n} ELSE stored
        /\ msgs' = (msgs \ {m})
                   \cup (IF n \in pair THEN {Got(m.from, n, m.origin)} ELSE {})
                   \cup {Pub(p, n, FALSE, 0, m.origin) : p \in peers}
        /\ txs' = txs \cup {<<n, p, m.from, m.origin>> : p \in peers}

\* The lambda propagateToClosestFour: the 1st and 2nd closest for
\* relayOrder 0, else the 3rd and 4th.  If we are one of them we store the
\* introset and reply; each other one gets a non-relayed publish with
\* relayOrder 0 through a new TX whose reply is bridged to the asker.
PropagateToClosestFour(n, m, closest) ==
    LET pair  == IF m.order = 0 THEN {closest[1], closest[2]}
                                ELSE {closest[3], closest[4]}
        peers == pair \ {n}
    IN  /\ stored' = IF n \in pair THEN stored \cup {n} ELSE stored
        /\ msgs' = (msgs \ {m})
                   \cup (IF n \in pair THEN {Got(m.from, n, m.origin)} ELSE {})
                   \cup {Pub(p, n, FALSE, 0, m.origin) : p \in peers}
        /\ txs' = txs \cup {<<n, p, m.from, m.origin>> : p \in peers}

\* Every early return replies GotIntro([]) to the sender and does nothing else.
ReplyEmpty(n, m) ==
    /\ msgs' = (msgs \ {m}) \cup {Got(m.from, n, m.origin)}
    /\ UNCHANGED <<stored, txs>>

\* Mutant: a non-relayed publish is propagated even by one of the closest.
HandlePublishIntroNoClosestCheck(m) ==
    LET n       == m.to
        closest == FindClosestTo(known[n])
    IN  /\ m \in msgs
        /\ m.kind = "pub"
        /\ CASE expired                      -> ReplyEmpty(n, m)
             [] Len(closest) # 4             -> ReplyEmpty(n, m)
             [] m.relayed /\ m.order > 1     -> ReplyEmpty(n, m)
             [] OTHER                        -> PropagateToClosestFour(n, m, closest)
        /\ UNCHANGED <<known, answered, expired>>

\* Mutant: the invalid-relayOrder return logs and forgets its reply.
HandlePublishIntroNoBadOrderReply(m) ==
    LET n       == m.to
        closest == FindClosestTo(known[n])
    IN  /\ m \in msgs
        /\ m.kind = "pub"
        /\ CASE expired                      -> ReplyEmpty(n, m)
             [] Len(closest) # 4             -> ReplyEmpty(n, m)
             [] m.relayed /\ m.order > 1     -> /\ msgs' = msgs \ {m}
                                                /\ UNCHANGED <<stored, txs>>
             [] m.relayed                    -> PropagateToClosestFour(n, m, closest)
             [] n \in ToSet(closest)         -> /\ stored' = stored \cup {n}
                                                /\ msgs' = (msgs \ {m}) \cup {Got(m.from, n, m.origin)}
                                                /\ UNCHANGED txs
             [] OTHER                        -> PropagateToClosestFour(n, m, closest)
        /\ UNCHANGED <<known, answered, expired>>

\* PublishIntroMessage::HandleMessage at node n.  An introset that fails
\* Verify or is past its expiry (the expired flag stands for both) gets
\* the same empty reply.
HandlePublishIntro(m) ==
    LET n       == m.to
        closest == FindClosestTo(known[n])
    IN  /\ m \in msgs
        /\ m.kind = "pub"
        /\ CASE expired                      -> ReplyEmpty(n, m)
             [] Len(closest) # 4             -> ReplyEmpty(n, m)
             [] m.relayed /\ m.order > 1     -> ReplyEmpty(n, m)
             [] m.relayed                    -> PropagateToClosestFour(n, m, closest)
             [] n \in ToSet(closest)         -> /\ stored' = stored \cup {n}
                                                /\ msgs' = (msgs \ {m}) \cup {Got(m.from, n, m.origin)}
                                                /\ UNCHANGED txs
             [] OTHER                        -> PropagateToClosestFour(n, m, closest)
        /\ UNCHANGED <<known, answered, expired>>

\* Mutant: the client completes the publish named by the replying peer
\* instead of the reply's txID.
HandleGotIntroWrongTx(m) ==
    LET n    == m.to
        done == {t \in txs : t[1] = n /\ t[2] = m.from /\ t[4] = m.origin}
    IN  /\ m \in msgs
        /\ m.kind = "got"
        /\ IF n = Client
           THEN /\ answered' = answered \cup {m.from}
                /\ msgs' = msgs \ {m}
                /\ UNCHANGED txs
           ELSE /\ msgs' = (msgs \ {m}) \cup {Got(t[3], n, m.origin) : t \in done}
                /\ txs' = txs \ done
                /\ UNCHANGED answered
        /\ UNCHANGED <<known, stored, expired>>

\* GotIntroMessage at a node (from spec 4.6: the GotIntro handler and the
\* PublishServiceJob TX are not in this tree): the reply completes the TXs
\* it opened to that peer and each is answered to its asker ("bridging
\* the reply back"); a reply with no open TX is dropped.  At the client it
\* completes the publish.
HandleGotIntro(m) ==
    LET n    == m.to
        done == {t \in txs : t[1] = n /\ t[2] = m.from /\ t[4] = m.origin}
    IN  /\ m \in msgs
        /\ m.kind = "got"
        /\ IF n = Client
           THEN /\ answered' = answered \cup {m.origin}
                /\ msgs' = msgs \ {m}
                /\ UNCHANGED txs
           ELSE /\ msgs' = (msgs \ {m}) \cup {Got(t[3], n, m.origin) : t \in done}
                /\ txs' = txs \ done
                /\ UNCHANGED answered
        /\ UNCHANGED <<known, stored, expired>>

\* Time passes the introset's expiry; from then on every node rejects it.
IntroSetExpires ==
    /\ CanExpire
    /\ ~expired
    /\ expired' = TRUE
    /\ UNCHANGED <<known, msgs, stored, txs, answered>>

Deliver == \E m \in msgs : HandlePublishIntro(m) \/ HandleGotIntro(m)

Next == Deliver \/ IntroSetExpires

\* Messages between service nodes are delivered; expiry need not happen.
Spec == Init /\ [][Next]_vars /\ WF_vars(Deliver)

-----------------------------------------------------------------------------
(* Properties *)

TypeOK ==
    /\ known \in [Node -> SUBSET Node]
    /\ \A m \in msgs : m.kind \in {"pub", "got"} /\ m.to \in Node \cup {Client}
    /\ stored \subseteq Node
    /\ txs \subseteq Node \X Node \X (Node \cup {Client}) \X Origin
    /\ answered \subseteq Origin
    /\ expired \in BOOLEAN

Quiescent == msgs = {}

\* Spec 4.6 anti-loop: a non-relayed publish never re-enters the relayed
\* branch and the forwarding it starts dies out: every publish is
\* eventually fully handled, whatever the nodes' nodedbs hold.
PropagationTerminates == <>Quiescent

\* Spec 4.6: "the TX is still acknowledged with an empty GotIntro so the
\* asker isn't left waiting".  Every path through HandleMessage (the early
\* returns, storing, forwarding through PropagateIntroSetTo, the
\* re-forward of a non-relayed publish) ends in a reply to its sender,
\* and the client eventually hears back on every publish.
EveryPublishAnswered == <>(answered = Origin)

\* Spec scenario 2: when every node knows every RC and the introset does
\* not expire, relayOrder 0 and 1 store it at exactly the 1st+2nd and
\* 3rd+4th closest nodes once propagation is over.
StoredAtClosest ==
    (Quiescent /\ ~expired /\ \A n \in Node : known[n] = Node) =>
        stored = UNION {IF Publishes[o][2] = 0 THEN {1, 2} ELSE
                        IF Publishes[o][2] = 1 THEN {3, 4} ELSE {} : o \in Origin}
=============================================================================
