------------------------------- MODULE Router -------------------------------
(***************************************************************************)
(* The router's life cycle and the persistence of its RouterContact        *)
(* (src/llarp/router/router.cpp): Run, the ticker and Tick with its        *)
(* UpdateOurRC, Stop and the two delayed stop stages, and the disk worker  *)
(* that writes the RC file (HandleSaveRC).                                 *)
(*                                                                         *)
(* Before Run, the daemon loads the configuration (Config::Load, with the *)
(* isRelay it was started with) and Router::Configure applies it; the     *)
(* router is a service node when the file declares an inbound [bind]      *)
(* link.                                                                  *)
(*                                                                         *)
(* The logic thread runs one action at a time.  The disk worker runs       *)
(* beside it: RouterContact::Write serialises _rc one field at a time      *)
(* (pubkey, enckey, last_updated, signature, in bencode key order), so a   *)
(* write can interleave with the logic thread's changes to _rc.  Keys are  *)
(* numbered; a public key is the number of its secret key.  A signature    *)
(* records the key that made it and the fields it covers.                  *)
(***************************************************************************)
EXTENDS Config, FiniteSets

CONSTANTS
    MaxSigns,      \* bound on the number of times the RC is signed
    MaxDiskJobs,   \* bound on the disk worker's queue
    ConfigFiles    \* the configuration files the daemon may be given

ASSUME MaxSigns \in Nat /\ MaxDiskJobs \in Nat

Fields == <<"pk", "ek", "ver", "sig">>

VARIABLES
    cfgFile,       \* the configuration file
    isRelay,       \* the isRelay argument of Config::Load
    isServiceNode, \* m_isServiceNode, set by FromConfig
    pc,         \* progress of Run on the logic thread
    running,    \* _running
    stopping,   \* _stopping
    identity,   \* _identity (its number)
    encryption, \* _encryption
    rc,         \* _rc
    timers,     \* pending call_later jobs of the logic thread
    linksUp,    \* the link layers are started
    closed,     \* Close() ran: event loop and disk worker stopped
    diskQ,      \* the disk worker's job queue
    copied,     \* the fields of _rc the running HandleSaveRC has read
    file        \* the RC file on disk

vars == <<cfgFile, isRelay, isServiceNode, pc, running, stopping, identity, encryption, rc, timers, linksUp,
          closed, diskQ, copied, file>>

Sig(key, pk, ek, ver) == [by |-> key, over |-> <<pk, ek, ver>>]

\* RouterContact::Verify: signed by the RC's own key over its fields
Valid(r) == r.sig = Sig(r.pk, r.pk, r.ek, r.ver)

\* RouterContact::Sign(identity): stamps last_updated and signs
Sign(r, key) ==
    [r EXCEPT !.ver = r.ver + 1, !.sig = Sig(key, r.pk, r.ek, r.ver + 1)]

\* SaveRC: verify, then queue HandleSaveRC on the disk worker
SaveRC(r) ==
    /\ Valid(r)
    /\ Len(diskQ) < MaxDiskJobs
    /\ diskQ' = Append(diskQ, "rc")

Init ==
    /\ cfgFile \in ConfigFiles
    /\ isRelay \in BOOLEAN
    /\ isServiceNode = FALSE
    /\ pc = "created"
    /\ running = FALSE
    /\ stopping = FALSE
    /\ identity = 1
    /\ encryption = 1
    /\ rc = [pk |-> None, ek |-> None, ver |-> 0, sig |-> None]
    /\ timers = {}
    /\ linksUp = FALSE
    /\ closed = FALSE
    /\ diskQ = <<>>
    /\ copied = [f \in {} |-> None]
    /\ file = None

routerState == <<running, stopping, identity, encryption, rc, timers, linksUp,
                 closed, diskQ, copied, file>>

\* Config::Load; on false the daemon does not configure the router.
LoadConfig ==
    /\ pc = "created"
    /\ pc' = IF Load(cfgFile, isRelay) = None THEN "loadfailed" ELSE "loaded"
    /\ UNCHANGED <<cfgFile, isRelay, isServiceNode>> /\ UNCHANGED routerState

\* FromConfig refuses strict-connect on a service node.  An unparsable
\* strict-connect key is only logged.
StrictConnectRefused(conf, sn) == conf.strict # None /\ sn

\* FromConfig reads every [connect] and [bootstrap] RC file with rc.Read
\* and returns false when one cannot be read; an RC that fails Verify
\* (expired) is only logged and skipped.
BootstrapUnreadable(conf) ==
    \E i \in DOMAIN conf.routers : conf.routers[i] = "missing"

\* FromConfig creates an inbound link per [bind] entry; each must ensure
\* its transport key file and bind its interface (inboundOK).
InboundLinksUp(conf, inboundOK) == Len(conf.inbound) > 0 => inboundOK

\* Router::FromConfig returns true past all three checks.
FromConfigOK(conf, sn, inboundOK) ==
    /\ ~StrictConnectRefused(conf, sn)
    /\ ~BootstrapUnreadable(conf)
    /\ InboundLinksUp(conf, inboundOK)

\* InitOutboundLinks: the outbound link must ensure its transport keys
\* and bind "*" on IPv4 or, failing that, IPv6.
InitOutboundLinks(keysOK, bindV4, bindV6) == keysOK /\ (bindV4 \/ bindV6)

\* EnsureIdentity: find or create the encryption key, then load the
\* identity key (the lokid seed file when usingSNSeed) or create it.
EnsureIdentity(encOK, identOK) == encOK /\ identOK

\* Router::Configure: FromConfig, then InitOutboundLinks, then
\* EnsureIdentity, stopping at the first false.  FromConfig makes the
\* router a service node when there are inbound links.  What the host
\* does with key files and sockets is the choice of the booleans.
Configure ==
    LET conf == Load(cfgFile, isRelay)
        sn   == Len(conf.inbound) > 0
    IN  /\ pc = "loaded"
        /\ isServiceNode' = sn
        /\ \E inboundOK, keysOK, v4, v6, encOK, identOK \in BOOLEAN :
               pc' = IF /\ FromConfigOK(conf, sn, inboundOK)
                        /\ InitOutboundLinks(keysOK, v4, v6)
                        /\ EnsureIdentity(encOK, identOK)
                     THEN "configured" ELSE "failed"
        /\ UNCHANGED <<cfgFile, isRelay>> /\ UNCHANGED routerState

\* Run up to StartLinks: set the public keys, sign, SaveRC, start links.
\* Every failing step returns false and the router does not run.
Run ==
    LET signed == Sign([rc EXCEPT !.pk = identity, !.ek = encryption], identity)
    IN  /\ pc = "configured"
        /\ ~running /\ ~stopping
        /\ \/ /\ rc' = signed
              /\ SaveRC(signed)
              /\ \/ /\ linksUp' = TRUE
                    /\ pc' = "linked"
                 \/ /\ pc' = "failed"
                    /\ UNCHANGED linksUp
           \/ /\ pc' = "failed"
              /\ UNCHANGED <<rc, diskQ, linksUp>>
        /\ UNCHANGED <<running, stopping, identity, encryption, timers, closed,
                       copied, file>>

\* A client regenerates both keys and re-signs, one statement at a time.
ClientKeygen ==
    /\ pc = "linked" /\ ~isServiceNode
    /\ identity' = identity + 1 /\ encryption' = encryption + 1
    /\ pc' = "keygen"
    /\ UNCHANGED <<running, stopping, rc, timers, linksUp, closed, diskQ, copied, file>>

ClientSetPubkey ==
    /\ pc = "keygen"
    /\ rc' = [rc EXCEPT !.pk = identity]
    /\ pc' = "pubkey"
    /\ UNCHANGED <<running, stopping, identity, encryption, timers, linksUp,
                   closed, diskQ, copied, file>>

ClientSetEnckey ==
    /\ pc = "pubkey"
    /\ rc' = [rc EXCEPT !.ek = encryption]
    /\ pc' = "enckey"
    /\ UNCHANGED <<running, stopping, identity, encryption, timers, linksUp,
                   closed, diskQ, copied, file>>

\* _rc.Sign(identity()), then CreateDefaultHiddenService; Run returns
\* false if either fails.
ClientResign ==
    /\ pc = "enckey"
    /\ rc' = Sign(rc, identity)
    /\ pc' \in {"resigned", "failed"}
    /\ UNCHANGED <<running, stopping, identity, encryption, timers, linksUp,
                   closed, diskQ, copied, file>>

\* The rest of Run: start the hidden service context and the DHT, add the
\* PumpLL ticker, schedule the router ticker; Run returns false when
\* StartAll fails.
RunFinish ==
    /\ \/ pc = "linked" /\ isServiceNode
       \/ pc = "resigned"
    /\ \/ /\ pc' = "running"
          /\ running' = TRUE
          /\ timers' = timers \cup {"ticker"}
       \/ /\ pc' = "failed"
          /\ UNCHANGED <<running, timers>>
    /\ UNCHANGED <<stopping, identity, encryption, rc, linksUp, closed, diskQ,
                   copied, file>>

\* Mutant: the new RC is assigned but never saved.
UpdateOurRCNoSave ==
    [rc |-> Sign(rc, identity), jobs |-> <<>>]

\* UpdateOurRC(false): copy _rc, sign and verify the copy, assign it to _rc
\* (sessions renegotiate to carry it), then SaveRC, which verifies it again
\* and queues HandleSaveRC.  The result: the new _rc and the disk jobs.
UpdateOurRC ==
    [rc |-> Sign(rc, identity), jobs |-> <<"rc">>]

\* Tick's disk work: UpdateOurRC when the RC expires soon or is older than
\* rcRegenInterval (bounded by MaxSigns), then the profile save when
\* routerProfiling().ShouldSave.  Connection upkeep, nodedb and DHT pruning
\* and path expiry change no state of this model.
TickBody(update) ==
    \E regen \in BOOLEAN, saveProfiles \in BOOLEAN :
        LET u    == IF regen THEN update ELSE [rc |-> rc, jobs |-> <<>>]
            jobs == u.jobs \o (IF saveProfiles THEN <<"profiles">> ELSE <<>>)
        IN  /\ regen => rc.ver < MaxSigns
            /\ Len(diskQ) + Len(jobs) <= MaxDiskJobs
            /\ rc' = u.rc
            /\ diskQ' = diskQ \o jobs
            /\ UNCHANGED <<pc, running, stopping, identity, encryption, timers,
                           linksUp, closed, copied, file>>

\* handle_router_ticker queues Tick on the logic thread and reschedules
\* itself (Close does not cancel ticker_job_id); Tick returns at once when
\* stopping.
Tick ==
    /\ "ticker" \in timers
    /\ ~stopping
    /\ TickBody(UpdateOurRC)

\* Stop: only a running router that is not already stopping; the first
\* stage is delayed by 200 ms.
Stop ==
    /\ running /\ ~stopping
    /\ stopping' = TRUE
    /\ timers' = timers \cup {"afterStopIssued"}
    /\ UNCHANGED <<pc, running, identity, encryption, rc, linksUp, closed,
                   diskQ, copied, file>>

\* RouterAfterStopIssued: stop the links, flush the nodedb on the disk
\* worker, and schedule Close 200 ms later.
AfterStopIssued ==
    /\ "afterStopIssued" \in timers
    /\ linksUp' = FALSE
    /\ diskQ' = Append(diskQ, "flush")
    /\ timers' = (timers \ {"afterStopIssued"}) \cup {"afterStopLinks"}
    /\ UNCHANGED <<pc, running, stopping, identity, encryption, rc, closed,
                   copied, file>>

\* RouterAfterStopLinks: Close stops the event loop and the disk worker.
AfterStopLinks ==
    /\ "afterStopLinks" \in timers
    /\ closed' = TRUE
    /\ timers' = timers \ {"afterStopLinks"}
    /\ UNCHANGED <<pc, running, stopping, identity, encryption, rc, linksUp,
                   diskQ, copied, file>>

\* Mutant: the file is written one field early.
DiskStepShort ==
    /\ diskQ # <<>> /\ ~closed
    /\ IF Head(diskQ) = "rc"
       THEN LET f    == Fields[Cardinality(DOMAIN copied) + 1]
                done == [g \in DOMAIN copied \cup {f} |->
                            IF g = f THEN rc[f] ELSE copied[g]]
            IN  IF Cardinality(DOMAIN done) = 3
                THEN /\ file' = done
                     /\ copied' = [g \in {} |-> None]
                     /\ diskQ' = Tail(diskQ)
                ELSE /\ copied' = done
                     /\ UNCHANGED <<file, diskQ>>
       ELSE /\ diskQ' = Tail(diskQ)
            /\ UNCHANGED <<copied, file>>
    /\ UNCHANGED <<pc, running, stopping, identity, encryption, rc, timers,
                   linksUp, closed>>

\* The disk worker runs its queue in order.  HandleSaveRC reads the next
\* field of the live _rc; after the last one the file is written.  Other
\* jobs (profiles, nodedb flush) do not touch the RC.  Close stops the
\* pool (disk->stop(); disk->shutdown()); ThreadPool is not in this tree,
\* so the model does not let it run the jobs left queued.
DiskStep ==
    /\ diskQ # <<>> /\ ~closed
    /\ IF Head(diskQ) = "rc"
       THEN LET f    == Fields[Cardinality(DOMAIN copied) + 1]
                done == [g \in DOMAIN copied \cup {f} |->
                            IF g = f THEN rc[f] ELSE copied[g]]
            IN  IF DOMAIN done = {"pk", "ek", "ver", "sig"}
                THEN /\ file' = done
                     /\ copied' = [g \in {} |-> None]
                     /\ diskQ' = Tail(diskQ)
                ELSE /\ copied' = done
                     /\ UNCHANGED <<file, diskQ>>
       ELSE /\ diskQ' = Tail(diskQ)
            /\ UNCHANGED <<copied, file>>
    /\ UNCHANGED <<pc, running, stopping, identity, encryption, rc, timers,
                   linksUp, closed>>

LogicStep ==
    \/ Run \/ ClientKeygen \/ ClientSetPubkey \/ ClientSetEnckey
    \/ ClientResign \/ RunFinish
    \/ Tick \/ Stop \/ AfterStopIssued \/ AfterStopLinks

Next ==
    \/ LoadConfig \/ Configure
    \/ (LogicStep \/ DiskStep) /\ UNCHANGED <<cfgFile, isRelay, isServiceNode>>

\* The logic thread keeps running its queued jobs and timers, and the disk
\* worker keeps running its queue.  Ticks and Stop need not happen.
Spec ==
    /\ Init /\ [][Next]_vars
    /\ WF_vars((ClientKeygen \/ ClientSetPubkey \/ ClientSetEnckey
               \/ ClientResign \/ RunFinish \/ AfterStopIssued \/ AfterStopLinks)
              /\ UNCHANGED <<cfgFile, isRelay, isServiceNode>>)
    /\ WF_vars(DiskStep /\ UNCHANGED <<cfgFile, isRelay, isServiceNode>>)

-----------------------------------------------------------------------------
(* Properties *)

RC == [pk : {None} \cup Nat, ek : {None} \cup Nat, ver : Nat,
       sig : {None} \cup [by : Nat, over : Seq({None} \cup Nat)]]

TypeOK ==
    /\ cfgFile \in ConfigFiles /\ isRelay \in BOOLEAN
    /\ isServiceNode \in BOOLEAN
    /\ pc \in {"created", "loaded", "loadfailed", "configured", "failed", "linked", "keygen", "pubkey", "enckey",
               "resigned", "running"}
    /\ rc \in RC
    /\ running \in BOOLEAN /\ stopping \in BOOLEAN
    /\ linksUp \in BOOLEAN /\ closed \in BOOLEAN
    /\ timers \subseteq {"ticker", "afterStopIssued", "afterStopLinks"}
    /\ diskQ \in Seq({"rc", "profiles", "flush"})
    /\ DOMAIN copied \subseteq {"pk", "ek", "ver", "sig"}
    /\ file = None \/ DOMAIN file = {"pk", "ek", "ver", "sig"}

\* Spec 8: "SaveRC followed by LoadRC yields an RC equal to the original
\* and still verifying".  The RC file never holds an RC whose signature
\* does not verify, although HandleSaveRC on the disk worker reads _rc
\* while Run or UpdateOurRC may be changing it.
FileValid ==
    file # None => Valid(file)

\* Every RC a service node settles on reaches the disk: once the RC stops
\* changing, the file eventually holds it for good, until Close stops the
\* disk worker (SaveRC in Run and after every UpdateOurRC, the disk queue
\* drained in order, while HandleSaveRC reads a _rc that ticks may still
\* regenerate).  A client's Run re-keys after its SaveRC and saves only on
\* a later regeneration, and clients do not reuse their RC file, so they
\* are left out.
LatestRCPersisted ==
    <>[](running /\ isServiceNode /\ ~closed => file = rc)

\* Spec 6: a router only runs on a configuration that meets the option
\* table for the role it was loaded as (connection limits at or above the
\* role's defaults with max >= min, hops and paths in 1..8, netid at most
\* 8 bytes, positive ports and thread counts, existing data-dir and
\* bootstrap files, known log type and level) and uses strict-connect only
\* as a client.  The checks are split: the acceptors in Load, the [bind]
\* and [connect] handlers while values are added, the bootstrap files and
\* strict-connect only in FromConfig, after the role is decided.
RunningConfigWithinSpec ==
    running =>
        /\ SpecOptionsOK(cfgFile, isRelay)
        /\ isServiceNode => cfgFile.strict = None

\* Spec 6: a file that meets the option table, including the RouterID
\* rules for blacklist-snode ("valid RouterID, no dupes"), loads.
ValidConfigLoads ==
    pc = "loadfailed" => ~(SpecOptionsOK(cfgFile, isRelay) /\ SpecIDsOK(cfgFile))
====
