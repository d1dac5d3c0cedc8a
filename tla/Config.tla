------------------------------- MODULE Config -------------------------------
(***************************************************************************)
(* Loading of the router's INI configuration (src/llarp/config/config.cpp) *)
(* as pure operators: the acceptors that initializeConfig defines for each *)
(* option, the [bind] and [connect] handlers, and Config::Load, which      *)
(* feeds every value of the file to its acceptor and then checks           *)
(* min <= max connections.                                                 *)
(*                                                                         *)
(* A file is a record with one field per modelled option: None when the    *)
(* option is absent, else its value.  Strings are abstracted to what the   *)
(* acceptor tests: a length (netid), whether a path exists ("exists" /     *)
(* "missing"; a bootstrap RC file may also be "expired"), whether          *)
(* RouterID::FromString parses it (a member of RouterIDs or not), whether  *)
(* LogTypeFromString / LogLevelFromString know it ("known" / "unknown").   *)
(* Multi-valued options are sequences; [bind] is a sequence of interface   *)
(* entries, each the list of atoi() results of its comma-separated value.  *)
(* Acceptors that only assign, and public-address (checked by an address   *)
(* parser not under src/), are left out.                                   *)
(***************************************************************************)
EXTENDS Integers, Sequences, SequencesExt

CONSTANTS
    RouterIDs,   \* strings that parse as a RouterID
    None

\* config.cpp:24-28
DefaultMinConnections(isRelay) == IF isRelay THEN 6 ELSE 4
DefaultMaxConnections(isRelay) == IF isRelay THEN 60 ELSE 6

NetIDSize == 8

\* The integer options of RouterConfig whose acceptor throws below a bound:
\* job-queue-size >= 1024, public-port, worker-threads, net-threads > 0.
IntLowerBound ==
    [jobQueueSize |-> 1024, publicPort |-> 1, workerThreads |-> 1, netThreads |-> 1]

\* RouterConfig::defineConfigOptions: the acceptors that throw.  The bound
\* of the connection limits is the default for the isRelay passed to Load.
RouterOptionRejected(f, isRelay) ==
    \/ \E o \in DOMAIN IntLowerBound : f[o] # None /\ f[o] < IntLowerBound[o]
    \/ f.netid # None /\ f.netid > NetIDSize
    \/ f.minConn # None /\ f.minConn < DefaultMinConnections(isRelay)
    \/ f.maxConn # None /\ f.maxConn < DefaultMaxConnections(isRelay)
    \/ f.dataDir = "missing"

\* The blacklist-snode acceptor, run once per value in file order: throw
\* unless the value parses as a RouterID, then emplace it into
\* m_snodeBlacklist and throw when the emplace inserted it.
RECURSIVE BlacklistRejected(_, _)
BlacklistRejected(values, m_snodeBlacklist) ==
    IF values = <<>> THEN FALSE
    ELSE LET id == Head(values) IN
         \/ id \notin RouterIDs
         \/ id \notin m_snodeBlacklist
         \/ BlacklistRejected(Tail(values), m_snodeBlacklist \cup {id})

\* NetworkConfig::defineConfigOptions: hops and paths must be in 1..8, and
\* the blacklist acceptor above.
NetworkOptionRejected(f) ==
    \/ \E o \in {"hops", "paths"} : f[o] # None /\ f[o] \notin 1..8
    \/ BlacklistRejected(f.blacklist, {})

\* ConnectConfig: the [connect] handler throws for a file that does not
\* exist; BootstrapConfig's add-node accepts any path (its TODO).
ConnectRejected(f) == \E i \in DOMAIN f.connect : f.connect[i] = "missing"

\* LoggingConfig: type and level must be names the parsers know.
LoggingOptionRejected(f) == "unknown" \in {f.logType, f.logLevel}

\* LinksConfig::LinkInfoFromINIValues: the port is the last positive
\* atoi() among the comma-separated values, 0 when there is none.
LinkPort(values) == FoldLeft(LAMBDA p, v : IF v > 0 THEN v ELSE p, 0, values)

\* The [bind] undeclared handler: an interface entry without a positive
\* port throws; the others become m_InboundLinks.
BindRejected(f) == \E i \in DOMAIN f.bind : LinkPort(f.bind[i]) <= 0

InboundLinks(f) == [i \in DOMAIN f.bind |-> LinkPort(f.bind[i])]

\* initializeConfig: every section's acceptors; a throw in any of them
\* makes Load fail.
OptionRejected(f, isRelay) ==
    \/ RouterOptionRejected(f, isRelay)
    \/ NetworkOptionRejected(f)
    \/ ConnectRejected(f)
    \/ BindRejected(f)
    \/ LoggingOptionRejected(f)

\* The values Config holds after acceptAllOptions: an absent option takes
\* its default.  routers is connect.routers followed by bootstrap.routers,
\* the list FromConfig reads.
Accepted(f, isRelay) ==
    [minConn |-> IF f.minConn = None THEN DefaultMinConnections(isRelay) ELSE f.minConn,
     maxConn |-> IF f.maxConn = None THEN DefaultMaxConnections(isRelay) ELSE f.maxConn,
     inbound |-> InboundLinks(f),
     strict  |-> f.strict,
     routers |-> f.connect \o f.bootstrap]

\* Mutant: Load without the inter-option check.
LoadNoInterCheck(f, isRelay) ==
    IF OptionRejected(f, isRelay) THEN None ELSE Accepted(f, isRelay)

\* Config::Load(fname, isRelay): the [bind] and [connect] handlers run while
\* the values are added, the other acceptors in acceptAllOptions; any throw
\* makes Load return false (None here).  Then max-connections <
\* min-connections fails too.
Load(f, isRelay) ==
    IF \/ OptionRejected(f, isRelay)
       \/ Accepted(f, isRelay).maxConn < Accepted(f, isRelay).minConn
    THEN None
    ELSE Accepted(f, isRelay)

-----------------------------------------------------------------------------
(* The constraint table of spec section 6, for the modelled options. *)

SpecOptionsOK(f, isRelay) ==
    LET a == Accepted(f, isRelay) IN
    /\ \A o \in DOMAIN IntLowerBound : f[o] # None => f[o] >= IntLowerBound[o]
    /\ f.netid # None => f.netid <= NetIDSize
    /\ a.minConn >= DefaultMinConnections(isRelay)
    /\ a.maxConn >= DefaultMaxConnections(isRelay)
    /\ a.maxConn >= a.minConn
    /\ f.dataDir # "missing"
    /\ \A o \in {"hops", "paths"} : f[o] # None => f[o] \in 1..8
    /\ \A i \in DOMAIN f.bind : LinkPort(f.bind[i]) > 0
    /\ \A i \in DOMAIN a.routers : a.routers[i] # "missing"
    /\ "unknown" \notin {f.logType, f.logLevel}

\* ... and the RouterID rules: blacklist-snode a valid RouterID with no
\* duplicates, strict-connect a valid RouterID.
SpecIDsOK(f) ==
    /\ \A i \in DOMAIN f.blacklist : f.blacklist[i] \in RouterIDs
    /\ \A i, j \in DOMAIN f.blacklist : i # j => f.blacklist[i] # f.blacklist[j]
    /\ f.strict # None => f.strict \in RouterIDs
=============================================================================
