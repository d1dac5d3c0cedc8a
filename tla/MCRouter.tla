------------------------------ MODULE MCRouter ------------------------------
(* Model values for Router: one parsable RouterID and a set of           *)
(* configuration files that reach every outcome of Load and Configure.   *)
EXTENDS Router

MCRouterIDs == {"r1"}

\* A file that sets nothing: every option takes its default.
Plain == [jobQueueSize |-> None, netid |-> None, minConn |-> None,
          maxConn |-> None, dataDir |-> None, publicPort |-> None,
          workerThreads |-> None, netThreads |-> None, hops |-> None,
          paths |-> None, strict |-> None, blacklist |-> <<>>,
          connect |-> <<>>, bootstrap |-> <<>>, bind |-> <<>>,
          logType |-> None, logLevel |-> None]

\* Files for the life-cycle run:
\*  - a service node binding "eth0 = ipv4,1090", and one with a port-less
\*    entry, which the [bind] handler refuses;
\*  - min-connections 5 (a client's bound is 4, a relay's 6) and
\*    min-connections 8 with max-connections 6 (min > max);
\*  - strict-connect on a service node, and an unparsable strict-connect
\*    key on a client;
\*  - a bootstrap RC that is missing, one that has expired, and a missing
\*    [connect] file;
\*  - out-of-range values of the other checked options;
\*  - one valid blacklist-snode entry.
MCLifecycleFiles ==
    { Plain,
      [Plain EXCEPT !.bind = <<<<0, 1090>>>>],
      [Plain EXCEPT !.bind = <<<<0>>>>],
      [Plain EXCEPT !.minConn = 5],
      [Plain EXCEPT !.minConn = 8, !.maxConn = 6],
      [Plain EXCEPT !.strict = "r1", !.bind = <<<<1090>>>>],
      [Plain EXCEPT !.strict = "bogus"],
      [Plain EXCEPT !.bootstrap = <<"missing">>],
      [Plain EXCEPT !.bootstrap = <<"expired">>, !.connect = <<"exists">>],
      [Plain EXCEPT !.connect = <<"missing">>],
      [Plain EXCEPT !.hops = 9, !.netid = 9],
      [Plain EXCEPT !.paths = 0, !.jobQueueSize = 1023],
      [Plain EXCEPT !.workerThreads = 0, !.netThreads = 0, !.publicPort = 0],
      [Plain EXCEPT !.dataDir = "missing", !.logType = "unknown"],
      [Plain EXCEPT !.logLevel = "unknown"],
      [Plain EXCEPT !.blacklist = <<"r1">>] }

\* Files for the blacklist-snode question: one valid entry, a duplicate.
MCBlacklistFiles ==
    { [Plain EXCEPT !.blacklist = <<"r1">>],
      [Plain EXCEPT !.blacklist = <<"r1", "r1">>] }

\* The torn-write run needs only a client.
MCClientFiles == {Plain}
=============================================================================
