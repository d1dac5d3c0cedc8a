------------------------- MODULE MCDhtPublishIntro -------------------------
(* Service nodes, numbered by distance to the introset key.              *)
EXTENDS DhtPublishIntro

\* the client publishes relayOrder 0 and 1 through node 5 (spec scenario 2)
MCPublishes == << <<5, 0>>, <<5, 1>> >>

\* relayOrder 0 through node 5, which is not among the two closest, and
\* relayOrder 1 through node 3: when node 3's nodedb lacks node 4 it
\* forwards to node 5, which (knowing every RC) is not among its own
\* closest four and re-forwards (pubintro.cpp:138-139)
MCReforwardPublishes == << <<5, 0>>, <<3, 1>>, <<4, 2>> >>
=============================================================================
