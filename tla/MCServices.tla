----------------------------- MODULE MCServices -----------------------------
(***************************************************************************)
(* Three topologies for Services.                                          *)
(***************************************************************************)
EXTENDS Services, TLC

\* The callers of Shutdown are interchangeable; safety only.
Symmetry == Permutations(Closers)

(***************************************************************************)
(* The sending half of the application: the tun device, read by the        *)
(* poller, spreads its messages by id over two channels; two threads of    *)
(* the encoder read one each; the udp node writes to its socket.           *)
(***************************************************************************)
PipeNodes == {"tun", "encoder", "udp"}
PipeKind == [tun |-> "duplex", encoder |-> "relay", udp |-> "duplex"]
PipeIn == [tun |-> <<>>, encoder |-> <<"b0", "b1">>, udp |-> <<"d">>]
PipeOut == [tun |-> <<"b0", "b1">>, encoder |-> <<"d">>, udp |-> <<>>]
PipeThreads == [tun |-> 0, encoder |-> 2, udp |-> 1]
PipeFeeds == [f \in Feeders |-> {"tun"}]
PipeMsgs == {"m1", "m2", "m3"}
PipeOrigin == [m \in PipeMsgs |-> "tun"]
PipeId == [m1 |-> 4, m2 |-> 7, m3 |-> 4]

(***************************************************************************)
(* A chain of two relays between a source and a udp node, ended by a stop  *)
(* signal: "s" is fed by the application, in any order with the data.      *)
(***************************************************************************)
ChainNodes == {"source", "r1", "r2", "udp"}
ChainKind == [source |-> "source", r1 |-> "relay", r2 |-> "relay", udp |-> "duplex"]
ChainIn == [source |-> <<>>, r1 |-> <<"a">>, r2 |-> <<"b">>, udp |-> <<"c">>]
ChainOut == [source |-> <<"a">>, r1 |-> <<"b">>, r2 |-> <<"c">>, udp |-> <<>>]
ChainThreads == [source |-> 0, r1 |-> 1, r2 |-> 1, udp |-> 1]
ChainFeeds == [f \in Feeders |-> {"source"}]
ChainMsgs == {"m1", "s"}
ChainOrigin == [m \in ChainMsgs |-> "source"]
ChainId == [m \in ChainMsgs |-> 4]

(***************************************************************************)
(* A source and a sink, the example of Connect's error messages.           *)
(***************************************************************************)
SinkNodes == {"source", "sink"}
SinkKind == [n \in SinkNodes |-> n]
SinkIn == [source |-> <<>>, sink |-> <<"a">>]
SinkOut == [source |-> <<"a">>, sink |-> <<>>]
SinkThreads == [source |-> 0, sink |-> 1]
SinkFeeds == [f \in Feeders |-> {"source"}]
SinkMsgs == {"m1", "m2", "m3"}
SinkOrigin == [m \in SinkMsgs |-> "source"]
SinkId == [m \in SinkMsgs |-> 4]

\* All three are topologies for which the order of flows is proved.
ASSUME Orderly == SoleReaders /\ SoleFeeders /\ NoCycle
=============================================================================
