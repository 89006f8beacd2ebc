---------------------------- MODULE MCCollector ----------------------------
(***************************************************************************)
(* Instances of Collector.  Two packets for one nexthop together exceed    *)
(* the threshold; as with the defaults of the code, the threshold and a    *)
(* packet never exceed the block.                                          *)
(***************************************************************************)
EXTENDS Collector

Routes == [a |-> "h1", b |-> "h2", x |-> NullPtr]
Packet(size, version, dst) == [size |-> size, version |-> version, dst |-> dst]
FivePackets == <<Packet(40, 4, "x"), Packet(40, 4, "a"), Packet(12, 4, "b"),
                 Packet(20, 4, "a"), Packet(40, 4, "b")>>
TwoPackets == <<Packet(40, 4, "a"), Packet(40, 4, "b")>>
DownChannels == <<"E", "U">>
UdpFirst == <<"U", "E">>

\* The sizes are those the theorems are about, and so is the order of the channels,
\* but in the run that shows why.
ASSUME Usual == Fits /\ (EncoderFirst <=> Channels # UdpFirst)

(***************************************************************************)
(* The tick thread's sleep is long enough for a worker that waits for the  *)
(* timer manager's mutex_ to get it: nothing here depends on bad luck.     *)
(***************************************************************************)
Prompt == tpc = "sleep" /\ tpc' = "ticked" => \A w \in Workers : pc[w] # "adding"
PromptSpec == Init /\ [][Next /\ Prompt]_vars /\ Fairness
=============================================================================
