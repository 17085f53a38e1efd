---------------------------- MODULE MCPeerScore ----------------------------
(***************************************************************************)
(* PeerScore for TLC: two goroutines share one DynamicPeerScore and make   *)
(* at most MaxCalls calls between them.  The events are the strongest     *)
(* award and punishment and the weakest of each; the clock runs a few      *)
(* seconds and may jump once past the punishment lifetime (1800 s).        *)
(***************************************************************************)
EXTENDS PeerScore

MCAwardEvents == {80, 20}            \* AwardNewBlock, AwardNewTx
MCPunishEvents == {100, 25}          \* PunishConnUnsteadiness, PunishSyncMsg
\* three seconds in a row, then a pause longer than PunishLifetime
MCTimes == {1, 2, 3, 1805}

\* the methods without String, and all of them
OpsNoString == {"Award", "Punish", "Int", "Disconnect"}
OpsAll == OpsNoString \cup {"String"}
=============================================================================
