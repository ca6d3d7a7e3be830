------------------------------ MODULE MCActors ------------------------------
(* The tasks of the BitTorrent client and those around a cache server for   *)
(* TLC.  Each is modelled with its own environment, so a behaviour          *)
(* exercises one of them, the focus chosen at the start.                    *)
EXTENDS PieceScheduler, Transceiver, PeerManager, PeerConn, CachePeers, Etcd,
        ServiceDiscovery, KvStorage

CONSTANT Focuses
VARIABLE focus

torrentVars == <<schedulerVars, transceiverVars, managerVars, peerConnVars>>
clusterVars == <<cachePeersVars, etcdPubSubVars, etcdWatchVars, serviceVars, kvVars, kvScanVars>>
vars == <<torrentVars, clusterVars, focus>>

MCInit ==
    /\ focus \in Focuses
    /\ SchedulerInit /\ TransceiverInit /\ ManagerInit /\ PeerConnInit
    /\ CachePeersInit /\ EtcdPubSubInit /\ EtcdWatchInit /\ ServiceInit /\ KvInit
    /\ \/ focus = "kv_scan" /\ KvScanInit
       \/ /\ focus # "kv_scan"
          /\ ksRows = <<>> /\ ksScanner = [desc |-> FALSE, state |-> "end", page |-> <<>>]
          /\ ksOut = <<>> /\ ksKept = {} /\ ksChanges = 0
    \* one initial state for those that only stand by
    /\ focus # "transceiver" => txPlan = CHOOSE p \in TxPlans : TRUE
    /\ focus # "cache_peers" => \A s \in CpServers : cpStore[s] = "have" => cpRank[s] = 1
    \* servers differ in their places only
    /\ cpRank = CHOOSE rank \in CpRanks : TRUE
    /\ focus # "etcd_watch" => \A k \in EwKeys : ewStore[k] = 0
    /\ focus # "service" => sdEtcd = {}

TorrentNext ==
    /\ \/ focus = "scheduler" /\ SchedulerNext
       \/ focus # "scheduler" /\ UNCHANGED schedulerVars
    /\ \/ focus = "transceiver" /\ TransceiverNext
       \/ focus # "transceiver" /\ UNCHANGED transceiverVars
    /\ \/ focus = "manager" /\ ManagerNext
       \/ focus # "manager" /\ UNCHANGED managerVars
    /\ \/ focus = "outgoing" /\ OutgoingNext /\ UNCHANGED inVars
       \/ focus = "incoming" /\ IncomingNext /\ UNCHANGED outVars
       \/ focus \notin {"outgoing", "incoming"} /\ UNCHANGED peerConnVars

ClusterNext ==
    /\ \/ focus = "cache_peers" /\ CachePeersNext
       \/ focus # "cache_peers" /\ UNCHANGED cachePeersVars
    /\ \/ focus = "etcd_pubsub" /\ EtcdPubSubNext
       \/ focus # "etcd_pubsub" /\ UNCHANGED etcdPubSubVars
    /\ \/ focus = "etcd_watch" /\ EtcdWatchNext
       \/ focus # "etcd_watch" /\ UNCHANGED etcdWatchVars
    /\ \/ focus = "service" /\ ServiceNext
       \/ focus # "service" /\ UNCHANGED serviceVars
    /\ \/ focus = "kv" /\ KvNext
       \/ focus # "kv" /\ UNCHANGED kvVars
    /\ \/ focus = "kv_scan" /\ KvScanNext
       \/ focus # "kv_scan" /\ UNCHANGED kvScanVars

TorrentParts == {"scheduler", "transceiver", "manager", "outgoing", "incoming"}

MCNext ==
    /\ UNCHANGED focus
    /\ \/ focus \in TorrentParts /\ TorrentNext /\ UNCHANGED clusterVars
       \/ focus \notin TorrentParts /\ ClusterNext /\ UNCHANGED torrentVars

MCSpec == MCInit /\ [][MCNext]_vars

-----------------------------------------------------------------------------

\* A piece of one block with two peers, and one of two blocks with one peer.
MCTxPlans == {[peers |-> {1, 2}, size |-> [q \in {0} |-> 1]],
              [peers |-> {1}, size |-> [q \in {0} |-> 2]]}

MCPrefs == <<"tcp", "utp">>
=============================================================================
