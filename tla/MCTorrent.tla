------------------------------ MODULE MCTorrent ------------------------------
(* The tasks of the newer BitTorrent client, the routing of both DHTs and   *)
(* the bencode formats for TLC.  Each has its own environment, so a         *)
(* behaviour exercises one of them, the focus chosen at the start.          *)
EXTENDS PieceSchedule, TorrentPeers, PeerNotices, BlockDownload, BlockUpload,
        DhtRouting, DhtNode, Bencode

CONSTANT Focuses
VARIABLE focus

vars == <<torrentModelVars, pieceScheduleVars, torrentPeersVars, peerNoticesVars,
          blockDownloadVars, blockUploadVars, dhtRoutingVars, dhtTableVars, dhtLookupVars,
          bencodeVars, focus>>

MCInit ==
    /\ focus \in Focuses
    /\ TorrentModelInit /\ PieceScheduleInit /\ TorrentPeersInit /\ PeerNoticesInit
    /\ BlockDownloadInit /\ BlockUploadInit
    /\ DhtRoutingInit /\ DhtTableInit /\ DhtLookupInit /\ BencodeInit
    \* one initial state for those that only stand by
    /\ focus # "upload" => buFast
    /\ focus # "dht_table" => Cardinality({n.id : n \in dtNodes} \cap 0 .. 1) = 2
    /\ focus # "dht_lookup" => dlKind = "nodes" /\ DOMAIN dlQueue = {0}
    /\ focus # "bencode" => bcCase = <<>>

\* The model of a torrent is shared by the tasks that follow its updates.
MCNext ==
    /\ UNCHANGED focus
    /\ \/ focus = "schedule" /\ PieceScheduleNext
       \/ focus # "schedule" /\ UNCHANGED pieceScheduleVars
    /\ \/ focus = "peers" /\ TorrentPeersNext
       \/ focus # "peers" /\ UNCHANGED torrentPeersVars
    /\ \/ focus = "notices" /\ PeerNoticesNext
       \/ focus # "notices" /\ UNCHANGED peerNoticesVars
    /\ \/ focus \in {"schedule", "peers", "notices"}
       \/ focus \notin {"schedule", "peers", "notices"} /\ UNCHANGED torrentModelVars
    /\ \/ focus = "download" /\ BlockDownloadNext
       \/ focus # "download" /\ UNCHANGED blockDownloadVars
    /\ \/ focus = "upload" /\ BlockUploadNext
       \/ focus # "upload" /\ UNCHANGED blockUploadVars
    /\ \/ focus = "dht_routing" /\ DhtRoutingNext
       \/ focus # "dht_routing" /\ UNCHANGED dhtRoutingVars
    /\ \/ focus = "dht_table" /\ DhtTableNext
       \/ focus # "dht_table" /\ UNCHANGED dhtTableVars
    /\ \/ focus = "dht_lookup" /\ DhtLookupNext
       \/ focus # "dht_lookup" /\ UNCHANGED dhtLookupVars
    /\ \/ focus = "bencode" /\ BencodeNext
       \/ focus # "bencode" /\ UNCHANGED bencodeVars

MCSpec == MCInit /\ [][MCNext]_vars

\* The tasks that follow the updates of a torrent end up with what the torrent is: the
\* schedule of pieces (bt/schedule) and what is told to peers (bt/txrx push).
FollowersAreExact == ScheduleIsExact /\ NoticesCatchUp

\* The connections of a torrent are kept track of while they are opened, handed over
\* and closed (bt/peer), where the torrent changes with them.
PeersAreKept == focus = "peers" => ConnsAreKept

\* The routing tables of both DHTs keep every node where it belongs, no refresh that is
\* due is slept through, and a lookup converges on the nodes closest to its target.
DhtIsSound ==
    /\ focus = "dht_routing" => RoutingIsSound
    /\ focus = "dht_table" => NodeTableIsSound
    /\ focus = "dht_lookup" => LookupIsSound

\* Whatever bytes have arrived, the bencode readers accept just what the formats say,
\* take back nothing when more input follows, and read back what was written.
FormatIsSound == focus = "bencode" => BencodeIsSound

-----------------------------------------------------------------------------

\* The first and the last connection lead to the same endpoint.
MCBdEndpoint == <<1, 2, 1>>

\* The last piece is shorter.
MCBdBlocks == [p \in BdPieces |-> IF p = 0 THEN {1, 2} ELSE {1}]

\* Nodes close to one another and far away, one of them at two endpoints.
MCDhNodes == [id : {1, 4, 5, 6}, endpoint : {1}] \cup {[id |-> 4, endpoint |-> 2]}
\* In the first network the far bucket fills up; in the second the last bucket is split
\* until it has the two ids of the last bit.
MCDtNetworks == {[id : {4, 5, 6}, endpoint : {1}], [id : {0, 1, 2}, endpoint : {1}]}
MCDlNodes == [id : {0, 1, 2, 5}, endpoint : {1}] \cup {[id |-> 2, endpoint |-> 2]}

(* Types and values to write and to read. *)
MCKeyA == <<97>>
MCKeyB == <<98>>
MCTiny == <<0 - 2, 1>>
MCTInt == <<"int", I64>>
MCTStruct == <<"struct", << <<MCKeyB, MCTInt>>, <<MCKeyA, <<"option", <<"bytes">> >> >> >> >>
MCTEnum == <<"enum", << <<MCKeyA, <<>> >>, <<MCKeyB, <<"tuple", <<MCTInt, <<"bool">> >> >> >>, <<<<120>>, MCTInt>>, <<<<121>>, MCTStruct>> >> >>
MCTRaw == <<"struct", << <<MCKeyB, <<"raw", <<"seq", MCTInt>> >> >>, <<MCKeyA, <<"raw", <<"bytes">> >> >> >> >>
MCTMap == <<"map", <<"seq", <<"unit">> >> >>
MCCases == {
  <<MCTInt, 0>>, <<MCTInt, 0 - 12>>, <<MCTInt, 11>>, <<<<"int", U64>>, 23>>, <<<<"int", MCTiny>>, 1>>,
  <<<<"bool">>, TRUE>>, <<<<"char">>, 9>>, <<<<"char">>, 233>>, <<<<"bytes">>, <<>> >>, <<<<"bytes">>, <<58, 101>> >>,
  <<<<"option", <<"unit">> >>, << <<>> >> >>, <<<<"option", MCTInt>>, <<>> >>, <<<<"unit">>, <<>> >>,
  <<<<"seq", <<"bool">> >>, <<TRUE, FALSE>> >>, <<<<"tuple", <<MCTInt, <<"bytes">> >> >>, <<3, <<101>> >> >>,
  <<MCTMap, << <<<<>>, <<>> >>, <<MCKeyA, << <<>>, <<>> >> >> >> >>,
  <<MCTStruct, <<5, << <<97>> >> >> >>, <<MCTStruct, <<0, <<>> >> >>,
  <<MCTEnum, <<MCKeyA, <<>> >> >>, <<MCTEnum, <<MCKeyB, <<1, TRUE>> >> >>, <<MCTEnum, <<<<120>>, 7>> >>, <<MCTEnum, <<<<121>>, <<2, <<>> >> >> >>,
  <<MCTRaw, << << <<1, 2>>, <<108, 105, 49, 101, 105, 50, 101, 101>> >>, << <<120>>, <<49, 58, 120>> >> >> >>,
  <<<<"any">>, <<"dict", << <<MCKeyA, <<"list", << <<"int", 0-3>> >>, <<>> >> >> >>, <<>> >> >> }
=============================================================================
