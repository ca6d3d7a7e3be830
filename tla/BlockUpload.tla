----------------------------- MODULE BlockUpload -----------------------------
(***************************************************************************)
(* bt/txrx/src/upload.rs, for one connection: when the blocks a peer asks  *)
(* for are sent, and when the peer is choked.  The actor handles one peer  *)
(* message after the other; what it sends changes the model (self_choking, *)
(* send_sum) in the Conn actor before Manifold::send returns.  A block is  *)
(* read and sent after the lock of the model is released, and the model    *)
(* may be another by then.  Sizes are in units of the thresholds.          *)
(***************************************************************************)
EXTENDS Integers, Sequences

CONSTANTS
  BuLower,       \* RECIPROCATE_LOWER
  BuUpper,       \* RECIPROCATE_UPPER
  BuLimit,       \* REQUEST_SIZE_LIMIT
  BuSizes,       \* sizes a peer asks for
  BuMaxSum       \* bound: data sent or received

VARIABLES
  buTorrent,     \* the model has the torrent, and the connection
  buChoking,     \* self_choking
  buSnubbing,    \* snubbing
  buFast,        \* both sides have the fast extension
  buHave,        \* the pieces we have: a subset of {0, 1}
  buSent,        \* send_sum
  buRecv,        \* recv_sum
  buPaused,      \* paused contains the torrent
  buSeeding,     \* seeding contains the torrent
  buRemoved,     \* a removal the actor has not looked at
  buInbox,       \* the peer's message: <<>>, <<"interested">>, <<"request", piece, size>>
  buBlock,       \* the block that is read to be sent: <<>> or <<piece, size>>
  buStopped,     \* the actor ended with an error of the storage
  buReply,       \* what the last request was answered with, in order
  buSeeded       \* data sent while seeding

blockUploadVars == <<buTorrent, buChoking, buSnubbing, buFast, buHave, buSent, buRecv, buPaused,
                     buSeeding, buRemoved, buInbox, buBlock, buStopped, buReply, buSeeded>>

BlockUploadInit ==
    /\ buTorrent = TRUE /\ buChoking = TRUE /\ buSnubbing = FALSE /\ buFast \in BOOLEAN
    /\ buHave = {0} /\ buSent = 0 /\ buRecv = 0 /\ buPaused = FALSE /\ buSeeding = FALSE
    /\ buRemoved = FALSE /\ buInbox = <<>> /\ buBlock = <<>> /\ buStopped = FALSE
    /\ buReply = <<>> /\ buSeeded = 0

\* The actor waits for its next message, command or removal.
BuIdle == buBlock = <<>> /\ ~buStopped

\* Mutant of Freeride: the request is not counted yet.
FreerideBefore(size) == IF buSent < buRecv THEN 0 ELSE buSent - buRecv

\* saturating_sub.
Freeride(size) == IF buSent + size < buRecv THEN 0 ELSE buSent + size - buRecv

\* next_conn_state.
NextConnState(size) ==
    CASE buChoking /\ Freeride(size) < BuLower -> "unchoke"
      [] ~buChoking /\ (buSnubbing \/ Freeride(size) >= BuUpper) -> "choke"
      [] OTHER -> "same"

Rejected == IF buFast THEN <<"reject">> ELSE <<>>

\* An Interested is taken as a request to be unchoked.
RecvInterested ==
    /\ BuIdle /\ buInbox = <<"interested">>
    /\ buInbox' = <<>>
    /\ LET unchoke == IF buSeeding THEN buChoking ELSE NextConnState(0) = "unchoke"
           choke == ~buSeeding /\ NextConnState(0) = "choke"
       IN buChoking' = IF buTorrent /\ unchoke THEN FALSE ELSE IF buTorrent /\ choke THEN TRUE ELSE buChoking
    /\ UNCHANGED <<buTorrent, buSnubbing, buFast, buHave, buSent, buRecv, buPaused, buSeeding, buRemoved, buBlock, buStopped, buReply, buSeeded>>

Refuse(choke) ==
    /\ buReply' = (IF choke THEN <<"choke">> ELSE <<>>) \o Rejected
    /\ buChoking' = (buChoking \/ choke)
    /\ UNCHANGED buBlock

\* upload_block and seed_block, of a Request.
RecvRequest ==
    LET piece == buInbox[2]
        size == buInbox[3]
        choke == ~buSeeding /\ NextConnState(size) = "choke"
        reject == buChoking \/ (buSnubbing /\ ~buSeeding) \/ piece \notin buHave
    IN /\ BuIdle /\ buInbox # <<>> /\ buInbox[1] = "request"
       /\ buInbox' = <<>>
       /\ CASE size > BuLimit /\ buTorrent -> Refuse(FALSE)
            [] ~buTorrent -> buReply' = <<>> /\ UNCHANGED <<buChoking, buBlock>>
            [] size <= BuLimit /\ buTorrent /\ (choke \/ reject \/ buPaused) -> Refuse(choke)
            [] OTHER -> buReply' = <<>> /\ buBlock' = <<piece, size>> /\ UNCHANGED buChoking
       /\ UNCHANGED <<buTorrent, buSnubbing, buFast, buHave, buSent, buRecv, buPaused, buSeeding, buRemoved,
                      buStopped, buSeeded>>

\* send_block: the storage has no such torrent, or fails, or the block is sent if
\* the connection is still there.
SendBlock ==
    /\ buBlock # <<>>
    /\ buBlock' = <<>>
    /\ \/ UNCHANGED <<buReply, buSent, buSeeded, buStopped>>
       \/ buStopped' = TRUE /\ UNCHANGED <<buReply, buSent, buSeeded>>
       \/ /\ buTorrent
          /\ buReply' = <<"piece">>
          /\ buSent' = buSent + buBlock[2]
          /\ buSeeded' = IF buSeeding THEN buSeeded + buBlock[2] ELSE buSeeded
          /\ UNCHANGED buStopped
    /\ UNCHANGED <<buTorrent, buChoking, buSnubbing, buFast, buHave, buRecv, buPaused, buSeeding, buRemoved, buInbox>>

\* pause, resume, seed, unseed.
Command ==
    /\ BuIdle
    /\ \/ buPaused' = ~buPaused /\ UNCHANGED buSeeding
       \/ buSeeding' = ~buSeeding /\ UNCHANGED buPaused
    /\ UNCHANGED <<buTorrent, buChoking, buSnubbing, buFast, buHave, buSent, buRecv, buRemoved, buInbox, buBlock, buStopped, buReply, buSeeded>>

\* consume_removes.
ConsumeRemoves ==
    /\ BuIdle /\ buRemoved
    /\ buRemoved' = FALSE /\ buPaused' = FALSE /\ buSeeding' = FALSE
    /\ UNCHANGED <<buTorrent, buChoking, buSnubbing, buFast, buHave, buSent, buRecv, buInbox, buBlock, buStopped, buReply, buSeeded>>

\* The peer speaks or sends us a block, the downloader snubs it or stops
\* snubbing it, a piece is completed, the torrent is removed.
PeerOrModel ==
    /\ \/ /\ buInbox = <<>>
          /\ \/ buInbox' = <<"interested">>
             \/ \E p \in {0, 1}, s \in BuSizes : buSent + s <= BuMaxSum /\ buInbox' = <<"request", p, s>>
          /\ UNCHANGED <<buRecv, buSnubbing, buHave, buTorrent, buRemoved>>
       \/ /\ buTorrent /\ buRecv < BuMaxSum /\ buRecv' = buRecv + 1 /\ buSnubbing' = FALSE
          /\ UNCHANGED <<buInbox, buHave, buTorrent, buRemoved>>
       \/ buTorrent /\ buSnubbing' = TRUE /\ UNCHANGED <<buInbox, buRecv, buHave, buTorrent, buRemoved>>
       \/ buTorrent /\ buHave' = {0, 1} /\ UNCHANGED <<buInbox, buRecv, buSnubbing, buTorrent, buRemoved>>
       \/ buTorrent /\ buTorrent' = FALSE /\ buRemoved' = TRUE /\ UNCHANGED <<buInbox, buRecv, buSnubbing, buHave>>
    /\ UNCHANGED <<buChoking, buFast, buSent, buPaused, buSeeding, buBlock, buStopped, buReply, buSeeded>>

BlockUploadNext == RecvInterested \/ RecvRequest \/ SendBlock \/ Command \/ ConsumeRemoves \/ PeerOrModel

(***************************************************************************)
(* A peer never gets UPPER more from us than it gave, but for what we      *)
(* seeded, although the balance is looked at before the block is read.     *)
(* By the time a block is sent the peer may have been snubbed, but it is   *)
(* not choked, the torrent is not paused, the piece is ours, and nothing   *)
(* else answered the request.                                              *)
(***************************************************************************)
UploadIsFair ==
    [][/\ buSent' - buSeeded' < buRecv' + BuUpper
       /\ buSent' # buSent => /\ ~buChoking /\ ~buPaused /\ buBlock[1] \in buHave
                              /\ buReply = <<>>]_blockUploadVars
=============================================================================
