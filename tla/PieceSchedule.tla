--------------------------- MODULE PieceSchedule ---------------------------
(***************************************************************************)
(* bt/schedule: which peers each missing piece can be asked from.  A fold  *)
(* task (bt/model/src/fold.rs) merges the updates of the model into one    *)
(* change; the scheduler takes the change, reads the model as it is by     *)
(* then and brings its table of candidates up to date.                     *)
(***************************************************************************)
EXTENDS TorrentModel, SequencesExt

VARIABLES
  psRead,        \* updates the fold task has read
  psChange,      \* the value it shares: [pending, init, self, peers]
  psSched,       \* SubSchedule: entries [index, candidates], sorted
  psAssigned,    \* the schedule Download::assign was given last
  psPanic,       \* the assertion of update_peer failed
  psKept         \* init_torrent found no entry and left an older table

pieceScheduleVars == <<psRead, psChange, psSched, psAssigned, psPanic, psKept>>

NoChange == [pending |-> FALSE, init |-> FALSE, self |-> FALSE, peers |-> {}]

PieceScheduleInit ==
    /\ psRead = 0 /\ psChange = NoChange /\ psSched = <<>> /\ psAssigned = <<>>
    /\ psPanic = FALSE /\ psKept = FALSE

Unread == {tmUpdates[i] : i \in psRead + 1 .. Len(tmUpdates)}

\* Folder::fold, over all the updates there are (fold_opportunistically).
FoldChanges ==
    LET kinds == {u[1] : u \in Unread}
    IN /\ Unread # {} /\ ~psPanic
       /\ psRead' = Len(tmUpdates)
       /\ psChange' = [pending |-> psChange.pending \/ kinds \ {"new", "connect"} # {},
                       init |-> psChange.init \/ kinds \cap {"init", "remove"} # {},
                       self |-> psChange.self \/ "self" \in kinds,
                       peers |-> psChange.peers \cup
                                 {u[2] : u \in {v \in Unread : v[1] \in {"peer", "disconnect"}}}]
       /\ UNCHANGED <<psSched, psAssigned, psPanic, psKept>>

\* The order of sub_priority: fewer candidates first, then the index.
Rarer(a, b) ==
    \/ Cardinality(a.candidates) < Cardinality(b.candidates)
    \/ Cardinality(a.candidates) = Cardinality(b.candidates) /\ a.index < b.index

Sorted(entries) == SetToSortSeq(entries, Rarer)

Having(index) == {c \in DOMAIN TmTorrent.pieces : index \in TmTorrent.pieces[c]}

\* init_torrent: nothing is replaced when no peer has a missing piece.
SchedOfTorrent ==
    Sorted({[index |-> i, candidates |-> Having(i)] :
              i \in {j \in TmPieces \ TmTorrent.self : Having(j) # {}}})

\* remove_self_have.
WithoutSelf(sched) == Sorted({e \in ToSet(sched) : e.index \notin TmTorrent.self})

\* Mutant of WithoutPeer: only the first entry is searched for the peer.
WithoutFirst(sched, c) ==
    Sorted({e \in {IF x = sched[1] THEN [x EXCEPT !.candidates = @ \ {c}] ELSE x : x \in ToSet(sched)} :
              e.candidates # {}})

\* remove_peer.
WithoutPeer(sched, c) ==
    Sorted({e \in {[x EXCEPT !.candidates = @ \ {c}] : x \in ToSet(sched)} : e.candidates # {}})

\* Mutant of Refreshed: a piece the peer has no more keeps it.
RefreshedAdds(e, c) == [e EXCEPT !.candidates = IF e.index \in TmTorrent.pieces[c] THEN @ \cup {c} ELSE @]

Refreshed(e, c) == [e EXCEPT !.candidates = IF e.index \in TmTorrent.pieces[c] THEN @ \cup {c} ELSE @ \ {c}]

\* update_peer, when the table has entries of the torrent and when not.
WithPeer(sched, c) ==
    IF sched # <<>> THEN Sorted({Refreshed(e, c) : e \in ToSet(sched)})
    ELSE Sorted({[index |-> i, candidates |-> {c}] : i \in TmTorrent.pieces[c] \ TmTorrent.self})

\* assert!(self_pieces[i]), for every piece that has no entry.
UpdateAsserts(sched) ==
    sched # <<>> => TmPieces \ {e.index : e \in ToSet(sched)} \subseteq TmTorrent.self

CandidateFor(sched, c) == {e.index : e \in {x \in ToSet(sched) : c \in x.candidates}}

\* One peer of a change.
UpdatePeer(state, c) ==
    IF state.panic THEN state
    ELSE IF c \notin DOMAIN TmTorrent.pieces
    THEN [state EXCEPT !.sched = WithoutPeer(@, c)]
    ELSE LET with == WithPeer(state.sched, c)
         IN [sched |-> with,
             inserted |-> state.inserted \/ CandidateFor(with, c) \ CandidateFor(state.sched, c) # {},
             panic |-> ~UpdateAsserts(state.sched)]

\* assign: Download has the whole table, when it is not empty.
PsAssigned(inserted, sched) == IF inserted /\ sched # <<>> THEN sched ELSE psAssigned

InitSched ==
    /\ psSched' = IF SchedOfTorrent = <<>> THEN psSched ELSE SchedOfTorrent
    /\ psKept' = (SchedOfTorrent = <<>> /\ psSched # <<>>)
    /\ psAssigned' = PsAssigned(SchedOfTorrent # <<>>, SchedOfTorrent)
    /\ UNCHANGED psPanic

\* consume_changes; the peers of a change come in any order.
ConsumeChanges ==
    /\ psChange.pending /\ ~psPanic /\ ~tmPoisoned
    /\ psChange' = NoChange
    /\ \/ /\ ~Initialized
          /\ psSched' = <<>> /\ psKept' = FALSE
          /\ UNCHANGED <<psAssigned, psPanic>>
       \/ Initialized /\ psChange.init /\ InitSched
       \/ /\ Initialized /\ ~psChange.init
          /\ \E order \in SetToSeqs(psChange.peers) :
                LET end == FoldLeft(UpdatePeer,
                                    [sched |-> IF psChange.self THEN WithoutSelf(psSched) ELSE psSched,
                                     inserted |-> FALSE, panic |-> FALSE], order)
                IN /\ psSched' = end.sched /\ psPanic' = end.panic
                   /\ psAssigned' = PsAssigned(end.inserted /\ ~end.panic, end.sched)
          /\ UNCHANGED psKept
    /\ UNCHANGED psRead

Scan ==
    /\ Initialized /\ ~psPanic /\ ~tmPoisoned
    /\ InitSched
    /\ UNCHANGED <<psRead, psChange>>

ModelChanges ==
    /\ \/ NewTorrent \/ RemoveTorrent
       \/ \E pieces \in SUBSET TmPieces : InitTorrent(pieces)
       \/ \E c \in TmConns :
             \/ c \notin tmConns /\ Initialized /\ ConnectPeer(c)
             \/ c \in tmConns /\ DisconnectPeer(c)
             \/ \E pieces \in SUBSET TmPieces : SetPeerPieces(c, pieces)
       \/ \E i \in TmPieces : SetSelfPiece(i)
    /\ UNCHANGED pieceScheduleVars

PieceScheduleNext ==
    \/ ModelChanges
    \/ (FoldChanges \/ ConsumeChanges \/ Scan) /\ UNCHANGED torrentModelVars

CaughtUp == psRead = Len(tmUpdates) /\ ~psChange.pending /\ ~psPanic /\ ~tmPoisoned

CandidatesOf(i) == UNION {e.candidates : e \in {x \in ToSet(psSched) : x.index = i}}

Wanted(i) == Initialized /\ i \notin TmTorrent.self

(***************************************************************************)
(* Once it has looked at every change, the scheduler has every peer that   *)
(* has a missing piece as a candidate for it, and Download was given all   *)
(* of them.  It has no other candidates and no entry for a piece we have,  *)
(* except while it holds the table of before an initialisation that left   *)
(* nothing to ask for: init_torrent returns before it replaces that one.   *)
(*                                                                         *)
(* This is so until an assertion ends the scheduler or poisons the model.  *)
(* The one of update_peer asks that a piece without an entry is ours.  It  *)
(* fails as soon as a peer is updated while nobody known before has some   *)
(* missing piece.  Entries may be left without candidates by update_peer,  *)
(* against the comment on SubSchedule.                                     *)
(***************************************************************************)
ScheduleIsExact ==
    CaughtUp =>
      /\ \A i \in TmPieces : Wanted(i) => Having(i) \subseteq CandidatesOf(i)
      /\ \A e \in ToSet(psSched) : \E a \in ToSet(psAssigned) :
           a.index = e.index /\ e.candidates \subseteq a.candidates
      /\ \A j \in 2 .. Len(psSched) : Rarer(psSched[j - 1], psSched[j])
      /\ ~psKept => \A e \in ToSet(psSched) : Wanted(e.index) /\ e.candidates \subseteq Having(e.index)
=============================================================================
