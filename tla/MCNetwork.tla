------------------------------ MODULE MCNetwork ------------------------------
(* What runs over datagrams, for TLC: a uTP connection, and requests with   *)
(* their responses.  They share no state, so a behaviour exercises one of   *)
(* them, the focus chosen at the start.                                     *)
EXTENDS UtpConn, ReqRep

CONSTANTS Focuses, SeqA, SeqB
VARIABLE focus

vars == <<utpVars, reqRepVars, focus>>

MCInit ==
    /\ focus \in Focuses
    /\ UtpInit /\ ReqRepInit
    \* one initial state for the connection when it only stands by
    /\ focus # "utp" => plan = CHOOSE p \in Plans : TRUE

MCNext ==
    /\ UNCHANGED focus
    /\ \/ focus = "utp" /\ UtpNext
       \/ focus # "utp" /\ UNCHANGED utpVars
    /\ \/ focus = "reqrep" /\ ReqRepNext
       \/ focus # "reqrep" /\ UNCHANGED reqRepVars

MCSpec == MCInit /\ [][MCNext]_vars

\* A uTP stream is delivered whole and in order, and no application waits at an end that
\* could let it go on (conn/actor.rs, conn/handshake.rs).
StreamIsSound == StreamIsWhole /\ NoOneWaitsInVain

-----------------------------------------------------------------------------

MCFirstSeq == [e \in Ends |-> IF e = "a" THEN SeqA ELSE SeqB]
MCPacketSizes == [e \in Ends |-> IF e = "a" THEN {2} ELSE {}]

Plan(a, b, resends, lost, dup, slow, drop, stop) ==
  [total |-> [e \in Ends |-> IF e = "a" THEN a ELSE b], resends |-> resends, losses |-> lost, dups |-> dup,
   slow |-> slow, drop |-> drop, stop |-> stop]

\* A stream with losses, both directions, duplicates, applications that stop.
MCPlans == {Plan(2, 0, 1, 0, 0, {"b"}, {}, {}), Plan(1, 0, 1, 1, 0, {}, {}, {}),
            Plan(1, 1, 0, 0, 0, {}, {}, {}), Plan(1, 0, 1, 0, 1, {"b"}, {}, {}),
            Plan(1, 0, 1, 0, 0, {"b"}, {"a", "b"}, {"a", "b"})}
=============================================================================
