--------------------------- MODULE MCDistributor ----------------------------
(* Instances of Distributor for TLC. *)
EXTENDS Distributor, TLC

CONSTANTS g, h, k, l, a

\* Two ingesters; one of them has left; one has left its tokens behind; none.
MCRings == {[ingesters |-> {g, h}, owner |-> k :> g @@ l :> h],
            [ingesters |-> {h}, owner |-> k :> h @@ l :> h],
            [ingesters |-> {h}, owner |-> k :> NoHost @@ l :> h],
            Empty}
OneAppend == a :> <<k, l>>
=============================================================================
