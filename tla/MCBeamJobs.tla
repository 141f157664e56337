---------------------------- MODULE MCBeamJobs -----------------------------
(* The instance of BeamJobs that TLC checks. *)
EXTENDS BeamJobs

\* A corpus for two segments, of one token only, and one for three in which contexts recur.
TwoCorpora == {<<0, 0, 0, 0, 0, 0>>, <<0, 1, 0, 1, 1, 0, 1, 0, 0, 1>>}

\* Articles one of which cannot be encoded, and one that is too short and there twice.
TwoArticles ==
    {SetToBag({<<"text", <<0, 1, 1>>>>, <<"text", <<Foreign, 0>>>>}), <<"text", <<1>>>> :> 2}
=============================================================================
