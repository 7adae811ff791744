------------------------------ MODULE MCServer ------------------------------
(* Three commits for the bootstrap, two of them with one runtime; two for   *)
(* the control requests.                                                    *)
EXTENDS Server

CONSTANTS c1, c2, c3

MCReleases  == {c1, c2, c3}
MCRuntimeOf == [c \in MCReleases |-> IF c = c3 THEN "second" ELSE "first"]
MCCommits   == {c1, c2}
MCOneRelease == {c1}

=============================================================================
