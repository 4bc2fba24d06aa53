-------------------------- MODULE MCRepodataCache --------------------------
(* A plain repository that was never generated and one that depends on the *)
(* release, with repodata of an earlier run for the first of two releases. *)
EXTENDS RepodataCache

MCFound == {Subst("f$releasever", "29")}
=============================================================================
