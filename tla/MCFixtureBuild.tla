--------------------------- MODULE MCFixtureBuild ---------------------------
(* Two spec files, one of them built for two targets, two keys.            *)
EXTENDS FixtureBuild

MCTargetsOf == [s \in SpecFile |->
  IF s = "multi" THEN Target ELSE {"x86_64"}]

MCSignedBy == [k \in Key |-> IF k = "gpg" THEN {"multi"} ELSE {"single"}]
=============================================================================
