--------------------------- MODULE RepodataCache ---------------------------
(***************************************************************************)
(* The repositories of the dnf suite (dnf/steps/repo.py): repodata is      *)
(* generated in the shared fixtures directory at most once in a run of     *)
(* behave (context.repos remembers it), scenarios configure repositories   *)
(* in their installroot and copy them to their tempdir when they want to   *)
(* change them. A failed step ends its scenario, a killed process its run. *)
(*                                                                         *)
(* createrepo_c and modifyrepo_c are external. A scenario is assumed not   *)
(* to write to the shared directory but through these steps.               *)
(***************************************************************************)
EXTENDS Naturals, FiniteSets

CONSTANTS
  Repo,         \* repository names as the steps give them
  Release,      \* values of releasever
  DefaultRelease,
  WithRelease,  \* the names that contain "$releasever"
  Found,        \* directories with repodata of an earlier run
  MaxScenarios  \* bound: scenarios of all runs together

ASSUME RepodataAssumption ==
  /\ DefaultRelease \in Release
  /\ WithRelease \subseteq Repo
  /\ MaxScenarios \in Nat

(* A repository directory: a name with $releasever replaced. Plain names   *)
(* are the same directory for every release.                               *)
Subst(r, rel) == <<r, IF r \in WithRelease THEN rel ELSE DefaultRelease>>
Dir == {Subst(r, rel) : r \in Repo, rel \in Release}
Place == {"shared", "copy"}

(* The repodata in a directory: missing, of an earlier run, of a           *)
(* createrepo_c that failed ("allowed" if the step said it may), without   *)
(* updateinfo and modules, without modules, complete; or complete but      *)
(* older than the packages.                                                *)
Md == {"none", "old", "broken", "allowed", "bare", "updated", "full", "outdated"}

VARIABLES
  generated,   \* context.repos
  md,          \* md[<<"shared", d>>] in the fixtures, md[<<"copy", d>>] in tempdir
  info,        \* context.dnf.repos: the RepoInfo of each repository
  conf,        \* the baseurl in the repository's .repo file
  releasever,
  job,         \* the call of generate_repodata that runs
  todo,        \* repositories "I set releasever" has still to generate
  pc,          \* "idle", a place in generate_repodata, or "over"
  scenarios    \* history: how many scenarios have started

vars == <<generated, md, info, conf, releasever, job, todo, pc, scenarios>>
scenarioVars == <<info, conf, releasever, job, todo>>

(* A baseurl: file:// of the repository's path, whose $releasever dnf      *)
(* resolves, or a server for a directory as it was when it was started.    *)
FileUrl(place, r) == [kind |-> "file", place |-> place, name |-> r]
ServedUrl(place, d) == [kind |-> "served", place |-> place, name |-> d]
Url == {FileUrl(p, r) : p \in Place, r \in Repo} \cup
       {ServedUrl(p, d) : p \in Place, d \in Dir}
NoUrl == [kind |-> "none", place |-> "none", name |-> "none"]

Resolved(url) ==
  <<url.place, IF url.kind = "file" THEN Subst(url.name, releasever) ELSE url.name>>

(* known: the repository has a RepoInfo; path and copied as in RepoInfo.   *)
NewInfo(r) == [known |-> FALSE, active |-> FALSE, path |-> "shared",
               copied |-> FALSE, baseurl |-> FileUrl("shared", r)]
RepoInfo == [known : BOOLEAN, active : BOOLEAN, path : Place,
             copied : BOOLEAN, baseurl : Url]

get_substituted_path(r) == <<info[r].path, Subst(r, releasever)>>

After == {"nothing", "use", "copy"}
Job == [repo : Repo, explicit : BOOLEAN, extra : BOOLEAN, expect : {"ok", "fail"},
        after : After]
NoJob == [repo |-> "none"]

NewInfos == [r \in Repo |-> NewInfo(r)]
NoConf == [r \in Repo |-> NoUrl]

Init ==
  /\ info = NewInfos
  /\ conf = NoConf
  /\ releasever = DefaultRelease
  /\ job = NoJob
  /\ todo = {}
  /\ pc = "idle"
  /\ generated = {}
  /\ md = [p \in Place \X Dir |->
             IF p[1] = "shared" /\ p[2] \in Found THEN "old" ELSE "none"]
  /\ scenarios = 1

----------------------------------------------------------------------------
(* generate_repodata.                                                      *)

SkippedIfGenerated(r, explicit, extra) ==   \* mutant: a copy is not regenerated
  Subst(r, releasever) \in generated /\ ~extra

(* The early return: generated in this run, and not to be done again.      *)
AlreadyGenerated(r, explicit, extra) ==
  /\ Subst(r, releasever) \in generated
  /\ ~extra
  /\ ~(explicit /\ info[r].copied)

Generate(r, explicit, extra, expect, after) ==
  /\ job' = [repo |-> r, explicit |-> explicit, extra |-> extra,
             expect |-> expect, after |-> after]
  /\ pc' = IF AlreadyGenerated(r, explicit, extra) THEN "done" ELSE "createrepo"

Target == get_substituted_path(job.repo)

(* The exception leaves the call and the step; behave ends the scenario.   *)
Raise == pc' = "over" /\ job' = NoJob /\ todo' = {}

GoTo(place) == pc' = place /\ UNCHANGED <<job, todo>>

(* createrepo_c replaces the repodata; the step goes on if it succeeds or  *)
(* fails as expected.                                                      *)
Createrepo ==
  /\ pc = "createrepo"
  /\ \E result \in {"ok", "fail"} :
       /\ md' = [md EXCEPT ![Target] =
                   IF result = "ok" THEN "bare"
                   ELSE IF job.expect = "fail" THEN "allowed" ELSE "broken"]
       /\ IF result = job.expect THEN GoTo("updateinfo") ELSE Raise
  /\ UNCHANGED <<generated, info, conf, releasever, scenarios>>

(* modifyrepo_c adds what the fixtures have: updateinfo, then modules.     *)
AddUpdateinfo ==
  /\ pc = "updateinfo"
  /\ \/ /\ md' = [md EXCEPT ![Target] = IF @ = "bare" THEN "updated" ELSE @]
        /\ GoTo("modules")
     \/ Raise /\ UNCHANGED md
  /\ UNCHANGED <<generated, info, conf, releasever, scenarios>>

MarkedAlways == generated \cup {Target[2]}   \* mutant: copies are marked, too

Marked == IF info[job.repo].copied THEN generated ELSE generated \cup {Target[2]}

AddModules ==
  /\ pc = "modules"
  /\ \/ /\ md' = [md EXCEPT ![Target] = IF @ = "updated" THEN "full" ELSE @]
        /\ generated' = Marked
        /\ GoTo("done")
     \/ Raise /\ UNCHANGED <<md, generated>>
  /\ UNCHANGED <<info, conf, releasever, scenarios>>

----------------------------------------------------------------------------
(* The steps of a scenario, up to their call of generate_repodata.         *)

Idle == pc = "idle" /\ todo = {}
Known(r) == [info EXCEPT ![r].known = TRUE]

UseRepository(r) ==
  /\ Idle
  /\ Generate(r, FALSE, FALSE, "ok", "use")
  /\ info' = Known(r)
  /\ UNCHANGED <<generated, md, conf, releasever, todo, scenarios>>

UseGeneratedWithExitCode(r) ==
  /\ Idle
  /\ Generate(r, FALSE, FALSE, "fail", "use")
  /\ info' = Known(r)
  /\ UNCHANGED <<generated, md, conf, releasever, todo, scenarios>>

GenerateExplicitly(r) ==
  /\ Idle
  /\ Generate(r, TRUE, FALSE, "ok", "nothing")
  /\ info' = Known(r)
  /\ UNCHANGED <<generated, md, conf, releasever, todo, scenarios>>

GenerateExtraUnchecked(r) ==     \* mutant: extra arguments for any repository
  /\ Idle
  /\ Generate(r, TRUE, TRUE, "ok", "nothing")
  /\ info' = Known(r)
  /\ UNCHANGED <<generated, md, conf, releasever, todo, scenarios>>

(* Extra arguments are only for a repository copied for modification.      *)
GenerateExtra(r) ==
  /\ Idle
  /\ info' = Known(r)
  /\ IF info[r].copied
     THEN Generate(r, TRUE, TRUE, "ok", "nothing")
     ELSE pc' = "over" /\ UNCHANGED job
  /\ UNCHANGED <<generated, md, conf, releasever, todo, scenarios>>

(* "I use repository as http": the server serves the directory the path    *)
(* names now.                                                              *)
UseAs(r) ==
  /\ Idle
  /\ info' = [Known(r) EXCEPT ![r].baseurl =
                LET p == get_substituted_path(r) IN ServedUrl(p[1], p[2])]
  /\ Generate(r, FALSE, FALSE, "ok", "use")
  /\ UNCHANGED <<generated, md, conf, releasever, todo, scenarios>>

CopyRepository(r) ==
  /\ Idle
  /\ Generate(r, FALSE, FALSE, "ok", "copy")
  /\ info' = Known(r)
  /\ UNCHANGED <<generated, md, conf, releasever, todo, scenarios>>

SetReleaseverOnly == {}          \* mutant: nothing is generated for it

(* The known repositories that depend on the release.                      *)
ReleaseRepos == {r \in WithRelease : info[r].known}

SetReleasever(rel) ==
  /\ Idle
  /\ releasever' = rel
  /\ todo' = ReleaseRepos
  /\ UNCHANGED <<generated, md, info, conf, job, pc, scenarios>>

GenerateNext ==
  /\ pc = "idle"
  /\ \E r \in todo :
       /\ todo' = todo \ {r}
       /\ Generate(r, FALSE, FALSE, "ok", "nothing")
  /\ UNCHANGED <<generated, md, info, conf, releasever, scenarios>>

(* An active repository's file is written again, whatever the new options. *)
Configure(r) ==
  /\ Idle
  /\ info' = Known(r)
  /\ conf' = IF info[r].active THEN [conf EXCEPT ![r] = info[r].baseurl] ELSE conf
  /\ UNCHANGED <<generated, md, releasever, job, todo, pc, scenarios>>

Drop(r) ==
  /\ Idle
  /\ IF info[r].known
     THEN /\ conf' = [conf EXCEPT ![r] = NoUrl]
          /\ info' = [info EXCEPT ![r].active = FALSE]
          /\ UNCHANGED pc
     ELSE pc' = "over" /\ UNCHANGED <<conf, info>>
  /\ UNCHANGED <<generated, md, releasever, job, todo, scenarios>>

(* The scenario changes packages of its copy.                              *)
ModifyCopy(r) ==
  /\ Idle
  /\ info[r].copied
  /\ md[get_substituted_path(r)] # "none"
  /\ md' = [md EXCEPT ![get_substituted_path(r)] = "outdated"]
  /\ UNCHANGED <<generated, scenarioVars, pc, scenarios>>

----------------------------------------------------------------------------
(* The rest of a step, after generate_repodata has returned.               *)

ReturnNothing ==
  /\ pc = "done" /\ job.after = "nothing"
  /\ job' = NoJob
  /\ pc' = "idle"
  /\ UNCHANGED <<generated, md, info, conf, releasever, todo, scenarios>>

(* create_repo_conf.                                                       *)
ReturnUse ==
  /\ pc = "done" /\ job.after = "use"
  /\ info' = [info EXCEPT ![job.repo].active = TRUE]
  /\ conf' = [conf EXCEPT ![job.repo] = info[job.repo].baseurl]
  /\ job' = NoJob
  /\ pc' = "idle"
  /\ UNCHANGED <<generated, md, releasever, todo, scenarios>>

CopyTarget == <<"copy", Subst(job.repo, releasever)>>

(* The path is set first; copy_tree fails if its destination exists or its *)
(* source does not. The .repo file, if there is one, is not written again. *)
ReturnCopy ==
  /\ pc = "done" /\ job.after = "copy"
  /\ IF md[CopyTarget] = "none" /\ md[Target] # "none"
     THEN /\ md' = [md EXCEPT ![CopyTarget] = md[Target]]
          /\ info' = [info EXCEPT ![job.repo] = [@ EXCEPT
                        !.path = "copy", !.copied = TRUE,
                        !.baseurl = FileUrl("copy", job.repo)]]
          /\ pc' = "idle"
     ELSE /\ info' = [info EXCEPT ![job.repo].path = "copy"]
          /\ pc' = "over" /\ UNCHANGED md
  /\ job' = NoJob
  /\ UNCHANGED <<generated, conf, releasever, todo, scenarios>>

----------------------------------------------------------------------------

(* DNFContext of a new scenario.                                           *)
NewDNFContext ==
  /\ info' = NewInfos
  /\ conf' = NoConf
  /\ releasever' = DefaultRelease
  /\ job' = NoJob
  /\ todo' = {}
  /\ pc' = "idle"

(* The next scenario: the tempdir with the copies is gone.                 *)
NextScenario ==
  /\ pc = "over" \/ Idle
  /\ scenarios < MaxScenarios
  /\ NewDNFContext
  /\ md' = [p \in Place \X Dir |-> IF p[1] = "shared" THEN md[p] ELSE "none"]
  /\ scenarios' = scenarios + 1
  /\ UNCHANGED generated

(* The process ends, or is killed at any point, and another run starts:    *)
(* before_all makes an empty context.repos.                                *)
NextRun ==
  /\ scenarios < MaxScenarios
  /\ NewDNFContext
  /\ md' = [p \in Place \X Dir |->
              IF p[1] = "shared" /\ md[p] # "none" THEN "old" ELSE "none"]
  /\ generated' = {}
  /\ scenarios' = scenarios + 1

generate_repodata == Createrepo \/ AddUpdateinfo \/ AddModules
Return == ReturnNothing \/ ReturnUse \/ ReturnCopy

ScenarioStep(r) ==
  \/ UseRepository(r) \/ UseGeneratedWithExitCode(r) \/ UseAs(r)
  \/ GenerateExplicitly(r) \/ GenerateExtra(r)
  \/ CopyRepository(r) \/ ModifyCopy(r)
  \/ Configure(r) \/ Drop(r)

Next ==
  \/ \E r \in Repo : ScenarioStep(r)
  \/ \E rel \in Release : SetReleasever(rel)
  \/ GenerateNext \/ generate_repodata \/ Return
  \/ NextScenario \/ NextRun

Spec == Init /\ [][Next]_vars

----------------------------------------------------------------------------
(* Properties.                                                             *)

TypeOK ==
  /\ generated \subseteq Dir
  /\ md \in [Place \X Dir -> Md]
  /\ info \in [Repo -> RepoInfo]
  /\ conf \in [Repo -> Url \cup {NoUrl}]
  /\ releasever \in Release
  /\ job \in Job \cup {NoJob}
  /\ todo \subseteq WithRelease
  /\ pc \in {"idle", "createrepo", "updateinfo", "modules", "done", "over"}

(* What context.repos remembers is true: the shared repodata of such a     *)
(* repository is complete, and was generated in this run, not in an        *)
(* earlier one, not half-way by a step that failed (repo.py:79-80, 107).   *)
(* The exception is a createrepo_c that was allowed to fail, and did.      *)
CacheIsTrue ==
  \A d \in generated : md[<<"shared", d>>] \in {"full", "allowed"}

(* Once generated, the shared repodata of a repository stay as they are    *)
(* for the other scenarios of the run, whatever scenarios do with their    *)
(* copies (repo.py:157-160, 235-252).                                      *)
SharedUnchanged ==
  [][\A d \in generated : d \in generated' =>
       md'[<<"shared", d>>] = md[<<"shared", d>>]]_vars

(* Between steps, the directory a repository's file points to has          *)
(* repodata that this run generated, or a copy of them, whatever happened  *)
(* in earlier scenarios. Not if the repository was copied and dnf's        *)
(* release is not the one it was copied for (repo.py:141-146, 183-221).    *)
UsedIsGenerated ==
  Idle => \A r \in Repo :
    conf[r] # NoUrl /\ (info[r].copied => r \notin WithRelease) =>
      md[Resolved(conf[r])] \in {"full", "outdated", "allowed"}

(* Asking for the repodata of a copied repository regenerates them: they   *)
(* match the packages as the scenario has changed them (repo.py:79, 168).  *)
ExplicitMatchesPackages ==
  pc = "done" /\ job.explicit /\ info[job.repo].copied => md[Target] = "full"
=============================================================================
