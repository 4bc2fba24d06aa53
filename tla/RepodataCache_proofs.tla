------------------------ MODULE RepodataCache_proofs ------------------------
(***************************************************************************)
(* Proofs about RepodataCache, for any repositories, releases and number   *)
(* of scenarios and runs: what context.repos remembers is true, and the    *)
(* shared repodata it remembers do not change for the rest of the run.     *)
(***************************************************************************)
EXTENDS RepodataCache, TLAPS

Generating == pc \in {"createrepo", "updateinfo", "modules"}

(* There is a job while generate_repodata runs. Until its scenario is over *)
(* a copied repository is one whose path was moved to the tempdir.         *)
JobInv ==
  /\ Generating \/ pc = "done" => job \in Job
  /\ pc # "over" =>
       \A r \in Repo : info[r].path = IF info[r].copied THEN "copy" ELSE "shared"

(* Only the repodata of copies are generated again.                        *)
AgainInv ==
  Generating => info[job.repo].copied \/ Target[2] \notin generated

(* What createrepo_c and modifyrepo_c have done so far. A step that asks   *)
(* for repodata explicitly does not let them fail.                         *)
PhaseInv ==
  /\ pc = "updateinfo" => md[Target] = IF job.expect = "ok" THEN "bare" ELSE "allowed"
  /\ pc = "modules" => md[Target] = IF job.expect = "ok" THEN "updated" ELSE "allowed"
  /\ Generating /\ job.explicit => job.expect = "ok"

IInv ==
  /\ TypeOK /\ JobInv /\ AgainInv /\ PhaseInv
  /\ CacheIsTrue /\ ExplicitMatchesPackages

(* A name always stands for a directory, whatever the release.             *)
LEMMA SubstInDir ==
  ASSUME NEW r \in Repo, NEW rel \in Release
  PROVE  Subst(r, rel) \in Dir
  BY DEF Dir

LEMMA NewInfoType ==
  ASSUME NEW r \in Repo
  PROVE  NewInfo(r) \in RepoInfo /\ NewInfo(r).path = "shared" /\ ~NewInfo(r).copied
<1>1. FileUrl("shared", r) \in Url
  BY DEF Url, Place
<1> QED
  BY <1>1 DEF NewInfo, RepoInfo, Place

LEMMA InitIInv == Init => IInv
<1> SUFFICES ASSUME Init PROVE IInv
  OBVIOUS
<1> USE RepodataAssumption DEF Init
<1>1. info \in [Repo -> RepoInfo] /\ \A r \in Repo : info[r] = NewInfo(r)
  BY NewInfoType DEF NewInfos
<1>2. md \in [Place \X Dir -> Md]
  BY DEF Md
<1>3. TypeOK
  BY <1>1, <1>2 DEF TypeOK, NoConf
<1>4. JobInv
  BY <1>1, NewInfoType DEF JobInv, Generating
<1> QED
  BY <1>3, <1>4 DEF IInv, AgainInv, PhaseInv, Generating, CacheIsTrue,
                    ExplicitMatchesPackages

(* Every step keeps the types, and the relation of jobs, paths and copies. *)
LEMMA TypeStep == TypeOK /\ JobInv /\ [Next]_vars => TypeOK' /\ JobInv'
<1> SUFFICES ASSUME TypeOK, JobInv, [Next]_vars PROVE TypeOK' /\ JobInv'
  OBVIOUS
<1> USE RepodataAssumption, SubstInDir
    DEF TypeOK, JobInv, Generating
<1>1. CASE UNCHANGED vars
  BY <1>1 DEF vars
<1>2. ASSUME NEW r \in Repo, NEW explicit \in BOOLEAN, NEW extra \in BOOLEAN,
             NEW expect \in {"ok", "fail"}, NEW after \in After,
             Generate(r, explicit, extra, expect, after)
      PROVE  job' \in Job /\ pc' \in {"createrepo", "done"}
  BY <1>2 DEF Generate, Job
<1>3. ASSUME NEW r \in Repo
      PROVE  /\ Known(r) \in [Repo -> RepoInfo]
             /\ \A q \in Repo : /\ Known(r)[q].path = info[q].path
                                /\ Known(r)[q].copied = info[q].copied
  BY DEF Known, RepoInfo
<1>4. ASSUME NEW r \in Repo, ScenarioStep(r)
      PROVE  TypeOK' /\ JobInv'
  <2>1. CASE UseRepository(r)
    BY <2>1, <1>2, <1>3 DEF UseRepository, Idle, After
  <2>2. CASE UseGeneratedWithExitCode(r)
    BY <2>2, <1>2, <1>3 DEF UseGeneratedWithExitCode, Idle, After
  <2>3. CASE UseAs(r)
    <3>1. job' \in Job /\ pc' \in {"createrepo", "done"}
      BY <2>3, <1>2 DEF UseAs, After
    <3>2. get_substituted_path(r) = <<info[r].path, Subst(r, releasever)>>
      BY DEF get_substituted_path
    <3>3. info[r].path \in Place /\ Subst(r, releasever) \in Dir
      BY DEF RepoInfo
    <3>4. ServedUrl(info[r].path, Subst(r, releasever)) \in Url
      BY <3>3 DEF Url
    <3>5. info' = [Known(r) EXCEPT ![r].baseurl =
                     ServedUrl(info[r].path, Subst(r, releasever))]
      BY <2>3, <3>2 DEF UseAs
    <3>6. Known(r)[r] \in RepoInfo
      BY <1>3
    <3>7. [Known(r)[r] EXCEPT !.baseurl = ServedUrl(info[r].path, Subst(r, releasever))]
            \in RepoInfo
      BY <3>4, <3>6 DEF RepoInfo
    <3>8. /\ info' \in [Repo -> RepoInfo]
          /\ \A q \in Repo : /\ info'[q].path = Known(r)[q].path
                             /\ info'[q].copied = Known(r)[q].copied
      BY <1>3, <3>5, <3>6, <3>7 DEF RepoInfo
    <3> QED
      BY <2>3, <3>1, <3>8, <1>3, SMTT(40) DEF UseAs, Idle
  <2>4. CASE GenerateExplicitly(r)
    BY <2>4, <1>2, <1>3 DEF GenerateExplicitly, Idle, After
  <2>5. CASE GenerateExtra(r)
    BY <2>5, <1>2, <1>3 DEF GenerateExtra, Idle, After
  <2>6. CASE CopyRepository(r)
    BY <2>6, <1>2, <1>3 DEF CopyRepository, Idle, After
  <2>7. CASE ModifyCopy(r)
    BY <2>7 DEF ModifyCopy, scenarioVars, Md
  <2>8. CASE Configure(r)
    <3>1. conf' \in [Repo -> Url \cup {NoUrl}]
      BY <2>8 DEF Configure, RepoInfo
    <3> QED
      BY <2>8, <3>1, <1>3 DEF Configure, Idle
  <2>9. CASE Drop(r)
    <3> DEFINE dropped == [info[r] EXCEPT !.active = FALSE]
    <3>1. /\ dropped \in RepoInfo
          /\ dropped.path = info[r].path /\ dropped.copied = info[r].copied
      BY DEF RepoInfo
    <3>2. CASE info[r].known
      <4>1. /\ info' \in [Repo -> RepoInfo]
            /\ \A q \in Repo : /\ info'[q].path = info[q].path
                               /\ info'[q].copied = info[q].copied
        <5>1. info' = [info EXCEPT ![r] = dropped]
          BY <2>9, <3>2 DEF Drop
        <5> HIDE DEF dropped
        <5> QED
          BY <3>1, <5>1
      <4> QED
        BY <2>9, <3>2, <4>1 DEF Drop, Idle
    <3>3. CASE ~info[r].known
      BY <2>9, <3>3 DEF Drop, Idle
    <3> QED
      BY <3>2, <3>3
  <2> QED
    BY <1>4, <2>1, <2>2, <2>3, <2>4, <2>5, <2>6, <2>7, <2>8, <2>9 DEF ScenarioStep
<1>5. ASSUME NEW rel \in Release, SetReleasever(rel)
      PROVE  TypeOK' /\ JobInv'
  BY <1>5 DEF SetReleasever, ReleaseRepos, Idle
<1>6. CASE GenerateNext
  BY <1>6, <1>2 DEF GenerateNext, After
<1>7. CASE Createrepo
  BY <1>7 DEF Createrepo, GoTo, Raise, Md
<1>8. CASE AddUpdateinfo
  BY <1>8 DEF AddUpdateinfo, GoTo, Raise, Md
<1>9. CASE AddModules
  <2>1. Target[2] \in Dir
    BY <1>9 DEF AddModules, Target, get_substituted_path, Job
  <2> QED
    BY <1>9, <2>1 DEF AddModules, GoTo, Raise, Md, Marked
<1>10. CASE ReturnNothing
  BY <1>10 DEF ReturnNothing
<1>11. CASE ReturnUse
  <2>1. job.repo \in Repo /\ info[job.repo].baseurl \in Url
    BY <1>11 DEF ReturnUse, Job, RepoInfo
  <2>2. /\ info' \in [Repo -> RepoInfo]
        /\ \A q \in Repo : /\ info'[q].path = info[q].path
                           /\ info'[q].copied = info[q].copied
    BY <1>11, <2>1, ZenonT(40) DEF ReturnUse, RepoInfo
  <2> QED
    BY <1>11, <2>1, <2>2 DEF ReturnUse
<1>12. CASE ReturnCopy
  <2>1. job.repo \in Repo /\ Target \in Place \X Dir
    BY <1>12 DEF ReturnCopy, Job, RepoInfo, Target, get_substituted_path
  <2>2. FileUrl("copy", job.repo) \in Url
    BY <2>1 DEF Url, Place
  <2>3. info' \in [Repo -> RepoInfo]
    <3> DEFINE copied == [info[job.repo] EXCEPT !.path = "copy", !.copied = TRUE,
                                                !.baseurl = FileUrl("copy", job.repo)]
               moved == [info[job.repo] EXCEPT !.path = "copy"]
    <3>1. copied \in RepoInfo /\ moved \in RepoInfo
      BY <2>1, <2>2 DEF RepoInfo, Place
    <3>2. \/ info' = [info EXCEPT ![job.repo] = copied]
          \/ info' = [info EXCEPT ![job.repo] = moved]
      BY <1>12 DEF ReturnCopy
    <3> QED
      BY <2>1, <3>1, <3>2
  <2>4. md' \in [Place \X Dir -> Md]
    BY <1>12, <2>1 DEF ReturnCopy
  <2>5. pc' = "idle" =>
          \A r \in Repo : info'[r].path = IF info'[r].copied THEN "copy" ELSE "shared"
    <3> SUFFICES ASSUME pc' = "idle", NEW r \in Repo
                 PROVE  info'[r].path = IF info'[r].copied THEN "copy" ELSE "shared"
      OBVIOUS
    <3>1. CASE r = job.repo
      <4>1. info[r] \in RepoInfo
        OBVIOUS
      <4>2. info'[r] = [info[r] EXCEPT !.path = "copy", !.copied = TRUE,
                                       !.baseurl = FileUrl("copy", r)]
        BY <1>12, <3>1 DEF ReturnCopy
      <4> QED
        BY <4>1, <4>2 DEF RepoInfo
    <3>2. CASE r # job.repo
      BY <1>12, <2>1, <3>2 DEF ReturnCopy
    <3> QED
      BY <3>1, <3>2
  <2>6. pc' \in {"idle", "over"}
    BY <1>12 DEF ReturnCopy
  <2> QED
    BY <1>12, <2>3, <2>4, <2>5, <2>6 DEF ReturnCopy
<1>13. ASSUME NewDNFContext
       PROVE  /\ info' \in [Repo -> RepoInfo] /\ conf' \in [Repo -> Url \cup {NoUrl}]
              /\ releasever' \in Release /\ job' = NoJob /\ todo' = {} /\ JobInv'
              /\ pc' = "idle"
  <2>1. info' \in [Repo -> RepoInfo] /\ \A q \in Repo : info'[q] = NewInfo(q)
    BY <1>13, NewInfoType DEF NewDNFContext, NewInfos
  <2> QED
    BY <1>13, <2>1, NewInfoType DEF NewDNFContext, NoConf
<1>14. CASE NextScenario
  BY <1>14, <1>13 DEF NextScenario, Md
<1>15. CASE NextRun
  BY <1>15, <1>13 DEF NextRun, Md
<1> QED
  BY <1>1, <1>4, <1>5, <1>6, <1>7, <1>8, <1>9, <1>10, <1>11, <1>12, <1>14, <1>15
  DEF Next, generate_repodata, Return

(* What the called procedure may have done: the step keeps what            *)
(* context.repos remembers true, and is somewhere it accounts for.         *)
LEMMA CacheStep == IInv /\ [Next]_vars => CacheIsTrue'
<1> SUFFICES ASSUME IInv, [Next]_vars PROVE CacheIsTrue'
  OBVIOUS
<1> USE DEF IInv, TypeOK, JobInv, CacheIsTrue
<1>1. CASE UNCHANGED <<generated, md>>
  BY <1>1
<1>2. ASSUME Generating
      PROVE  /\ job \in Job /\ Target \in Place \X Dir /\ Target = <<Target[1], Target[2]>>
             /\ ~info[job.repo].copied => Target[1] = "shared"
             /\ info[job.repo].copied => Target[1] = "copy"
             /\ Target[1] = "copy" \/ Target[2] \notin generated
  BY <1>2, SubstInDir DEF AgainInv, Generating, Target, get_substituted_path, Job, RepoInfo
<1>others. ASSUME NEW p, p[1] = "copy" \/ p[2] \notin generated,
             generated' = generated,
             \A x \in Place \X Dir : x # p => md'[x] = md[x]
      PROVE  CacheIsTrue'
  <2>1. ASSUME NEW d \in generated
        PROVE  <<"shared", d>> # p /\ <<"shared", d>> \in Place \X Dir
    <3>1. <<"shared", d>>[1] = "shared" /\ <<"shared", d>>[2] = d
      OBVIOUS
    <3>2. <<"shared", d>> # p
      BY <1>others, <3>1
    <3>3. <<"shared", d>> \in Place \X Dir
      BY DEF Place
    <3> QED
      BY <3>2, <3>3
  <2> QED
    BY <1>others, <2>1
<1>3. CASE Createrepo
  <2>1. \A x \in Place \X Dir : x # Target => md'[x] = md[x]
    BY <1>3 DEF Createrepo
  <2> QED
    BY <1>2, <1>3, <1>others, <2>1 DEF Createrepo, Generating
<1>4. CASE AddUpdateinfo
  <2>1. \A x \in Place \X Dir : x # Target => md'[x] = md[x]
    BY <1>4 DEF AddUpdateinfo
  <2> QED
    BY <1>2, <1>4, <1>others, <2>1 DEF AddUpdateinfo, Generating
<1>5. CASE AddModules
  <2>1. CASE UNCHANGED <<generated, md>>
    BY <2>1
  <2>2. CASE /\ md' = [md EXCEPT ![Target] = IF @ = "updated" THEN "full" ELSE @]
             /\ generated' = Marked
    <3>1. md[Target] \in {"updated", "allowed"}
      BY <1>5 DEF AddModules, PhaseInv
    <3>2. md'[Target] \in {"full", "allowed"}
      BY <1>2, <1>5, <2>2, <3>1 DEF AddModules, Generating
    <3> SUFFICES ASSUME NEW d \in generated'
                 PROVE  md'[<<"shared", d>>] \in {"full", "allowed"}
      OBVIOUS
    <3>3. CASE <<"shared", d>> = Target
      BY <3>2, <3>3
    <3>4. CASE <<"shared", d>> # Target
      BY <1>2, <1>5, <2>2, <3>4 DEF AddModules, Generating, Marked
    <3> QED
      BY <3>3, <3>4
  <2> QED
    BY <1>5, <2>1, <2>2 DEF AddModules
<1>6. ASSUME NEW r \in Repo, ModifyCopy(r)
      PROVE  CacheIsTrue'
  <2>1. get_substituted_path(r)[1] = "copy"
    BY <1>6 DEF ModifyCopy, Idle, get_substituted_path
  <2>2. \A x \in Place \X Dir : x # get_substituted_path(r) => md'[x] = md[x]
    BY <1>6 DEF ModifyCopy
  <2> QED
    BY <1>6, <1>others, <2>1, <2>2 DEF ModifyCopy
<1>7. CASE ReturnCopy
  <2>1. CopyTarget[1] = "copy"
    BY DEF CopyTarget
  <2>2. \A x \in Place \X Dir : x # CopyTarget => md'[x] = md[x]
    BY <1>7 DEF ReturnCopy
  <2> QED
    BY <1>7, <1>others, <2>1, <2>2 DEF ReturnCopy
<1>8. CASE NextScenario
  BY <1>8 DEF NextScenario, Place
<1>9. CASE NextRun
  BY <1>9 DEF NextRun
<1>10. ASSUME NEW r \in Repo, ScenarioStep(r), ~ModifyCopy(r)
       PROVE  UNCHANGED <<generated, md>>
  BY <1>10 DEF ScenarioStep, UseRepository, UseGeneratedWithExitCode, UseAs,
     GenerateExplicitly, GenerateExtra, CopyRepository, Configure, Drop
<1>11. ASSUME NEW rel \in Release, SetReleasever(rel)
       PROVE  UNCHANGED <<generated, md>>
  BY <1>11 DEF SetReleasever
<1>12. ASSUME GenerateNext \/ ReturnNothing \/ ReturnUse \/ UNCHANGED vars
       PROVE  UNCHANGED <<generated, md>>
  BY <1>12 DEF GenerateNext, ReturnNothing, ReturnUse, vars
<1> QED
  BY <1>1, <1>3, <1>4, <1>5, <1>6, <1>7, <1>8, <1>9, <1>10, <1>11, <1>12
  DEF Next, generate_repodata, Return

(* A call starts with nothing done, or returns at once; either way nothing *)
(* it could claim of the repodata is claimed too early.                    *)
LEMMA GenerateStarts ==
  ASSUME IInv, pc = "idle",
         NEW r \in Repo, NEW explicit \in BOOLEAN, NEW extra \in BOOLEAN,
         NEW expect \in {"ok", "fail"}, NEW after \in After,
         explicit => expect = "ok", extra => info[r].copied,
         Generate(r, explicit, extra, expect, after),
         \A q \in Repo : /\ info'[q].path = info[q].path
                         /\ info'[q].copied = info[q].copied,
         UNCHANGED <<generated, md, releasever>>
  PROVE  (AgainInv /\ PhaseInv /\ ExplicitMatchesPackages)'
<1>1. job' = [repo |-> r, explicit |-> explicit, extra |-> extra,
              expect |-> expect, after |-> after]
  BY DEF Generate
<1>2. /\ job'.repo = r /\ job'.explicit = explicit /\ job'.expect = expect
      /\ Target'[2] = Subst(r, releasever)
      /\ info'[r].copied = info[r].copied
  BY <1>1 DEF Target, get_substituted_path, Subst
<1>3. CASE AlreadyGenerated(r, explicit, extra)
  <2>1. pc' = "done"
    BY <1>3 DEF Generate
  <2> QED
    BY <1>2, <1>3, <2>1
    DEF AlreadyGenerated, AgainInv, PhaseInv, ExplicitMatchesPackages, Generating
<1>4. CASE ~AlreadyGenerated(r, explicit, extra)
  <2>1. pc' = "createrepo"
    BY <1>4 DEF Generate
  <2> QED
    BY <1>2, <1>4, <2>1
    DEF AlreadyGenerated, AgainInv, PhaseInv, ExplicitMatchesPackages, Generating
<1> QED
  BY <1>3, <1>4

LEMMA KnownKeeps ==
  ASSUME TypeOK, NEW r \in Repo
  PROVE  \A q \in Repo : /\ Known(r)[q].path = info[q].path
                         /\ Known(r)[q].copied = info[q].copied
  BY DEF Known, TypeOK, RepoInfo

(* Every step keeps what is known of the running call.                     *)
LEMMA CallStep ==
  IInv /\ [Next]_vars => (AgainInv /\ PhaseInv /\ ExplicitMatchesPackages)'
<1> DEFINE CallInv == AgainInv /\ PhaseInv /\ ExplicitMatchesPackages
<1> SUFFICES ASSUME IInv, [Next]_vars PROVE CallInv'
  OBVIOUS
<1>1. TypeOK /\ JobInv
  BY DEF IInv
<1>2. ASSUME pc' \in {"idle", "over"} PROVE CallInv'
  BY <1>2 DEF AgainInv, PhaseInv, ExplicitMatchesPackages, Generating
<1>3. CASE UNCHANGED vars
  BY <1>3 DEF vars, IInv, AgainInv, PhaseInv, ExplicitMatchesPackages, Generating,
              Target, get_substituted_path, Subst
<1>4. ASSUME NEW r \in Repo, ScenarioStep(r)
      PROVE  CallInv'
  <2>1. CASE UseRepository(r)
    BY <2>1, <1>1, KnownKeeps, GenerateStarts DEF UseRepository, Idle, After
  <2>2. CASE UseGeneratedWithExitCode(r)
    BY <2>2, <1>1, KnownKeeps, GenerateStarts DEF UseGeneratedWithExitCode, Idle, After
  <2>3. CASE UseAs(r)
    <3>1. \A q \in Repo : /\ info'[q].path = info[q].path
                          /\ info'[q].copied = info[q].copied
      BY <2>3, <1>1 DEF UseAs, Known, TypeOK, RepoInfo
    <3> QED
      BY <2>3, <3>1, GenerateStarts DEF UseAs, Idle, After
  <2>4. CASE GenerateExplicitly(r)
    BY <2>4, <1>1, KnownKeeps, GenerateStarts DEF GenerateExplicitly, Idle, After
  <2>5. CASE GenerateExtra(r)
    <3>1. CASE info[r].copied
      BY <2>5, <3>1, <1>1, KnownKeeps, GenerateStarts DEF GenerateExtra, Idle, After
    <3>2. CASE ~info[r].copied
      BY <2>5, <3>2, <1>2 DEF GenerateExtra
    <3> QED
      BY <3>1, <3>2
  <2>6. CASE CopyRepository(r)
    BY <2>6, <1>1, KnownKeeps, GenerateStarts DEF CopyRepository, Idle, After
  <2>7. CASE ModifyCopy(r) \/ Configure(r) \/ Drop(r)
    BY <2>7, <1>2 DEF ModifyCopy, Configure, Drop, Idle
  <2> QED
    BY <1>4, <2>1, <2>2, <2>3, <2>4, <2>5, <2>6, <2>7 DEF ScenarioStep
<1>5. ASSUME NEW rel \in Release, SetReleasever(rel)
      PROVE  CallInv'
  BY <1>5, <1>2 DEF SetReleasever, Idle
<1>6. CASE GenerateNext
  <2>1. PICK r \in todo : Generate(r, FALSE, FALSE, "ok", "nothing")
    BY <1>6 DEF GenerateNext
  <2>2. r \in Repo
    BY <1>1, RepodataAssumption DEF TypeOK
  <2> QED
    BY <1>6, <2>1, <2>2, GenerateStarts DEF GenerateNext, After
<1>7. ASSUME Generating
      PROVE  job \in Job /\ Target \in Place \X Dir
  BY <1>7, <1>1, SubstInDir
  DEF TypeOK, JobInv, Generating, Target, get_substituted_path, Job, RepoInfo
<1>8. ASSUME UNCHANGED <<info, releasever, job>>
      PROVE  Target' = Target /\ job' = job /\ info' = info
  BY <1>8 DEF Target, get_substituted_path, Subst
<1>9. CASE Createrepo
  <2>1. CASE Raise
    BY <2>1, <1>2 DEF Raise
  <2>2. CASE GoTo("updateinfo")
    <3>1. /\ pc' = "updateinfo" /\ job' = job /\ info' = info
          /\ Target' = Target /\ generated' = generated
      BY <1>8, <1>9, <2>2 DEF Createrepo, GoTo
    <3>2. md'[Target] = IF job.expect = "ok" THEN "bare" ELSE "allowed"
      BY <1>1, <1>7, <1>9, <3>1 DEF Createrepo, Raise, TypeOK, Generating, Job
    <3> QED
      BY <1>9, <3>1, <3>2
      DEF Createrepo, IInv, AgainInv, PhaseInv, ExplicitMatchesPackages, Generating
  <2> QED
    BY <1>9, <2>1, <2>2 DEF Createrepo
<1>10. CASE AddUpdateinfo
  <2>1. CASE Raise
    BY <2>1, <1>2 DEF Raise
  <2>2. CASE /\ md' = [md EXCEPT ![Target] = IF @ = "bare" THEN "updated" ELSE @]
             /\ GoTo("modules")
    <3>1. /\ pc' = "modules" /\ job' = job /\ info' = info
          /\ Target' = Target /\ generated' = generated
      BY <1>8, <1>10, <2>2 DEF AddUpdateinfo, GoTo
    <3>2. md'[Target] = IF job.expect = "ok" THEN "updated" ELSE "allowed"
      BY <1>1, <1>7, <1>10, <2>2 DEF AddUpdateinfo, TypeOK, Generating, IInv, PhaseInv
    <3> QED
      BY <1>10, <3>1, <3>2
      DEF AddUpdateinfo, IInv, AgainInv, PhaseInv, ExplicitMatchesPackages, Generating
  <2> QED
    BY <1>10, <2>1, <2>2 DEF AddUpdateinfo
<1>11. CASE AddModules
  <2>1. CASE Raise
    BY <2>1, <1>2 DEF Raise
  <2>2. CASE /\ md' = [md EXCEPT ![Target] = IF @ = "updated" THEN "full" ELSE @]
             /\ GoTo("done")
    <3>1. pc' = "done" /\ job' = job /\ info' = info /\ Target' = Target
      BY <1>8, <1>11, <2>2 DEF AddModules, GoTo
    <3>2. job.explicit => md'[Target] = "full"
      BY <1>1, <1>7, <1>11, <2>2 DEF AddModules, TypeOK, Generating, IInv, PhaseInv
    <3> QED
      BY <3>1, <3>2 DEF AgainInv, PhaseInv, ExplicitMatchesPackages, Generating
  <2> QED
    BY <1>11, <2>1, <2>2 DEF AddModules
<1>12. CASE Return
  BY <1>12, <1>2 DEF Return, ReturnNothing, ReturnUse, ReturnCopy
<1>13. CASE NextScenario \/ NextRun
  BY <1>13, <1>2 DEF NextScenario, NextRun, NewDNFContext
<1> QED
  BY <1>3, <1>4, <1>5, <1>6, <1>9, <1>10, <1>11, <1>12, <1>13
  DEF Next, generate_repodata

LEMMA StepIInv == IInv /\ [Next]_vars => IInv'
<1> SUFFICES ASSUME IInv, [Next]_vars PROVE IInv'
  OBVIOUS
<1>1. TypeOK' /\ JobInv'
  BY TypeStep DEF IInv
<1> QED
  BY <1>1, CacheStep, CallStep DEF IInv

LEMMA Invariant == Spec => []IInv
  BY InitIInv, StepIInv, PTL DEF Spec

(* No step leaves a variable outside its type.                             *)
THEOREM TypeCorrect == Spec => []TypeOK
<1>1. IInv => TypeOK
  BY DEF IInv
<1> QED
  BY <1>1, Invariant, PTL

(* What context.repos remembers is true, for any number of repositories,   *)
(* releases, scenarios and runs (repo.py:79-80, 107).                      *)
THEOREM CacheTrue == Spec => []CacheIsTrue
<1>1. IInv => CacheIsTrue
  BY DEF IInv
<1> QED
  BY <1>1, Invariant, PTL

(* Asking for the repodata of a copied repository leaves ones that match   *)
(* its packages (repo.py:79, 168).                                         *)
THEOREM ExplicitMatches == Spec => []ExplicitMatchesPackages
<1>1. IInv => ExplicitMatchesPackages
  BY DEF IInv
<1> QED
  BY <1>1, Invariant, PTL

(* No scenario changes shared repodata that context.repos remembers        *)
(* (repo.py:157-160, 235-252).                                             *)
THEOREM SharedStays == Spec => SharedUnchanged
<1> DEFINE Stays == \A d \in generated : d \in generated' =>
                      md'[<<"shared", d>>] = md[<<"shared", d>>]
<1>1. IInv /\ [Next]_vars => [Stays]_vars
  <2> SUFFICES ASSUME IInv, Next PROVE Stays
    BY DEF vars
  <2> USE DEF IInv, TypeOK, JobInv
  <2>1. CASE UNCHANGED md
    BY <2>1
  <2>2. CASE generate_repodata
    <3>1. Generating
      BY <2>2 DEF generate_repodata, Createrepo, AddUpdateinfo, AddModules, Generating
    <3>2. \A d \in generated : <<"shared", d>> # Target
      BY <3>1 DEF AgainInv, Generating, Target, get_substituted_path, Job
    <3>3. \A x \in Place \X Dir : x # Target => md'[x] = md[x]
      BY <2>2 DEF generate_repodata, Createrepo, AddUpdateinfo, AddModules
    <3> QED
      BY <3>2, <3>3 DEF Place
  <2>3. ASSUME NEW r \in Repo, ModifyCopy(r)
        PROVE  Stays
    BY <2>3 DEF ModifyCopy, Idle, get_substituted_path
  <2>4. CASE ReturnCopy
    <3>1. \A x \in Place \X Dir : x # CopyTarget => md'[x] = md[x]
      BY <2>4 DEF ReturnCopy
    <3>2. \A d \in generated : <<"shared", d>> # CopyTarget
      BY DEF CopyTarget
    <3> QED
      BY <3>1, <3>2 DEF Place
  <2>5. CASE NextScenario
    BY <2>5 DEF NextScenario, Place
  <2>6. CASE NextRun
    BY <2>6 DEF NextRun
  <2>7. ASSUME NEW r \in Repo, ScenarioStep(r), ~ModifyCopy(r)
        PROVE  UNCHANGED md
    BY <2>7 DEF ScenarioStep, UseRepository, UseGeneratedWithExitCode, UseAs,
       GenerateExplicitly, GenerateExtra, CopyRepository, Configure, Drop
  <2>8. ASSUME NEW rel \in Release, SetReleasever(rel)
        PROVE  UNCHANGED md
    BY <2>8 DEF SetReleasever
  <2>9. ASSUME GenerateNext \/ ReturnNothing \/ ReturnUse
        PROVE  UNCHANGED md
    BY <2>9 DEF GenerateNext, ReturnNothing, ReturnUse
  <2> QED
    BY <2>1, <2>2, <2>3, <2>4, <2>5, <2>6, <2>7, <2>8, <2>9 DEF Next, Return
<1> QED
  BY <1>1, Invariant, PTL DEF Spec, SharedUnchanged

----------------------------------------------------------------------------
(* What a repository's file points to. A scenario's repository is followed *)
(* until the scenario is over, or the release of its copy may not be       *)
(* dnf's. While generate_repodata runs its directory is not ready yet.     *)
Running(r) == Generating /\ job.repo = r
Awaited(r) == Running(r) /\ ~info[r].copied

Followed(r) == pc # "over" /\ (info[r].copied => r \notin WithRelease)

Good(x) == md[x] \in {"full", "outdated", "allowed"}

CopyDir(r) == <<"copy", Subst(r, DefaultRelease)>>

CopyUrl(r) == {FileUrl("copy", r), ServedUrl("copy", Subst(r, DefaultRelease))}

(* A server serves the shared directory d: generated, or about to be.      *)
Served(r, u) ==
  \E d \in Dir : /\ u = ServedUrl("shared", d)
                 /\ (d \in generated \/ (Awaited(r) /\ d = Subst(r, releasever)))

(* The file's baseurl is good, or will be before the scenario goes on.     *)
Backed(r, u) ==
  \/ /\ u = FileUrl("shared", r)
     /\ (Subst(r, releasever) \in generated \/ r \in todo \/ Awaited(r))
  \/ Served(r, u)
  \/ info[r].copied /\ u \in CopyUrl(r)

(* A copy is complete, or changed since, or is being generated again.      *)
CopyInv == \A r \in Repo : Followed(r) /\ info[r].copied => Good(CopyDir(r)) \/ Running(r)

(* generate_repodata returns with the shared directory remembered.         *)
DoneInv == pc = "done" /\ ~info[job.repo].copied => Target[2] \in generated

(* The RepoInfo's baseurl names the repository's own directory, or one     *)
(* that a server serves.                                                   *)
ShapeInv ==
  \A r \in Repo : Followed(r) =>
    IF info[r].copied THEN info[r].baseurl \in CopyUrl(r)
    ELSE info[r].baseurl = FileUrl("shared", r) \/ Served(r, info[r].baseurl)

(* "I set releasever" misses no repository that is configured.             *)
KnownInv ==
  /\ \A r \in Repo : conf[r] # NoUrl \/ info[r].active => info[r].known
  /\ \A r \in todo : info[r].known
  /\ Generating \/ pc = "done" => info[job.repo].known

BackedInv ==
  \A r \in Repo : Followed(r) =>
    /\ conf[r] # NoUrl => Backed(r, conf[r])
    /\ info[r].active => Backed(r, info[r].baseurl)

UInv == CopyInv /\ DoneInv /\ ShapeInv /\ KnownInv /\ BackedInv

LEMMA NoUrlIsNone ==
  /\ \A p \in Place, r \in Repo : FileUrl(p, r) # NoUrl
  /\ \A p \in Place, d \in Dir : ServedUrl(p, d) # NoUrl
  BY DEF FileUrl, ServedUrl, NoUrl

LEMMA InitUInv == Init => UInv
<1> SUFFICES ASSUME Init PROVE UInv
  OBVIOUS
<1>1. \A r \in Repo : /\ ~info[r].copied /\ ~info[r].active
                      /\ info[r].baseurl = FileUrl("shared", r) /\ conf[r] = NoUrl
  BY DEF Init, NewInfos, NewInfo, NoConf
<1>2. pc = "idle" /\ todo = {}
  BY DEF Init
<1> QED
  BY <1>1, <1>2 DEF UInv, CopyInv, DoneInv, ShapeInv, KnownInv, BackedInv, Generating

(* The step that asks for repodata: those it will use are remembered, or   *)
(* are generated now.                                                      *)
LEMMA GenerateBacks ==
  ASSUME IInv, UInv, pc = "idle",
         NEW r \in Repo, NEW explicit \in BOOLEAN, NEW extra \in BOOLEAN,
         NEW expect \in {"ok", "fail"}, NEW after \in After,
         Generate(r, explicit, extra, expect, after),
         \A q \in Repo : /\ info'[q].copied = info[q].copied
                         /\ info'[q].active = info[q].active
                         /\ info[q].known => info'[q].known
                         /\ info'[q].baseurl = info[q].baseurl
                            \/ (q = r /\ info'[q].baseurl =
                                  ServedUrl(info[q].path, Subst(q, releasever))),
         info'[r].known, todo' \subseteq todo, todo \subseteq todo' \cup {r},
         UNCHANGED <<generated, md, conf, releasever>>
  PROVE  UInv'
<1> USE RepodataAssumption DEF IInv, TypeOK, JobInv
<1>1. /\ job'.repo = r /\ pc' \in {"createrepo", "done"}
      /\ pc' = "done" => AlreadyGenerated(r, explicit, extra)
  BY DEF Generate
<1>2. Target'[2] = Subst(r, releasever)
  BY <1>1 DEF Target, get_substituted_path, Subst
<1>3. /\ ~Generating
      /\ Subst(r, releasever) \in generated \/ Running(r)'
  BY <1>1 DEF Generating, Running, AlreadyGenerated
<1>4. \A q \in Repo : Followed(q)' => Followed(q)
  BY <1>1 DEF Followed
<1>5. \A q \in Repo : \A u : Served(q, u) => Served(q, u)'
  BY <1>3 DEF Served, Awaited, Running, Subst
<1>6. \A q \in Repo : \A u : Followed(q) /\ Backed(q, u) => Backed(q, u)'
  <2> SUFFICES ASSUME NEW q \in Repo, NEW u, Followed(q), Backed(q, u)
               PROVE  Backed(q, u)'
    OBVIOUS
  <2>1. CASE Served(q, u)
    BY <1>5, <2>1 DEF Backed
  <2>2. CASE u = FileUrl("shared", q) /\ (Subst(q, releasever) \in generated \/ q \in todo)
    BY <1>3, <2>2 DEF Backed, FileUrl, Subst, Followed, Awaited
  <2>3. CASE info[q].copied /\ u \in CopyUrl(q)
    BY <2>3 DEF Backed, CopyUrl, FileUrl, ServedUrl, Subst
  <2> QED
    BY <1>3, <2>1, <2>2, <2>3 DEF Backed, Awaited, Running
<1>7. ASSUME NEW u, Followed(r), u = ServedUrl(info[r].path, Subst(r, releasever))
      PROVE  IF info[r].copied THEN u \in CopyUrl(r) ELSE Served(r, u)'
  <2>1. CASE info[r].copied
    BY <1>7, <2>1 DEF Followed, Subst, CopyUrl
  <2>2. CASE ~info[r].copied
    <3>1. info[r].path = "shared" /\ Subst(r, releasever) \in Dir
      BY <1>7, <2>2, SubstInDir DEF Followed
    <3>2. Subst(r, releasever)' = Subst(r, releasever)
      BY DEF Subst
    <3> QED
      BY <1>3, <1>7, <2>2, <3>1, <3>2 DEF Served, Awaited
  <2> QED
    BY <2>1, <2>2
<1>8. CopyInv'
  BY <1>3, <1>4 DEF UInv, CopyInv, Good, CopyDir, Running, Subst
<1>9. DoneInv'
  BY <1>1, <1>2 DEF DoneInv, AlreadyGenerated
<1>10. ShapeInv'
  <2> SUFFICES ASSUME NEW q \in Repo, Followed(q)', NEW u, u = info'[q].baseurl
               PROVE  IF info[q].copied THEN u \in CopyUrl(q)
                      ELSE u = FileUrl("shared", q) \/ Served(q, u)'
    BY DEF ShapeInv, CopyUrl, FileUrl, ServedUrl, Served, Subst
  <2>1. CASE u = info[q].baseurl
    <3>1. IF info[q].copied THEN u \in CopyUrl(q)
          ELSE u = FileUrl("shared", q) \/ Served(q, u)
      BY <1>4, <2>1 DEF UInv, ShapeInv
    <3> QED
      BY <1>5, <3>1
  <2>2. CASE q = r /\ u = ServedUrl(info[q].path, Subst(q, releasever))
    BY <1>4, <1>7, <2>2
  <2> QED
    BY <2>1, <2>2
<1>11. KnownInv'
  BY <1>1 DEF UInv, KnownInv
<1>12. BackedInv'
  <2> SUFFICES ASSUME NEW q \in Repo, Followed(q)', NEW u,
                      \/ conf[q] # NoUrl /\ u = conf[q]
                      \/ info[q].active /\ u = info'[q].baseurl
               PROVE  Backed(q, u)'
    BY DEF BackedInv, Backed, Served, NoUrl, CopyUrl, FileUrl, ServedUrl, Subst
  <2>1. CASE (conf[q] # NoUrl /\ u = conf[q]) \/ (info[q].active /\ u = info[q].baseurl)
    <3>1. Backed(q, u)
      BY <1>4, <2>1 DEF UInv, BackedInv
    <3> QED
      BY <1>4, <1>6, <3>1
  <2>2. CASE q = r /\ u = ServedUrl(info[q].path, Subst(q, releasever))
    <3>1. IF info[q].copied THEN u \in CopyUrl(q) ELSE Served(q, u)'
      BY <1>4, <1>7, <2>2
    <3> QED
      BY <3>1 DEF Backed, CopyUrl, FileUrl, ServedUrl, Subst
  <2> QED
    BY <2>1, <2>2
<1> QED
  BY <1>8, <1>9, <1>10, <1>11, <1>12 DEF UInv

(* While the call runs only its repository's directory changes.            *)
LEMMA CallBacks == IInv /\ UInv /\ generate_repodata => UInv'
<1> SUFFICES ASSUME IInv, UInv, generate_repodata PROVE UInv'
  OBVIOUS
<1> USE RepodataAssumption DEF IInv, TypeOK, JobInv
<1>1. /\ Generating /\ job \in Job
      /\ UNCHANGED <<info, conf, releasever>>
      /\ pc' \in {"updateinfo", "modules", "done", "over"}
      /\ pc' # "over" => UNCHANGED <<job, todo>>
      /\ pc' = "over" => todo' = {}
      /\ \A x \in Place \X Dir : x # Target => md'[x] = md[x]
      /\ generated \subseteq generated'
      /\ pc' # "done" => generated' = generated
  BY DEF generate_repodata, Createrepo, AddUpdateinfo, AddModules, GoTo, Raise,
         Generating, Marked
<1>2. Target[2] = Subst(job.repo, releasever) /\ Target \in Place \X Dir
  BY <1>1, SubstInDir DEF Target, get_substituted_path, Job, RepoInfo, Generating
<1>3. CASE pc' = "over"
  BY <1>1, <1>3 DEF UInv, CopyInv, DoneInv, ShapeInv, KnownInv, BackedInv,
                    Followed, Generating
<1>4. CASE pc' # "over"
  <2>1. \A q \in Repo : Followed(q)' <=> Followed(q)
    BY <1>1, <1>4 DEF Followed, Generating
  <2>2. \A q \in Repo : Running(q) => Running(q)' \/ pc' = "done"
    BY <1>1, <1>4 DEF Running, Generating
  <2>3. pc' = "done" => /\ ~info[job.repo].copied => Target[2] \in generated'
                        /\ md'[Target] \in {"full", "allowed"}
    <3> SUFFICES ASSUME pc' = "done"
                 PROVE  /\ ~info[job.repo].copied => Target[2] \in generated'
                        /\ md'[Target] \in {"full", "allowed"}
      OBVIOUS
    <3>1. AddModules
      BY DEF generate_repodata, Createrepo, AddUpdateinfo, GoTo, Raise
    <3> QED
      BY <1>2, <3>1 DEF AddModules, GoTo, Raise, Marked, PhaseInv
  <2>4. \A q \in Repo : Awaited(q) => Awaited(q)' \/ Subst(q, releasever) \in generated'
    BY <1>1, <1>2, <2>2, <2>3 DEF Awaited, Running
  <2>5. \A q \in Repo : \A u : Served(q, u) => Served(q, u)'
    BY <1>1, <2>4 DEF Served, Subst
  <2>6. \A q \in Repo : \A u : Backed(q, u) => Backed(q, u)'
    <3> SUFFICES ASSUME NEW q \in Repo, NEW u, Backed(q, u)
                 PROVE  Backed(q, u)'
      OBVIOUS
    <3>1. CASE Served(q, u)
      BY <2>5, <3>1 DEF Backed
    <3>2. CASE u = FileUrl("shared", q) /\ (\/ Subst(q, releasever) \in generated
                                            \/ q \in todo \/ Awaited(q))
      BY <1>1, <1>4, <2>4, <3>2 DEF Backed, FileUrl, Subst
    <3>3. CASE info[q].copied /\ u \in CopyUrl(q)
      BY <1>1, <3>3 DEF Backed, CopyUrl, FileUrl, ServedUrl, Subst
    <3> QED
      BY <3>1, <3>2, <3>3 DEF Backed
  <2>7. CopyInv'
    <3> SUFFICES ASSUME NEW q \in Repo, Followed(q), info[q].copied, ~Running(q)'
                 PROVE  md'[CopyDir(q)] \in {"full", "outdated", "allowed"}
      BY <1>1, <2>1 DEF CopyInv, Good, CopyDir, Subst
    <3>1. CASE Running(q)
      <4>1. Target = CopyDir(q)
        BY <3>1, <1>1 DEF Target, get_substituted_path, CopyDir, Subst, Running,
                          Followed, Generating
      <4> QED
        BY <2>2, <2>3, <3>1, <4>1
    <3>2. CASE ~Running(q)
      <4>1. CopyDir(q) # Target /\ CopyDir(q) \in Place \X Dir
        BY <1>1, <1>2, <3>2, SubstInDir DEF CopyDir, Subst, Running, Place
      <4>2. Good(CopyDir(q))
        BY <3>2 DEF UInv, CopyInv
      <4> QED
        BY <1>1, <4>1, <4>2 DEF Good
    <3> QED
      BY <3>1, <3>2
  <2>8. DoneInv'
    BY <1>1, <1>2, <1>4, <2>3 DEF DoneInv, Target, get_substituted_path, Subst
  <2>9. ShapeInv'
    BY <1>1, <2>1, <2>5 DEF UInv, ShapeInv, CopyUrl, FileUrl, ServedUrl, Subst
  <2>10. KnownInv'
    BY <1>1, <1>4 DEF UInv, KnownInv
  <2>11. BackedInv'
    <3> SUFFICES ASSUME NEW q \in Repo, Followed(q), NEW u,
                        \/ conf[q] # NoUrl /\ u = conf[q]
                        \/ info[q].active /\ u = info[q].baseurl
                 PROVE  Backed(q, u)'
      BY <1>1, <2>1 DEF BackedInv, Backed, Served, NoUrl, CopyUrl, FileUrl, ServedUrl, Subst
    <3>1. Backed(q, u)
      BY DEF UInv, BackedInv
    <3> QED
      BY <2>6, <3>1
  <2> QED
    BY <2>7, <2>8, <2>9, <2>10, <2>11 DEF UInv
<1> QED
  BY <1>3, <1>4

(* Between the calls nothing awaits repodata but what todo holds.          *)
LEMMA QuietBacks ==
  ASSUME IInv, UInv, ~Generating, ~Generating', pc' # "done",
         NEW q \in Repo, Followed(q), info'[q].copied = info[q].copied,
         UNCHANGED generated, todo' = todo, releasever' = releasever, NEW u
  PROVE  /\ Served(q, u) => Served(q, u)'
         /\ Backed(q, u) => Backed(q, u)'
<1>1. Served(q, u) => Served(q, u)'
  BY DEF Served, Awaited, Running
<1>2. CASE u = FileUrl("shared", q) /\ (Subst(q, releasever) \in generated \/ q \in todo)
  BY <1>1, <1>2 DEF Backed, FileUrl, Subst
<1>3. CASE info[q].copied /\ u \in CopyUrl(q)
  BY <1>1, <1>3 DEF Backed, CopyUrl, FileUrl, ServedUrl, Subst
<1> QED
  BY <1>1, <1>2, <1>3 DEF Backed, Awaited, Running

(* A step between the calls that leaves the baseurl of every repository,   *)
(* and its copy, as they were: what a file may now say is its baseurl.     *)
LEMMA FileBacks ==
  ASSUME IInv, UInv, pc \in {"idle", "done"}, pc' = "idle",
         UNCHANGED <<generated, todo, releasever>>,
         \A q \in Repo : /\ info'[q].copied = info[q].copied
                         /\ info'[q].baseurl = info[q].baseurl
                         /\ info[q].known => info'[q].known
                         /\ info[q].copied /\ Good(CopyDir(q)) => Good(CopyDir(q))'
                         /\ conf'[q] # NoUrl => info'[q].known
                         /\ info'[q].active => info'[q].known,
         \A q \in Repo : Followed(q) =>
           /\ conf'[q] \in {NoUrl, conf[q]} \/ Backed(q, conf'[q])
           /\ info'[q].active => info[q].active \/ Backed(q, info[q].baseurl)
  PROVE  UInv'
<1> USE RepodataAssumption DEF IInv, TypeOK, JobInv
<1>1. ~Generating /\ ~Generating' /\ \A q \in Repo : Followed(q)' <=> Followed(q)
  BY DEF Generating, Followed
<1>2. CopyInv'
  BY <1>1 DEF UInv, CopyInv, Running
<1>3. DoneInv'
  BY DEF DoneInv
<1>4. ShapeInv'
  <2> SUFFICES ASSUME NEW q \in Repo, Followed(q), NEW u, u = info[q].baseurl
               PROVE  IF info[q].copied THEN u \in CopyUrl(q)
                      ELSE u = FileUrl("shared", q) \/ Served(q, u)'
    BY <1>1 DEF ShapeInv, CopyUrl, FileUrl, ServedUrl, Served, Subst
  <2>1. IF info[q].copied THEN u \in CopyUrl(q)
        ELSE u = FileUrl("shared", q) \/ Served(q, u)
    BY DEF UInv, ShapeInv
  <2> QED
    BY <1>1, <2>1, QuietBacks
<1>5. KnownInv'
  BY <1>1 DEF UInv, KnownInv
<1>6. BackedInv'
  <2> SUFFICES ASSUME NEW q \in Repo, Followed(q), NEW u,
                      \/ conf'[q] # NoUrl /\ u = conf'[q]
                      \/ info'[q].active /\ u = info[q].baseurl
               PROVE  Backed(q, u)'
    BY <1>1 DEF BackedInv, Backed, Served, NoUrl, CopyUrl, FileUrl, ServedUrl, Subst
  <2>1. Backed(q, u)
    BY DEF UInv, BackedInv
  <2> QED
    BY <1>1, <2>1, QuietBacks
<1> QED
  BY <1>2, <1>3, <1>4, <1>5, <1>6 DEF UInv

(* copy_repository: the copy of remembered repodata is complete.           *)
LEMMA CopyBacks == IInv /\ UInv /\ ReturnCopy => UInv'
<1> SUFFICES ASSUME IInv, UInv, ReturnCopy PROVE UInv'
  OBVIOUS
<1> USE RepodataAssumption DEF IInv, TypeOK, JobInv
<1> DEFINE r == job.repo
<1>1. /\ r \in Repo /\ ~Generating /\ ~Generating' /\ pc' \in {"idle", "over"}
      /\ UNCHANGED <<generated, conf, releasever, todo>>
      /\ CopyTarget \in Place \X Dir /\ Target \in Place \X Dir
  BY SubstInDir DEF ReturnCopy, Generating, Job, CopyTarget, Place, Target,
                    get_substituted_path, RepoInfo
<1>2. \A q \in Repo : /\ info'[q].active = info[q].active /\ info'[q].known = info[q].known
                      /\ q # r => info'[q] = info[q]
  <2> DEFINE copied == [info[r] EXCEPT !.path = "copy", !.copied = TRUE,
                                       !.baseurl = FileUrl("copy", r)]
             moved == [info[r] EXCEPT !.path = "copy"]
  <2>1. /\ copied.active = info[r].active /\ copied.known = info[r].known
        /\ moved.active = info[r].active /\ moved.known = info[r].known
    BY <1>1 DEF RepoInfo
  <2>2. info' = [info EXCEPT ![r] = copied] \/ info' = [info EXCEPT ![r] = moved]
    BY DEF ReturnCopy
  <2> HIDE DEF copied, moved
  <2> QED
    BY <1>1, <2>1, <2>2
<1>3. KnownInv'
  BY <1>1, <1>2 DEF UInv, KnownInv
<1>4. CASE pc' = "over"
  BY <1>3, <1>4 DEF UInv, CopyInv, DoneInv, ShapeInv, BackedInv, Followed
<1>5. CASE pc' = "idle"
  <2>1. /\ md[CopyTarget] = "none" /\ md[Target] # "none"
        /\ md' = [md EXCEPT ![CopyTarget] = md[Target]]
        /\ info' = [info EXCEPT ![r] = [@ EXCEPT !.path = "copy", !.copied = TRUE,
                                                 !.baseurl = FileUrl("copy", r)]]
    BY <1>5 DEF ReturnCopy
  <2>2. info'[r].copied /\ info'[r].baseurl = FileUrl("copy", r)
    BY <1>1, <2>1 DEF RepoInfo
  <2>3. ~info[r].copied
    BY <1>1, <2>1 DEF Target, CopyTarget, get_substituted_path, ReturnCopy
  <2>4. Target = <<"shared", Subst(r, releasever)>>
    BY <1>1, <2>3 DEF Target, get_substituted_path, ReturnCopy
  <2>5. md[Target] \in {"full", "allowed"}
    BY <2>3, <2>4 DEF UInv, DoneInv, ReturnCopy, CacheIsTrue
  <2>6. \A q \in Repo : Followed(q)' => Followed(q)
    BY <1>2, <2>3, <1>5 DEF Followed, ReturnCopy
  <2>7. CopyInv'
    <3> SUFFICES ASSUME NEW q \in Repo, Followed(q)', info'[q].copied
                 PROVE  md'[CopyDir(q)] \in {"full", "outdated", "allowed"}
      BY DEF CopyInv, Good, CopyDir, Subst
    <3>1. CASE q = r
      <4>1. CopyDir(q) = CopyTarget
        BY <3>1 DEF CopyDir, CopyTarget, Subst, Followed
      <4> QED
        BY <1>1, <2>1, <2>5, <4>1
    <3>2. CASE q # r
      <4>1. CopyDir(q) # CopyTarget /\ CopyDir(q) \in Place \X Dir
        BY <3>2, SubstInDir DEF CopyDir, CopyTarget, Subst, Place
      <4>2. Good(CopyDir(q))
        BY <1>1, <1>2, <2>6, <3>2 DEF UInv, CopyInv, Running
      <4> QED
        BY <1>1, <2>1, <4>1, <4>2 DEF Good
    <3> QED
      BY <3>1, <3>2
  <2>8. DoneInv'
    BY <1>5 DEF DoneInv
  <2>9. ShapeInv'
    <3> SUFFICES ASSUME NEW q \in Repo, Followed(q)', NEW u, u = info'[q].baseurl
                 PROVE  IF info'[q].copied THEN u \in CopyUrl(q)
                        ELSE u = FileUrl("shared", q) \/ Served(q, u)'
      BY DEF ShapeInv, CopyUrl, FileUrl, ServedUrl, Served, Subst
    <3>1. CASE q = r
      BY <2>2, <3>1 DEF CopyUrl
    <3>2. CASE q # r
      <4>1. IF info[q].copied THEN u \in CopyUrl(q)
            ELSE u = FileUrl("shared", q) \/ Served(q, u)
        BY <1>2, <2>6, <3>2 DEF UInv, ShapeInv
      <4>2. info'[q].copied = info[q].copied
        BY <1>2, <3>2
      <4> QED
        BY <1>1, <1>5, <2>6, <4>1, <4>2, QuietBacks
    <3> QED
      BY <3>1, <3>2
  <2>10. BackedInv'
    <3> SUFFICES ASSUME NEW q \in Repo, Followed(q)', NEW u,
                        \/ conf[q] # NoUrl /\ u = conf[q]
                        \/ info[q].active /\ u = info'[q].baseurl
                 PROVE  Backed(q, u)'
      BY <1>1, <1>2 DEF BackedInv, Backed, Served, NoUrl, CopyUrl, FileUrl, ServedUrl, Subst
    <3>1. CASE q = r
      <4>1. CASE u = FileUrl("copy", q)
        BY <2>2, <3>1, <4>1 DEF Backed, CopyUrl, FileUrl, ServedUrl, Subst
      <4>2. CASE conf[q] # NoUrl /\ u = conf[q]
        <5>1. Backed(q, u)
          BY <2>6, <4>2 DEF UInv, BackedInv
        <5>2. q \notin todo
          BY <2>2, <3>1 DEF Followed
        <5>3. u = FileUrl("shared", q) => Subst(q, releasever) \in generated
          BY <1>1, <2>3, <2>4, <3>1 DEF UInv, DoneInv, ReturnCopy
        <5>4. Served(q, u) => Served(q, u)'
          BY <1>1 DEF Served, Awaited, Running
        <5> QED
          BY <1>1, <2>3, <3>1, <5>1, <5>3, <5>4 DEF Backed, FileUrl, Subst
      <4> QED
        BY <2>2, <3>1, <4>1, <4>2
    <3>2. CASE q # r
      <4>1. info'[q].copied = info[q].copied /\ info'[q].baseurl = info[q].baseurl
        BY <1>2, <3>2
      <4>2. Backed(q, u)
        BY <2>6, <4>1 DEF UInv, BackedInv
      <4> QED
        BY <1>1, <1>5, <2>6, <4>1, <4>2, QuietBacks
    <3> QED
      BY <3>1, <3>2
  <2> QED
    BY <1>3, <2>7, <2>8, <2>9, <2>10 DEF UInv
<1> QED
  BY <1>1, <1>4, <1>5

(* The steps that do not call generate_repodata, but start with no call.   *)
LEMMA StepBacks == IInv /\ UInv /\ [Next]_vars => UInv'
<1> SUFFICES ASSUME IInv, UInv, [Next]_vars PROVE UInv'
  OBVIOUS
<1> USE RepodataAssumption
<1>1. TypeOK /\ JobInv
  BY DEF IInv
<1>2. CASE UNCHANGED vars
  <2> USE <1>2 DEF vars
  <2>1. CopyInv' /\ DoneInv'
    BY DEF UInv, CopyInv, DoneInv, Running, Good, CopyDir, Subst, Generating, Followed,
           Target, get_substituted_path
  <2>2. \A r \in Repo : \A u : (Served(r, u) => Served(r, u)') /\ (Backed(r, u) => Backed(r, u)')
    BY DEF Backed, Served, Awaited, Running, CopyUrl, FileUrl, ServedUrl, Subst, Generating
  <2>3. ShapeInv'
    BY <2>2 DEF UInv, ShapeInv, CopyUrl, FileUrl, ServedUrl, Subst, Followed
  <2>4. KnownInv'
    BY DEF UInv, KnownInv, Generating, NoUrl
  <2>5. BackedInv'
    BY <2>2 DEF UInv, BackedInv, NoUrl, Followed
  <2> QED
    BY <2>1, <2>3, <2>4, <2>5 DEF UInv
<1>3. ASSUME NEW r \in Repo
      PROVE  \A q \in Repo : /\ Known(r)[q].copied = info[q].copied
                             /\ Known(r)[q].active = info[q].active
                             /\ info[q].known => Known(r)[q].known
                             /\ Known(r)[q].baseurl = info[q].baseurl
                             /\ Known(r)[r].known
  BY <1>1 DEF Known, TypeOK, RepoInfo
<1>4. ASSUME NEW r \in Repo, ScenarioStep(r)
      PROVE  UInv'
  <2>1. CASE UseRepository(r)
    BY <2>1, <1>3, GenerateBacks DEF UseRepository, Idle, After
  <2>2. CASE UseGeneratedWithExitCode(r)
    BY <2>2, <1>3, GenerateBacks DEF UseGeneratedWithExitCode, Idle, After
  <2>3. CASE UseAs(r)
    <3> DEFINE url == ServedUrl(info[r].path, Subst(r, releasever))
    <3>1. info' = [Known(r) EXCEPT ![r] = [@ EXCEPT !.baseurl = url]]
      BY <2>3 DEF UseAs, get_substituted_path
    <3>2. Known(r) \in [Repo -> RepoInfo]
      BY <1>1 DEF Known, TypeOK, RepoInfo
    <3>3. \A q \in Repo : /\ info'[q].copied = Known(r)[q].copied
                          /\ info'[q].active = Known(r)[q].active
                          /\ info'[q].known = Known(r)[q].known
                          /\ info'[q].baseurl = IF q = r THEN url ELSE Known(r)[q].baseurl
      BY <3>1, <3>2 DEF RepoInfo
    <3> HIDE DEF url
    <3>4. \A q \in Repo : /\ info'[q].copied = info[q].copied
                          /\ info'[q].active = info[q].active
                          /\ info[q].known => info'[q].known
                          /\ info'[q].baseurl = info[q].baseurl
                             \/ (q = r /\ info'[q].baseurl = url)
                          /\ info'[r].known
      BY <1>3, <3>3
    <3> QED
      BY <2>3, <3>4, GenerateBacks, ZenonT(40) DEF UseAs, Idle, After, url
  <2>4. CASE GenerateExplicitly(r)
    BY <2>4, <1>3, GenerateBacks DEF GenerateExplicitly, Idle, After
  <2>5. CASE GenerateExtra(r)
    <3>1. CASE info[r].copied
      BY <2>5, <3>1, <1>3, GenerateBacks DEF GenerateExtra, Idle, After
    <3>2. CASE ~info[r].copied
      BY <2>5, <3>2, <1>1, <1>3 DEF TypeOK, GenerateExtra, UInv, CopyInv, DoneInv, ShapeInv,
         KnownInv, BackedInv, Followed, Generating
    <3> QED
      BY <3>1, <3>2
  <2>6. CASE CopyRepository(r)
    BY <2>6, <1>3, GenerateBacks DEF CopyRepository, Idle, After
  <2>7. CASE ModifyCopy(r)
    <3>1. \A q \in Repo : Good(CopyDir(q)) => Good(CopyDir(q))'
      BY <2>7, <1>1, SubstInDir
      DEF ModifyCopy, TypeOK, Good, CopyDir, Subst, Place
    <3> QED
      BY <2>7, <3>1, FileBacks DEF ModifyCopy, Idle, scenarioVars, UInv, KnownInv
  <2>8. CASE Configure(r)
    <3>1. \A q \in Repo : /\ Good(CopyDir(q)) => Good(CopyDir(q))'
                          /\ conf'[q] = conf[q] \/ (info[q].active /\ conf'[q] = info[q].baseurl)
      BY <2>8, <1>1 DEF Configure, Good, CopyDir, Subst, TypeOK
    <3>2. \A q \in Repo : Followed(q) =>
            /\ conf'[q] \in {NoUrl, conf[q]} \/ Backed(q, conf'[q])
            /\ info'[q].active => info[q].active \/ Backed(q, info[q].baseurl)
      <4> SUFFICES ASSUME NEW q \in Repo, Followed(q)
                   PROVE  conf'[q] = conf[q] \/ Backed(q, conf'[q])
        BY <2>8, <1>3 DEF Configure
      <4>1. CASE info[q].active /\ conf'[q] = info[q].baseurl
        <5>1. Backed(q, info[q].baseurl)
          BY <4>1 DEF UInv, BackedInv
        <5> QED
          BY <4>1, <5>1
      <4> QED
        BY <3>1, <4>1
    <3> QED
      BY <2>8, <1>3, <3>1, <3>2, FileBacks DEF Configure, Idle, UInv, KnownInv
  <2>9. CASE Drop(r)
    <3>1. CASE info[r].known
      <4> DEFINE dropped == [info[r] EXCEPT !.active = FALSE]
      <4>1. /\ dropped.known = info[r].known /\ dropped.copied = info[r].copied
            /\ dropped.baseurl = info[r].baseurl /\ ~dropped.active
        BY <1>1 DEF TypeOK, RepoInfo
      <4>2. info' = [info EXCEPT ![r] = dropped]
        BY <2>9, <3>1 DEF Drop
      <4> HIDE DEF dropped
      <4>3. \A q \in Repo : /\ info'[q].copied = info[q].copied
                            /\ info'[q].baseurl = info[q].baseurl
                            /\ info'[q].known = info[q].known
                            /\ info'[q].active => info[q].active
                            /\ conf'[q] \in {NoUrl, conf[q]}
        BY <2>9, <3>1, <4>1, <4>2, <1>1 DEF Drop, TypeOK
      <4>4. \A q \in Repo : Good(CopyDir(q)) => Good(CopyDir(q))'
        BY <2>9 DEF Drop, Good, CopyDir, Subst
      <4> QED
        BY <2>9, <3>1, <4>3, <4>4, FileBacks DEF Drop, Idle, UInv, KnownInv
    <3>2. CASE ~info[r].known
      BY <2>9, <3>2 DEF Drop, UInv, CopyInv, DoneInv, ShapeInv,
         KnownInv, BackedInv, Followed, Generating, Idle
    <3> QED
      BY <3>1, <3>2
  <2> QED
    BY <1>4, <2>1, <2>2, <2>3, <2>4, <2>5, <2>6, <2>7, <2>8, <2>9 DEF ScenarioStep
<1>5. ASSUME NEW rel \in Release, SetReleasever(rel)
      PROVE  UInv'
  <2>1. /\ pc = "idle" /\ pc' = "idle" /\ todo = {}
        /\ UNCHANGED <<generated, md, info, conf, job>>
        /\ todo' = {r \in WithRelease : info[r].known}
    BY <1>5 DEF SetReleasever, Idle, ReleaseRepos
  <2>2. \A q \in Repo : Followed(q)' <=> Followed(q)
    BY <2>1 DEF Followed
  <2>3. \A q \in Repo : q \notin WithRelease => Subst(q, releasever') = Subst(q, releasever)
    BY DEF Subst
  <2>4. \A q \in Repo : \A u : Served(q, u) => Served(q, u)'
    BY <2>1 DEF Served, Awaited, Running, Generating
  <2>5. CopyInv' /\ DoneInv'
    BY <2>1, <2>2 DEF UInv, CopyInv, DoneInv, Good, CopyDir, Subst, Running, Generating
  <2>6. ShapeInv'
    BY <2>1, <2>2, <2>4 DEF UInv, ShapeInv, CopyUrl, FileUrl, ServedUrl, Subst
  <2>7. KnownInv'
    BY <2>1 DEF UInv, KnownInv, Generating
  <2>8. BackedInv'
    <3> SUFFICES ASSUME NEW q \in Repo, Followed(q), NEW u, info[q].known,
                        \/ conf[q] # NoUrl /\ u = conf[q]
                        \/ info[q].active /\ u = info[q].baseurl
                 PROVE  Backed(q, u)'
      BY <2>1, <2>2 DEF BackedInv, Backed, Served, NoUrl, CopyUrl, FileUrl, ServedUrl,
                        Subst, UInv, KnownInv
    <3>1. Backed(q, u)
      BY DEF UInv, BackedInv
    <3>2. CASE Served(q, u)
      BY <2>4, <3>2 DEF Backed
    <3>3. CASE u = FileUrl("shared", q) /\ Subst(q, releasever) \in generated
      BY <2>1, <2>3, <3>3 DEF Backed, FileUrl, Subst
    <3>4. CASE info[q].copied /\ u \in CopyUrl(q)
      BY <2>1, <3>4 DEF Backed, CopyUrl, FileUrl, ServedUrl, Subst
    <3> QED
      BY <2>1, <3>1, <3>2, <3>3, <3>4 DEF Backed, Awaited, Running, Generating
  <2> QED
    BY <2>5, <2>6, <2>7, <2>8 DEF UInv
<1>6. CASE GenerateNext
  <2>1. PICK r \in todo : /\ todo' = todo \ {r}
                          /\ Generate(r, FALSE, FALSE, "ok", "nothing")
    BY <1>6 DEF GenerateNext
  <2>2. r \in Repo /\ info[r].known
    BY <1>1 DEF TypeOK, UInv, KnownInv
  <2> QED
    BY <1>6, <2>1, <2>2, GenerateBacks DEF GenerateNext, After
<1>7. CASE ReturnNothing
  <2>1. \A q \in Repo : Good(CopyDir(q)) => Good(CopyDir(q))'
    BY <1>7 DEF ReturnNothing, Good, CopyDir, Subst
  <2> QED
    BY <1>7, <2>1, FileBacks DEF ReturnNothing, UInv, KnownInv
<1>8. CASE ReturnUse
  <2> DEFINE r == job.repo
             used == [info[r] EXCEPT !.active = TRUE]
  <2>1. r \in Repo
    BY <1>1, <1>8 DEF ReturnUse, JobInv, Job
  <2>2. /\ used.known = info[r].known /\ used.copied = info[r].copied
        /\ used.baseurl = info[r].baseurl
    BY <1>1, <2>1 DEF TypeOK, RepoInfo
  <2>3. info' = [info EXCEPT ![r] = used]
    BY <1>8 DEF ReturnUse
  <2> HIDE DEF used
  <2>4. \A q \in Repo : /\ info'[q].copied = info[q].copied
                        /\ info'[q].baseurl = info[q].baseurl
                        /\ info'[q].known = info[q].known
                        /\ q # r => info'[q] = info[q] /\ conf'[q] = conf[q]
                        /\ q = r => conf'[q] = info[q].baseurl
                        /\ Good(CopyDir(q)) => Good(CopyDir(q))'
    BY <1>1, <1>8, <2>1, <2>2, <2>3 DEF ReturnUse, TypeOK, Good, CopyDir, Subst
  <2>5. Followed(r) => Backed(r, info[r].baseurl)
    <3>1. ~info[r].copied => Subst(r, releasever) \in generated
      BY <1>8 DEF ReturnUse, UInv, DoneInv, Target, get_substituted_path
    <3> QED
      BY <2>1, <3>1 DEF UInv, ShapeInv, Backed
  <2>6. info[r].known
    BY <1>8 DEF ReturnUse, UInv, KnownInv
  <2>7. \A q \in Repo : Followed(q) =>
          /\ conf'[q] \in {NoUrl, conf[q]} \/ Backed(q, conf'[q])
          /\ info'[q].active => info[q].active \/ Backed(q, info[q].baseurl)
    <3> SUFFICES ASSUME NEW q \in Repo, Followed(q)
                 PROVE  /\ conf'[q] \in {NoUrl, conf[q]} \/ Backed(q, conf'[q])
                        /\ info'[q].active => info[q].active \/ Backed(q, info[q].baseurl)
      OBVIOUS
    <3>1. CASE q = r
      <4>1. conf'[q] = info[q].baseurl /\ Backed(q, info[q].baseurl)
        BY <2>4, <2>5, <3>1
      <4> QED
        BY <4>1
    <3>2. CASE q # r
      BY <2>4, <3>2
    <3> QED
      BY <3>1, <3>2
  <2>8. \A q \in Repo : /\ conf'[q] # NoUrl => info'[q].known
                        /\ info'[q].active => info'[q].known
    BY <2>4, <2>6 DEF UInv, KnownInv
  <2> QED
    BY <1>8, <2>4, <2>7, <2>8, FileBacks DEF ReturnUse
<1>9. CASE NewDNFContext
  <2>1. /\ pc' = "idle" /\ todo' = {}
        /\ \A r \in Repo : /\ ~info'[r].copied /\ ~info'[r].active
                           /\ info'[r].baseurl = FileUrl("shared", r)
                           /\ conf'[r] = NoUrl
    BY <1>9 DEF NewDNFContext, NewInfos, NewInfo, NoConf
  <2> QED
    BY <2>1 DEF UInv, CopyInv, DoneInv, ShapeInv, KnownInv, BackedInv, Generating,
                FileUrl, NoUrl
<1> QED
  BY <1>2, <1>4, <1>5, <1>6, <1>7, <1>8, <1>9, CallBacks, CopyBacks
  DEF Next, Return, NextScenario, NextRun

(* Between steps the file of a repository points to repodata that this run *)
(* generated, or to a copy of them, whatever happened in the scenarios     *)
(* before: any number of repositories, releases, scenarios and runs        *)
(* (repo.py:141-146, 183-221).                                             *)
THEOREM GeneratedIsUsed == Spec => []UsedIsGenerated
<1>1. IInv /\ UInv => UsedIsGenerated
  <2> SUFFICES ASSUME IInv, UInv, Idle, NEW r \in Repo, conf[r] # NoUrl,
                      info[r].copied => r \notin WithRelease
               PROVE  Good(Resolved(conf[r]))
    BY DEF UsedIsGenerated, Good
  <2> USE RepodataAssumption
  <2>1. Followed(r) /\ ~Running(r) /\ todo = {}
    BY DEF Followed, Running, Idle, Generating
  <2>2. Backed(r, conf[r])
    BY <2>1 DEF UInv, BackedInv
  <2>3. \A d \in generated : Good(<<"shared", d>>)
    BY DEF IInv, CacheIsTrue, Good
  <2>4. CASE conf[r] = FileUrl("shared", r) /\ Subst(r, releasever) \in generated
    BY <2>3, <2>4 DEF Resolved, FileUrl
  <2>5. CASE Served(r, conf[r])
    BY <2>1, <2>3, <2>5 DEF Served, Awaited, Resolved, ServedUrl
  <2>6. CASE info[r].copied /\ conf[r] \in CopyUrl(r)
    <3>1. Good(CopyDir(r))
      BY <2>1, <2>6 DEF UInv, CopyInv
    <3> QED
      BY <2>6, <3>1 DEF CopyUrl, CopyDir, Resolved, FileUrl, ServedUrl, Subst
  <2> QED
    BY <2>1, <2>2, <2>4, <2>5, <2>6 DEF Backed, Awaited
<1>2. Spec => []UInv
  BY Invariant, InitUInv, StepBacks, PTL DEF Spec
<1> QED
  BY <1>1, <1>2, Invariant, PTL
=============================================================================
