--------------------------- MODULE SuiteRun_proofs --------------------------
(***************************************************************************)
(* What `container-test run` promises about its containers and its         *)
(* verdict, for any feature files, any tags and any command line.          *)
(***************************************************************************)
EXTENDS SuiteRun, Recursion, FiniteSetTheorems, TLAPS

----------------------------------------------------------------------------
(* Sequences of scenarios and what is filtered out of them.                *)
LEMMA AppendOne ==
  ASSUME NEW S, NEW s \in Seq(S), NEW x \in S
  PROVE  /\ Append(s, x) \in Seq(S)
         /\ Range(Append(s, x)) = Range(s) \cup {x}
         /\ IsInjective(s) /\ x \notin Range(s) => IsInjective(Append(s, x))
<1>1. /\ Append(s, x) \in Seq(S)
      /\ Len(Append(s, x)) = Len(s) + 1
      /\ DOMAIN s = 1..Len(s) /\ DOMAIN Append(s, x) = 1..(Len(s) + 1)
      /\ \A i \in 1..Len(s) : Append(s, x)[i] = s[i]
      /\ Append(s, x)[Len(s) + 1] = x
      /\ Len(s) \in Nat
  OBVIOUS
<1>2. Range(Append(s, x)) = Range(s) \cup {x}
  BY <1>1 DEF Range
<1>3. IsInjective(s) /\ x \notin Range(s) => IsInjective(Append(s, x))
  BY <1>1 DEF IsInjective, Range
<1> QED
  BY <1>1, <1>2, <1>3

(* Filtered goes through the sequence from its start.                      *)
LEMMA FilteredIs ==
  ASSUME NEW S, NEW seq \in Seq(S), NEW T
  PROVE  \E h :
           /\ h[Len(seq)] = Filtered(seq, T) /\ h[0] = <<>>
           /\ \A i \in 1..Len(seq) :
                h[i] = IF seq[i] \in T THEN Append(h[i - 1], seq[i]) ELSE h[i - 1]
<1> DEFINE n == Len(seq)
           Q == Seq(S)
           step == [x \in Q \X Nat |->
                      IF x[2] \in 1..n /\ seq[x[2]] \in T
                      THEN Append(x[1], seq[x[2]]) ELSE x[1]]
           body(f) == [i \in 0..n |->
                         IF i = 0 THEN <<>>
                         ELSE IF seq[i] \in T THEN Append(f[i - 1], seq[i])
                              ELSE f[i - 1]]
<1>1. n \in Nat /\ \A i \in 1..n : seq[i] \in S
  OBVIOUS
<1>2. <<>> \in Q
  OBVIOUS
<1>3. step \in [Q \X Nat -> Q]
  <2>1. ASSUME NEW x \in Q \X Nat PROVE step[x] \in Q
    <3>1. x[1] \in Seq(S)
      OBVIOUS
    <3>2. ASSUME x[2] \in 1..n PROVE Append(x[1], seq[x[2]]) \in Seq(S)
      <4>1. seq[x[2]] \in S
        BY <1>1, <3>2
      <4> QED
        BY <3>1, <4>1, AppendOne
    <3> QED
      BY <3>1, <3>2
  <2> QED
    BY <2>1
<1>4. \E g \in [0..n -> Q] : IsIteration(g, n, <<>>, step)
  <2> HIDE DEF Q, n, step
  <2> QED
    BY <1>1, <1>2, <1>3, Iteration
<1>5. PICK g \in [0..n -> Q] :
        g[0] = <<>> /\ \A i \in 1..n : g[i] = step[<<g[i - 1], i>>]
  BY <1>4 DEF IsIteration
<1>6. ASSUME NEW i \in 1..n
      PROVE  g[i] = IF seq[i] \in T THEN Append(g[i - 1], seq[i]) ELSE g[i - 1]
  <2>1. i - 1 \in 0..n /\ i \in Nat
    BY <1>1
  <2>2. <<g[i - 1], i>> \in Q \X Nat
    BY <2>1
  <2>3. g[i] = step[<<g[i - 1], i>>]
    BY <1>5
  <2> HIDE DEF Q
  <2> QED
    BY <2>2, <2>3
<1>7. g = body(g)
  <2>1. \A i \in 0..n : i = 0 \/ i \in 1..n
    BY <1>1
  <2>2. g[0] = <<>>
    BY <1>5
  <2> HIDE DEF Q
  <2> QED
    BY <1>6, <2>1, <2>2
<1> DEFINE h == CHOOSE f : f = body(f)
<1>8. Filtered(seq, T) = h[n]
  BY DEF Filtered
<1>9. h = body(h)
  <2> HIDE DEF body
  <2> QED
    BY <1>7
<1>10. h = [i \in 0..n |-> IF i = 0 THEN <<>>
                           ELSE IF seq[i] \in T THEN Append(h[i - 1], seq[i])
                                ELSE h[i - 1]]
  BY <1>9
<1> HIDE DEF h
<1>11. h[0] = <<>>
  BY <1>1, <1>10
<1>12. ASSUME NEW i \in 1..n
       PROVE  h[i] = IF seq[i] \in T THEN Append(h[i - 1], seq[i]) ELSE h[i - 1]
  <2>1. i \in 0..n /\ i # 0
    BY <1>1
  <2> HIDE DEF n
  <2> QED
    BY <1>10, <2>1
<1> QED
  BY <1>8, <1>11, <1>12

(* It keeps what is in T, nothing else, and each as often as it was there. *)
LEMMA FilterKeeps ==
  ASSUME NEW S, NEW seq \in Seq(S), NEW T
  PROVE  /\ Filtered(seq, T) \in Seq(S)
         /\ Range(Filtered(seq, T)) = Range(seq) \cap T
         /\ IsInjective(seq) => IsInjective(Filtered(seq, T))
<1> DEFINE n == Len(seq)
           Met(k) == {seq[j] : j \in 1..k}
           Right(q, k) == /\ q \in Seq(S)
                          /\ Range(q) = Met(k) \cap T
                          /\ IsInjective(seq) => IsInjective(q)
<1>1. n \in Nat /\ DOMAIN seq = 1..n /\ \A i \in 1..n : seq[i] \in S
  OBVIOUS
<1>2. PICK h :
        /\ h[n] = Filtered(seq, T) /\ h[0] = <<>>
        /\ \A i \in 1..n :
             h[i] = IF seq[i] \in T THEN Append(h[i - 1], seq[i]) ELSE h[i - 1]
  BY FilteredIs
<1> DEFINE P == {k \in Nat : k <= n => Right(h[k], k)}
<1>3. 0 \in P
  <2>1. Range(<<>>) = {} /\ IsInjective(<<>>) /\ <<>> \in Seq(S) /\ Met(0) = {}
    BY DEF Range, IsInjective
  <2> QED
    BY <1>2, <2>1
<1>4. ASSUME NEW k \in P PROVE k + 1 \in P
  <2> SUFFICES ASSUME k + 1 <= n PROVE Right(h[k + 1], k + 1)
    OBVIOUS
  <2>1. k \in Nat /\ Right(h[k], k) /\ k + 1 \in 1..n /\ (k + 1) - 1 = k
    BY <1>1
  <2>2. Met(k + 1) = Met(k) \cup {seq[k + 1]}
    BY <2>1
  <2>3. CASE seq[k + 1] \in T
    <3>1. h[k + 1] = Append(h[k], seq[k + 1])
      BY <1>2, <2>1, <2>3
    <3>2. IsInjective(seq) => seq[k + 1] \notin Met(k)
      BY <1>1, <2>1 DEF IsInjective
    <3>3. seq[k + 1] \in S
      BY <1>1, <2>1
    <3> HIDE DEF Met
    <3> QED
      BY <2>1, <2>2, <2>3, <3>1, <3>2, <3>3, AppendOne
  <2>4. CASE seq[k + 1] \notin T
    <3>1. h[k + 1] = h[k]
      BY <1>2, <2>1, <2>4
    <3> HIDE DEF Met
    <3> QED
      BY <2>1, <2>2, <2>4, <3>1
  <2> QED
    BY <2>3, <2>4
<1>5. P = Nat
  <2> HIDE DEF P
  <2>1. P \subseteq Nat
    BY DEF P
  <2> QED
    BY <1>3, <1>4, <2>1, Induction
<1>6. Right(Filtered(seq, T), n)
  <2>1. n \in P
    BY <1>1, <1>5
  <2>2. n <= n => Right(h[n], n)
    <3> HIDE DEF Right, n
    <3> QED
      BY <2>1
  <2> HIDE DEF Right
  <2> QED
    BY <1>1, <1>2, <2>2
<1>7. Met(n) = Range(seq)
  BY <1>1 DEF Range
<1> QED
  BY <1>6, <1>7

----------------------------------------------------------------------------
(* The state of the runner, and what each feature has still to be run.     *)
Names == {NameOf[s] : s \in Scenario} \cup {Bulk}

RunTypeInv ==
  /\ options \in Options
  /\ tests \in [Feature -> Seq(Scenario)]
  /\ cut \in BOOLEAN
  /\ todo \in Seq(Feature)
  /\ feature \in Feature \cup {NoFeature}
  /\ yields \in Seq(Names)
  /\ box \in Names \cup {NoBox}
  /\ boxes \in Seq([feature : Feature, name : Names, runs : Seq(Scenario)])
  /\ yields # <<>> \/ box # NoBox => feature \in Feature
  /\ exit # "running" => box = NoBox
  /\ exit = "start" => /\ todo = <<>> /\ yields = <<>> /\ boxes = <<>>
                       /\ feature = NoFeature
                       /\ tests = [f \in Feature |-> <<>>]
  /\ exit \in {"ok", "error"} => todo = <<>> /\ yields = <<>>

(* What was read is of the list behave makes, and all of it unless the     *)
(* list was cut short.                                                     *)
ListInv ==
  /\ \A f \in Feature : /\ Range(tests[f]) \subseteq Range(Listed(f))
                        /\ IsInjective(tests[f])
  /\ exit \in {"running", "ok", "error"} /\ ~cut =>
       \A f \in Feature : tests[f] = Listed(f)

(* The names of the containers of f that have been started, and of those   *)
(* that have not.                                                          *)
Started(f) ==
  {boxes[b].name : b \in {c \in DOMAIN boxes : boxes[c].feature = f}}

Due(f) ==
  IF f = feature THEN Range(yields)
  ELSE IF f \in Range(todo) THEN Range(process_feature(f)) ELSE {}

RunsSelected ==
  \A b \in DOMAIN boxes : \A f, n :
    boxes[b].feature = f /\ boxes[b].name = n => boxes[b].runs = Selected(f, n)

(* Every container that process_feature asks for is started or due, never  *)
(* both, and none is started twice.                                        *)
OnceInv ==
  /\ IsInjective(todo) /\ feature \notin Range(todo)
  /\ RunsSelected
  /\ UniqueNames =>
       /\ IsInjective(yields)
       /\ \A a, b \in DOMAIN boxes :
            boxes[a].feature = boxes[b].feature /\ boxes[a].name = boxes[b].name
              => a = b
       /\ \A f \in Feature : Started(f) \cap Due(f) = {}
  /\ exit \in {"running", "ok", "error"} =>
       \A f \in Feature : Started(f) \cup Due(f) = Range(process_feature(f))

(* Nothing but a passed scenario goes without a failed feature, once its   *)
(* container has ended.                                                    *)
VerdictInv ==
  /\ ended \in Seq({"passed", "failed", "broken"})
  /\ box = NoBox => ended = <<>> /\ pc = "dead"
  /\ failed = {} /\ ~signalled => verdicts \subseteq {"passed"} \cup Range(ended)
  /\ exit = "ok" => failed = {} /\ box = NoBox

EnvP == INSTANCE ScenarioEnv_proofs WITH
          Plans <- {<<>>}, MaxContexts <- Cardinality(Scenario)

(* The machine of a container: a bulk run has no destructive scenario, a   *)
(* run of one name has one scenario, and the machine is new when it starts.*)
BulkIsSafe ==
  box = Bulk =>
    /\ \A s \in Range(queue) : ~Destructive(s)
    /\ EnvP!InScenario => ~Destructive(ctx.scenario)
    /\ system = "clean"

OneIsFirst ==
  box \notin {Bulk, NoBox} =>
    /\ Len(queue) <= 1
    /\ queue # <<>> => pc = "ready" /\ host = EnvP!Pristine /\ system = "clean"
    /\ pc \in {"backup", "copy", "delete", "ensure", "config"} => system = "clean"
    /\ pc \in {"backup", "copy", "delete"} =>
         \A i \in 1..3 : i > at \/ (pc = "backup" /\ i = at) =>
           host[EnvP!MoveOrder[i]].backup = "absent"

MachineInv == UniqueNames /\ ~Daemon => BulkIsSafe /\ OneIsFirst

----------------------------------------------------------------------------
(* Every step of the suite is a step of the runner or leaves it alone: the *)
(* containers of SuiteRun are among those that ContainerRun allows, which  *)
(* end with any code (container-test:385-413).                             *)
THEOREM SuiteImplementsRun == SuiteSpec => Spec
<1>1. SuiteInit => Init
  BY DEF SuiteInit
<1>2. [SuiteNext]_suiteVars => [Next]_vars
  <2> SUFFICES ASSUME [SuiteNext]_suiteVars PROVE [Next]_vars
    OBVIOUS
  <2>1. CASE Runner
    BY <2>1 DEF Runner, Next
  <2>2. CASE ContainerStarts
    BY <2>2 DEF ContainerStarts, Next
  <2>3. CASE BehaveSteps
    BY <2>3 DEF BehaveSteps
  <2>4. CASE ContainerEnds
    <3>1. \E rc \in {0, 1} : EndContainer(rc)
      BY <2>4 DEF ContainerEnds
    <3> QED
      BY <3>1 DEF Next
  <2>5. CASE ContainerDies
    <3>1. \E rc \in {0 - 1, 1} : EndContainer(rc)
      BY <2>5 DEF ContainerDies
    <3> QED
      BY <3>1 DEF Next
  <2>6. CASE UNCHANGED suiteVars
    BY <2>6 DEF suiteVars
  <2> QED
    BY <2>1, <2>2, <2>3, <2>4, <2>5, <2>6 DEF SuiteNext, Suite
<1> QED
  BY <1>1, <1>2, PTL DEF SuiteSpec, Spec

----------------------------------------------------------------------------
(* Which scenarios behave lists, which names process_feature yields, and   *)
(* what a container runs.                                                  *)
LEMMA ListedIs ==
  ASSUME NEW f \in Feature
  PROVE  /\ Listed(f) \in Seq(Scenario)
         /\ Range(Listed(f)) = {s \in Range(ScenariosOf[f]) :
                                  Matches(s, options.only, options.not)}
         /\ IsInjective(Listed(f))
<1> DEFINE T == {s \in Scenario : Matches(s, options.only, options.not)}
<1>1. ScenariosOf[f] \in Seq(Scenario) /\ IsInjective(ScenariosOf[f])
  BY ContainerRunAssumption DEF IsInjective
<1>2. Listed(f) = Filtered(ScenariosOf[f], T)
  BY DEF Listed
<1>3. /\ Listed(f) \in Seq(Scenario)
      /\ Range(Listed(f)) = Range(ScenariosOf[f]) \cap T
      /\ IsInjective(Listed(f))
  <2> HIDE DEF T
  <2> QED
    BY <1>1, <1>2, FilterKeeps
<1>4. Range(ScenariosOf[f]) \subseteq Scenario
  BY <1>1 DEF Range
<1> QED
  BY <1>3, <1>4

LEMMA SelectedIs ==
  ASSUME NEW f \in Feature, NEW name
  PROVE  /\ Selected(f, name) \in Seq(Scenario)
         /\ Range(Selected(f, name)) =
              {s \in Range(Listed(f)) : IF name = Bulk THEN Tags[s] \cap BulkExcluded = {}
                                        ELSE NameOf[s] = name}
         /\ IsInjective(Selected(f, name))
<1> DEFINE T == IF name = Bulk THEN {s \in Scenario : Tags[s] \cap BulkExcluded = {}}
                ELSE {s \in Scenario : NameOf[s] = name}
<1>1. Selected(f, name) = Filtered(Listed(f), T)
  BY DEF Selected
<1>2. /\ Selected(f, name) \in Seq(Scenario)
      /\ Range(Selected(f, name)) = Range(Listed(f)) \cap T
      /\ IsInjective(Selected(f, name))
  <2> HIDE DEF T
  <2> QED
    BY <1>1, ListedIs, FilterKeeps
<1>3. Range(Listed(f)) \subseteq Scenario
  BY ListedIs DEF Range
<1> QED
  BY <1>2, <1>3

LEMMA Joined ==
  ASSUME NEW S, NEW s \in Seq(S), NEW t \in Seq(S)
  PROVE  /\ s \o t \in Seq(S)
         /\ Range(s \o t) = Range(s) \cup Range(t)
         /\ IsInjective(s) /\ IsInjective(t) /\ Range(s) \cap Range(t) = {}
              => IsInjective(s \o t)
<1>1. /\ s \o t \in Seq(S) /\ Len(s) \in Nat /\ Len(t) \in Nat
      /\ DOMAIN s = 1..Len(s) /\ DOMAIN t = 1..Len(t)
      /\ DOMAIN (s \o t) = 1..(Len(s) + Len(t))
      /\ \A i \in 1..Len(s) : (s \o t)[i] = s[i]
      /\ \A i \in 1..Len(t) : (s \o t)[Len(s) + i] = t[i]
  OBVIOUS
<1> DEFINE u == s \o t
<1> HIDE DEF u
<1>2. /\ DOMAIN u = 1..(Len(s) + Len(t))
      /\ \A i \in 1..Len(s) : u[i] = s[i]
      /\ \A i \in 1..Len(t) : u[Len(s) + i] = t[i]
  BY <1>1 DEF u
<1>3. \A i \in 1..(Len(s) + Len(t)) :
        \/ i \in 1..Len(s)
        \/ i - Len(s) \in 1..Len(t) /\ i = Len(s) + (i - Len(s))
  BY <1>1
<1>4. \A i \in DOMAIN u :
        \/ i \in 1..Len(s) /\ u[i] = s[i]
        \/ i - Len(s) \in 1..Len(t) /\ u[i] = t[i - Len(s)]
  BY <1>2, <1>3
<1>5. Range(u) = Range(s) \cup Range(t)
  <2>1. Range(u) \subseteq Range(s) \cup Range(t)
    BY <1>1, <1>4 DEF Range
  <2>2. \A i \in 1..Len(s) : i \in DOMAIN u /\ u[i] = s[i]
    BY <1>1, <1>2
  <2>3. \A i \in 1..Len(t) : Len(s) + i \in DOMAIN u /\ u[Len(s) + i] = t[i]
    BY <1>1, <1>2
  <2>4. Range(s) \subseteq Range(u)
    BY <1>1, <2>2 DEF Range
  <2>5. Range(t) \subseteq Range(u)
    BY <1>1, <2>3 DEF Range
  <2> QED
    BY <2>1, <2>4, <2>5
<1>6. ASSUME IsInjective(s), IsInjective(t), Range(s) \cap Range(t) = {}
      PROVE  IsInjective(u)
  <2> SUFFICES ASSUME NEW i \in DOMAIN u, NEW j \in DOMAIN u, u[i] = u[j]
               PROVE  i = j
    BY DEF IsInjective
  <2>1. \A k \in 1..Len(s) : s[k] \in Range(s)
    BY <1>1 DEF Range
  <2>2. \A k \in 1..Len(t) : t[k] \in Range(t)
    BY <1>1 DEF Range
  <2>3. CASE i \in 1..Len(s) /\ j \in 1..Len(s)
    BY <1>1, <1>2, <1>6, <2>3 DEF IsInjective
  <2>4. CASE i - Len(s) \in 1..Len(t) /\ j - Len(s) \in 1..Len(t)
    <3>1. t[i - Len(s)] = t[j - Len(s)]
      BY <1>1, <1>2, <1>3, <1>4, <2>4
    <3>2. i - Len(s) = j - Len(s)
      BY <1>1, <1>6, <2>4, <3>1 DEF IsInjective
    <3> QED
      BY <1>1, <1>2, <3>2
  <2> QED
    BY <1>4, <1>6, <2>1, <2>2, <2>3, <2>4
<1> QED
  BY <1>1, <1>5, <1>6 DEF u

Alone(f) == {s \in Range(tests[f]) : ~Daemon /\ Destructive(s)}

LEMMA PlanIs ==
  ASSUME RunTypeInv, ListInv, NEW f \in Feature
  PROVE  /\ process_feature(f) \in Seq(Names)
         /\ Range(process_feature(f)) =
              (IF do_destructive THEN {NameOf[s] : s \in Alone(f)} ELSE {}) \cup
              (IF Range(tests[f]) \subseteq Alone(f) THEN {} ELSE {Bulk})
         /\ UniqueNames => IsInjective(process_feature(f))
<1> DEFINE own == Filtered(tests[f], RunAlone)
           others == Filtered(tests[f], Scenario \ RunAlone)
           named == [i \in DOMAIN own |-> NameOf[own[i]]]
           first == IF do_destructive THEN named ELSE <<>>
           last == IF others # <<>> THEN <<Bulk>> ELSE <<>>
<1>1. process_feature(f) = first \o last
  BY DEF process_feature
<1>0. tests[f] \in Seq(Scenario) /\ IsInjective(tests[f])
  BY DEF RunTypeInv, ListInv
<1>2. Range(tests[f]) \subseteq Scenario
  BY <1>0 DEF Range
<1>3. own \in Seq(Scenario) /\ Range(own) = Alone(f) /\ IsInjective(own)
  <2>1. Range(tests[f]) \cap RunAlone = Alone(f)
    BY <1>2 DEF RunAlone, Alone
  <2> QED
    BY <1>0, <2>1, FilterKeeps
<1>4. others \in Seq(Scenario) /\ Range(others) = Range(tests[f]) \ Alone(f)
  <2>1. Range(tests[f]) \cap (Scenario \ RunAlone) = Range(tests[f]) \ Alone(f)
    BY <1>2 DEF RunAlone, Alone
  <2> QED
    BY <1>0, <2>1, FilterKeeps
<1>5. others = <<>> <=> Range(tests[f]) \subseteq Alone(f)
  <2>1. others = <<>> <=> Range(others) = {}
    <3>1. ASSUME NEW q \in Seq(Scenario) PROVE q = <<>> <=> Range(q) = {}
      <4>1. q # <<>> => 1 \in DOMAIN q
        OBVIOUS
      <4>2. q = <<>> => DOMAIN q = {}
        OBVIOUS
      <4> QED
        BY <4>1, <4>2 DEF Range
    <3> HIDE DEF others
    <3> QED
      BY <1>4, <3>1
  <2> QED
    BY <1>4, <2>1
<1> HIDE DEF own, others
<1>6. /\ named \in Seq(Names)
      /\ Range(named) = {NameOf[s] : s \in Alone(f)}
  <2>1. DOMAIN own = 1..Len(own) /\ Len(own) \in Nat /\ \A i \in 1..Len(own) : own[i] \in Scenario
    BY <1>3
  <2>2. \A i \in DOMAIN own : NameOf[own[i]] \in Names
    BY <2>1 DEF Names
  <2>3. named \in Seq(Names)
    BY <2>1, <2>2
  <2>4. Range(named) = {NameOf[s] : s \in Range(own)}
    BY DEF Range
  <2> QED
    BY <1>3, <2>3, <2>4
<1>7. UniqueNames => IsInjective(named)
  <2> SUFFICES ASSUME UniqueNames, NEW i \in DOMAIN own, NEW j \in DOMAIN own,
                      NameOf[own[i]] = NameOf[own[j]]
               PROVE  i = j
    BY DEF IsInjective
  <2>1. own[i] \in Range(ScenariosOf[f]) /\ own[j] \in Range(ScenariosOf[f])
    <3>1. own[i] \in Alone(f) /\ own[j] \in Alone(f)
      BY <1>3 DEF Range
    <3> QED
      BY <3>1, ListedIs DEF Alone, ListInv
  <2>2. own[i] = own[j]
    BY <2>1 DEF UniqueNames, Range
  <2> QED
    BY <1>3, <2>2 DEF IsInjective
<1>8. /\ first \in Seq(Names)
      /\ Range(first) = IF do_destructive THEN {NameOf[s] : s \in Alone(f)} ELSE {}
      /\ UniqueNames => IsInjective(first)
  <2>1. <<>> \in Seq(Names) /\ Range(<<>>) = {} /\ IsInjective(<<>>)
    BY DEF Range, IsInjective
  <2> HIDE DEF named
  <2> QED
    BY <1>6, <1>7, <2>1
<1>9. /\ last \in Seq(Names)
      /\ Range(last) = IF Range(tests[f]) \subseteq Alone(f) THEN {} ELSE {Bulk}
      /\ IsInjective(last)
  <2>1. <<>> \in Seq(Names) /\ Range(<<>>) = {} /\ IsInjective(<<>>)
    BY DEF Range, IsInjective
  <2>2. <<Bulk>> \in Seq(Names) /\ Range(<<Bulk>>) = {Bulk} /\ IsInjective(<<Bulk>>)
    BY DEF Range, IsInjective, Names
  <2> QED
    BY <1>5, <2>1, <2>2
<1>10. Range(first) \cap Range(last) = {}
  <2>1. \A s \in Alone(f) : NameOf[s] # Bulk
    BY <1>2, ContainerRunAssumption DEF Alone
  <2> HIDE DEF first, last
  <2> QED
    BY <1>8, <1>9, <2>1
<1> HIDE DEF first, last
<1> QED
  BY <1>1, <1>8, <1>9, <1>10, Joined

(* Taking the first of a sequence.                                         *)
LEMMA HeadTail ==
  ASSUME NEW S, NEW s \in Seq(S), s # <<>>
  PROVE  /\ Head(s) \in S /\ Tail(s) \in Seq(S)
         /\ Range(s) = {Head(s)} \cup Range(Tail(s))
         /\ IsInjective(s) => IsInjective(Tail(s)) /\ Head(s) \notin Range(Tail(s))
<1> DEFINE n == Len(s)
           t == Tail(s)
<1>1. /\ n \in Nat /\ n > 0 /\ DOMAIN s = 1..n /\ Head(s) = s[1] /\ s[1] \in S
      /\ t \in Seq(S) /\ DOMAIN t = 1..(n - 1)
      /\ \A i \in 1..(n - 1) : t[i] = s[i + 1]
  OBVIOUS
<1> HIDE DEF n, t
<1>2. \A i \in 2..n : i - 1 \in 1..(n - 1) /\ t[i - 1] = s[i]
  BY <1>1
<1>3. \A i \in 1..(n - 1) : i + 1 \in 2..n
  BY <1>1
<1>4. 1 \in 1..n /\ 2..n \subseteq 1..n /\ \A i \in 1..n : i = 1 \/ i \in 2..n
  BY <1>1
<1>5. Range(s) = {s[1]} \cup Range(t)
  <2>1. Range(s) = {s[i] : i \in 1..n} /\ Range(t) = {t[i] : i \in 1..(n - 1)}
    BY <1>1 DEF Range
  <2>2. \A x \in Range(s) : x = s[1] \/ x \in Range(t)
    BY <1>2, <1>4, <2>1
  <2>3. \A x \in Range(t) : x \in Range(s)
    BY <1>1, <1>3, <1>4, <2>1
  <2>4. s[1] \in Range(s)
    BY <1>4, <2>1
  <2> QED
    BY <2>2, <2>3, <2>4
<1>6. ASSUME IsInjective(s) PROVE IsInjective(t) /\ s[1] \notin Range(t)
  <2>1. \A i, j \in 1..n : s[i] = s[j] => i = j
    BY <1>1, <1>6 DEF IsInjective
  <2>2. ASSUME NEW i \in 1..(n - 1), NEW j \in 1..(n - 1), t[i] = t[j] PROVE i = j
    <3>1. i + 1 = j + 1
      BY <1>1, <1>3, <1>4, <2>1, <2>2
    <3> QED
      BY <3>1
  <2>3. ASSUME NEW i \in 1..(n - 1) PROVE t[i] # s[1]
    <3>1. i + 1 # 1
      OBVIOUS
    <3> QED
      BY <1>1, <1>3, <1>4, <2>1, <3>1
  <2> QED
    BY <1>1, <2>2, <2>3 DEF Range, IsInjective
<1> QED
  BY <1>1, <1>5, <1>6 DEF t

(* A list of a finite set has each member once.                            *)
LEMMA ListsOf ==
  ASSUME NEW S, IsFiniteSet(S), NEW q \in SetToSeqs(S)
  PROVE  q \in Seq(S) /\ Range(q) = S /\ IsInjective(q)
<1> DEFINE n == Cardinality(S)
<1>1. n \in Nat /\ IsFiniteSet(1..n) /\ Cardinality(1..n) = n
  BY FS_CardinalityType, FS_Interval
<1>2. q \in [1..n -> S] /\ IsInjective(q)
  BY DEF SetToSeqs, IsInjective
<1>3. q \in Injection(1..n, S)
  BY <1>2 DEF Injection
<1>4. q \in Surjection(1..n, S)
  <2>1. Cardinality(1..n) = Cardinality(S)
    BY <1>1
  <2> HIDE DEF n
  <2> QED
    BY <1>1, <1>3, <2>1, FS_Injection
<1>5. q \in Seq(S)
  BY <1>1, <1>2
<1> QED
  BY <1>2, <1>4, <1>5 DEF Surjection, Range

(* What is read before a list ends.                                        *)
LEMMA FirstOnes ==
  ASSUME NEW S, NEW q \in Seq(S), IsInjective(q), NEW n \in 0..Len(q)
  PROVE  /\ SubSeq(q, 1, n) \in Seq(S) /\ IsInjective(SubSeq(q, 1, n))
         /\ Range(SubSeq(q, 1, n)) \subseteq Range(q)
         /\ \A i \in 1..n : q[i] \in Range(SubSeq(q, 1, n))
<1> DEFINE r == SubSeq(q, 1, n)
<1>1. /\ Len(q) \in Nat /\ n \in Nat /\ n <= Len(q) /\ DOMAIN q = 1..Len(q)
      /\ r \in Seq(S) /\ DOMAIN r = 1..n /\ \A i \in 1..n : r[i] = q[i]
  OBVIOUS
<1> HIDE DEF r
<1>2. \A i \in 1..n : i \in DOMAIN q
  BY <1>1
<1>3. IsInjective(r)
  BY <1>1, <1>2 DEF IsInjective
<1>4. Range(r) \subseteq Range(q) /\ \A i \in 1..n : q[i] \in Range(r)
  BY <1>1, <1>2 DEF Range
<1> QED
  BY <1>1, <1>3, <1>4 DEF r

LEMMA Nothing ==
  /\ Range(<<>>) = {} /\ IsInjective(<<>>)
  /\ \A S : <<>> \in Seq(S)
  /\ \A T : Filtered(<<>>, T) = <<>>
<1>1. Range(<<>>) = {} /\ IsInjective(<<>>) /\ \A S : <<>> \in Seq(S)
  BY DEF Range, IsInjective
<1>2. ASSUME NEW T PROVE Filtered(<<>>, T) = <<>>
  <2>1. Filtered(<<>>, T) \in Seq({}) /\ Range(Filtered(<<>>, T)) = {}
    BY <1>1, FilterKeeps
  <2>2. \A q \in Seq({}) : q = <<>>
    OBVIOUS
  <2> QED
    BY <2>1, <2>2
<1> QED
  BY <1>1, <1>2

----------------------------------------------------------------------------
(* The invariants of the runner.                                           *)
(* What dry_run has read when it goes on.                                  *)
LEMMA DryRunReads ==
  ASSUME RunTypeInv, DryRun, exit' = "running"
  PROVE  /\ todo' \in Seq(Feature) /\ IsInjective(todo')
         /\ tests' \in [Feature -> Seq(Scenario)] /\ cut' \in BOOLEAN
         /\ \A f \in Feature : /\ Range(tests'[f]) \subseteq Range(Listed(f))
                               /\ IsInjective(tests'[f])
                               /\ f \notin Range(todo') => tests'[f] = <<>>
         /\ ~cut' => \A f \in Feature : tests'[f] = Listed(f)
<1>1. IsFiniteSet(FeaturesListed) /\ FeaturesListed \subseteq Feature
  BY ContainerRunAssumption, FS_Subset DEF FeaturesListed
<1>2. ASSUME NEW order \in SetToSeqs(FeaturesListed)
      PROVE  order \in Seq(Feature) /\ Range(order) = FeaturesListed /\ IsInjective(order)
  <2>1. order \in Seq(FeaturesListed) /\ Range(order) = FeaturesListed /\ IsInjective(order)
    BY <1>1, ListsOf
  <2> QED
    BY <1>1, <2>1
<1>3. \A f \in Feature : /\ Listed(f) \in Seq(Scenario) /\ IsInjective(Listed(f))
                         /\ f \notin FeaturesListed => Listed(f) = <<>>
  BY ListedIs DEF FeaturesListed
<1>4. exit = "start" /\ todo = <<>> /\ tests = [f \in Feature |-> <<>>] /\ cut \in BOOLEAN
  BY DEF DryRun, RunTypeInv
<1>5. CASE ListedInFull
  <2>1. /\ todo' \in SetToSeqs(FeaturesListed) /\ cut' = cut
        /\ tests' = [f \in Feature |-> Listed(f)]
    BY <1>5 DEF ListedInFull
  <2> QED
    BY <1>2, <1>3, <1>4, <2>1
<1>6. CASE ListedInPart
  <2>1. cut' = TRUE
    BY <1>6 DEF ListedInPart
  <2>2. CASE UNCHANGED <<tests, todo>>
    BY <1>4, <2>1, <2>2, Nothing
  <2>3. CASE \E order \in SetToSeqs(FeaturesListed) : \E n \in DOMAIN order :
               \E part \in Prefixes(Listed(order[n])) :
                 /\ todo' = SubSeq(order, 1, n)
                 /\ tests' = [f \in Feature |->
                                IF f = order[n] THEN part
                                ELSE IF f \in Range(todo') THEN Listed(f) ELSE <<>>]
    <3>1. PICK order \in SetToSeqs(FeaturesListed) : \E n \in DOMAIN order :
               \E part \in Prefixes(Listed(order[n])) :
                 /\ todo' = SubSeq(order, 1, n)
                 /\ tests' = [f \in Feature |->
                                IF f = order[n] THEN part
                                ELSE IF f \in Range(todo') THEN Listed(f) ELSE <<>>]
      BY <2>3
    <3>2. PICK n \in DOMAIN order : \E part \in Prefixes(Listed(order[n])) :
                 /\ todo' = SubSeq(order, 1, n)
                 /\ tests' = [f \in Feature |->
                                IF f = order[n] THEN part
                                ELSE IF f \in Range(todo') THEN Listed(f) ELSE <<>>]
      BY <3>1
    <3>3. PICK part \in Prefixes(Listed(order[n])) :
                 /\ todo' = SubSeq(order, 1, n)
                 /\ tests' = [f \in Feature |->
                                IF f = order[n] THEN part
                                ELSE IF f \in Range(todo') THEN Listed(f) ELSE <<>>]
      BY <3>2
    <3>4. order \in Seq(Feature) /\ IsInjective(order) /\ n \in 0..Len(order) /\ n \in 1..n
          /\ order[n] \in Feature
      BY <1>2
    <3>5. /\ todo' \in Seq(Feature) /\ IsInjective(todo') /\ order[n] \in Range(todo')
      BY <3>3, <3>4, FirstOnes
    <3>6. PICK m \in 0..Len(Listed(order[n])) : part = SubSeq(Listed(order[n]), 1, m)
      BY DEF Prefixes
    <3>7. /\ part \in Seq(Scenario) /\ IsInjective(part)
          /\ Range(part) \subseteq Range(Listed(order[n]))
      BY <1>3, <3>4, <3>6, FirstOnes
    <3>8. ASSUME NEW f \in Feature
          PROVE  /\ tests'[f] \in Seq(Scenario) /\ IsInjective(tests'[f])
                 /\ Range(tests'[f]) \subseteq Range(Listed(f))
                 /\ f \notin Range(todo') => tests'[f] = <<>>
      <4>1. tests'[f] = IF f = order[n] THEN part
                        ELSE IF f \in Range(todo') THEN Listed(f) ELSE <<>>
        BY <3>3
      <4> QED
        BY <1>3, <3>5, <3>7, <4>1, Nothing
    <3>9. tests' \in [Feature -> Seq(Scenario)]
      <4>1. tests' = [f \in Feature |-> tests'[f]]
        BY <3>3
      <4> QED
        BY <3>8, <4>1
    <3> QED
      BY <2>1, <3>5, <3>8, <3>9
  <2> QED
    BY <1>6, <2>2, <2>3 DEF ListedInPart
<1> QED
  BY <1>5, <1>6 DEF DryRun, ListingFails

LEMMA RunTypeStep == RunTypeInv /\ ListInv /\ [Next]_vars => RunTypeInv'
<1> SUFFICES ASSUME RunTypeInv, ListInv, [Next]_vars PROVE RunTypeInv'
  OBVIOUS
<1> USE DEF RunTypeInv
<1>1. CASE DryRun
  <2>1. options' = options /\ feature' = feature /\ yields' = yields /\ box' = box
        /\ boxes' = boxes /\ exit = "start" /\ exit' \in {"running", "not listed"}
    BY <1>1 DEF DryRun, ListingFails, ListedInFull, ListedInPart
  <2>2. CASE exit' = "running"
    <3>1. /\ todo' \in Seq(Feature) /\ tests' \in [Feature -> Seq(Scenario)]
          /\ cut' \in BOOLEAN
      BY <1>1, <2>2, DryRunReads
    <3> QED
      BY <2>1, <2>2, <3>1
  <2>3. CASE exit' = "not listed"
    <3>1. UNCHANGED <<tests, cut, todo>>
      BY <1>1, <2>3 DEF DryRun, ListingFails, ListedInFull, ListedInPart
    <3> QED
      BY <2>1, <2>3, <3>1
  <2> QED
    BY <2>1, <2>2, <2>3
<1>2. CASE NextFeature
  <2>1. Head(todo) \in Feature /\ Tail(todo) \in Seq(Feature)
    BY <1>2, HeadTail DEF NextFeature
  <2>2. process_feature(Head(todo)) \in Seq(Names)
    BY <2>1, PlanIs
  <2> QED
    BY <1>2, <2>1, <2>2 DEF NextFeature
<1>3. CASE StartContainer
  <2>1. Head(yields) \in Names /\ Tail(yields) \in Seq(Names) /\ feature \in Feature
    BY <1>3, HeadTail DEF StartContainer
  <2>2. Selected(feature, Head(yields)) \in Seq(Scenario)
    BY <2>1, SelectedIs
  <2>3. boxes' \in Seq([feature : Feature, name : Names, runs : Seq(Scenario)])
    BY <1>3, <2>1, <2>2 DEF StartContainer
  <2>4. exit = "running"
    BY <1>3 DEF StartContainer
  <2> QED
    BY <1>3, <2>1, <2>3, <2>4 DEF StartContainer
<1>4. CASE Finish
  BY <1>4 DEF Finish
<1>5. CASE \E rc \in {0 - 1, 0, 1} : EndContainer(rc)
  BY <1>5 DEF EndContainer
<1>6. CASE UNCHANGED vars
  BY <1>6 DEF vars
<1> QED
  BY <1>1, <1>2, <1>3, <1>4, <1>5, <1>6 DEF Next

(* The plans are made of the command line, the feature files and what was  *)
(* read, which do not change after the dry run.                            *)
LEMMA SamePlans ==
  ASSUME options' = options
  PROVE  /\ \A f : Listed(f)' = Listed(f)
         /\ \A f, n : Selected(f, n)' = Selected(f, n)
         /\ tests' = tests => \A f : process_feature(f)' = process_feature(f)
<1>1. ASSUME NEW f PROVE Listed(f)' = Listed(f)
  BY DEF Listed
<1>2. ASSUME NEW f, tests' = tests PROVE process_feature(f)' = process_feature(f)
  <2>1. RunAlone' = RunAlone /\ do_destructive' = do_destructive
    BY DEF RunAlone, Daemon, do_destructive
  <2> QED
    BY <1>2, <2>1 DEF process_feature
<1>3. ASSUME NEW f, NEW n PROVE Selected(f, n)' = Selected(f, n)
  <2>1. BulkExcluded' = BulkExcluded
    BY DEF BulkExcluded, Daemon
  <2> QED
    BY <1>1, <2>1 DEF Selected
<1> QED
  BY <1>1, <1>2, <1>3

LEMMA OptionsStay == [Next]_vars => options' = options
BY DEF Next, DryRun, NextFeature, StartContainer, Finish, EndContainer, vars

LEMMA ListStep == RunTypeInv /\ ListInv /\ [Next]_vars => ListInv'
<1> SUFFICES ASSUME RunTypeInv, ListInv, [Next]_vars PROVE ListInv'
  OBVIOUS
<1>1. \A f : Listed(f)' = Listed(f)
  BY OptionsStay, SamePlans
<1>2. CASE DryRun /\ exit' = "running"
  BY <1>1, <1>2, DryRunReads DEF ListInv
<1>3. CASE DryRun /\ exit' # "running"
  <2>1. tests' = tests /\ exit' = "not listed"
    BY <1>3 DEF DryRun, ListingFails, ListedInFull, ListedInPart
  <2> QED
    BY <1>1, <2>1 DEF ListInv
<1>4. CASE ~DryRun
  <2>1. /\ tests' = tests /\ cut' = cut
        /\ exit' = exit \/ exit = "running"
    BY <1>4 DEF Next, NextFeature, StartContainer, Finish, EndContainer, vars
  <2> QED
    BY <1>1, <2>1 DEF ListInv
<1> QED
  BY <1>2, <1>3, <1>4

LEMMA OnceStep == RunTypeInv /\ ListInv /\ OnceInv /\ [Next]_vars => OnceInv'
<1> SUFFICES ASSUME RunTypeInv, ListInv, OnceInv, [Next]_vars PROVE OnceInv'
  OBVIOUS
<1>0. \A f, n : Selected(f, n)' = Selected(f, n)
  BY OptionsStay, SamePlans
<1>s. tests' = tests => \A f : process_feature(f)' = process_feature(f)
  BY OptionsStay, SamePlans
<1>a. ASSUME boxes' = boxes PROVE \A f : Started(f)' = Started(f)
  BY <1>a DEF Started
<1>b. ASSUME boxes' = boxes PROVE RunsSelected'
  BY <1>b, <1>0 DEF OnceInv, RunsSelected
<1>1. CASE DryRun
  <2>1. /\ feature' = feature /\ yields' = yields /\ boxes' = boxes
        /\ feature = NoFeature /\ yields = <<>> /\ boxes = <<>> /\ todo = <<>>
        /\ NoFeature \notin Feature
    BY <1>1, ContainerRunAssumption DEF DryRun, RunTypeInv
  <2>4. exit' = "not listed" \/ exit' = "running"
    BY <1>1 DEF DryRun, ListingFails, ListedInFull, ListedInPart
  <2>2. CASE exit' = "not listed"
    <3>1. UNCHANGED <<tests, cut, todo>>
      BY <1>1, <2>2 DEF DryRun, ListingFails, ListedInFull, ListedInPart
    <3>2. \A f : Due(f)' = Due(f)
      BY <2>1, <3>1, <1>s DEF Due
    <3> QED
      BY <2>1, <2>2, <3>1, <3>2, <1>a, <1>b DEF OnceInv
  <2>3. CASE exit' = "running"
    <3>1. /\ todo' \in Seq(Feature) /\ IsInjective(todo')
          /\ \A f \in Feature : f \notin Range(todo') => tests'[f] = <<>>
      BY <1>1, <2>3, DryRunReads
    <3>2. feature' \notin Range(todo')
      BY <2>1, <3>1 DEF Range
    <3>3. \A f \in Feature : Started(f)' = {}
      BY <2>1 DEF Started
    <3>4. ASSUME NEW f \in Feature PROVE Due(f)' = Range(process_feature(f))'
      <4>1. CASE f \in Range(todo')
        BY <2>1, <4>1 DEF Due
      <4>2. CASE f \notin Range(todo')
        <5>1. process_feature(f)' = <<>>
          <6>1. tests'[f] = <<>>
            BY <3>1, <4>2
          <6>2. \A T : Filtered(tests'[f], T) = <<>>
            BY <6>1, Nothing
          <6> QED
            BY <6>2 DEF process_feature
        <5>2. Due(f)' = {}
          BY <2>1, <4>2 DEF Due
        <5> QED
          BY <5>1, <5>2, Nothing
      <4> QED
        BY <4>1, <4>2
    <3>5. IsInjective(yields')
      BY <2>1 DEF IsInjective
    <3>6. DOMAIN boxes' = {}
      BY <2>1
    <3> QED
      BY <2>1, <3>1, <3>2, <3>3, <3>4, <3>5, <3>6, <1>b DEF OnceInv
  <2> QED
    BY <2>2, <2>3, <2>4
<1>2. CASE NextFeature
  <2>s. \A f : process_feature(f)' = process_feature(f)
    BY <1>2, <1>s DEF NextFeature
  <2> DEFINE h == Head(todo)
  <2>1. /\ feature' = h /\ todo' = Tail(todo) /\ yields' = process_feature(h)
        /\ boxes' = boxes /\ exit' = exit /\ yields = <<>> /\ todo # <<>> /\ exit = "running"
    BY <1>2 DEF NextFeature
  <2>2. /\ h \in Feature /\ Range(todo) = {h} \cup Range(Tail(todo))
        /\ IsInjective(Tail(todo)) /\ h \notin Range(Tail(todo))
    BY <2>1, HeadTail DEF RunTypeInv, OnceInv
  <2> HIDE DEF h
  <2>3. UniqueNames => IsInjective(yields')
    BY <2>1, <2>2, PlanIs
  <2>4. ASSUME NEW f \in Feature PROVE Due(f)' = Due(f)
    <3>1. Range(yields) = {}
      BY <2>1 DEF Range
    <3>2. CASE f = h
      BY <2>1, <2>2, <3>2, <2>s, <1>0 DEF Due, OnceInv
    <3>3. CASE f # h
      BY <2>1, <2>2, <3>1, <3>3, <2>s, <1>0 DEF Due, OnceInv
    <3> QED
      BY <3>2, <3>3
  <2>5. \A f \in Feature : Started(f)' = Started(f)
    BY <2>1, <1>a
  <2> QED
    BY <2>1, <2>2, <2>3, <2>4, <2>5, <1>b, <2>s, <1>0 DEF OnceInv
<1>3. CASE StartContainer
  <2>s. \A f : process_feature(f)' = process_feature(f)
    BY <1>3, <1>s DEF StartContainer
  <2> DEFINE n == Head(yields)
             new == [feature |-> feature, name |-> n, runs |-> Selected(feature, n)]
  <2>1. /\ feature' = feature /\ todo' = todo /\ yields' = Tail(yields)
        /\ boxes' = Append(boxes, new) /\ exit' = exit /\ yields # <<>> /\ exit = "running"
    BY <1>3 DEF StartContainer
  <2>2. feature \in Feature /\ yields \in Seq(Names)
    BY <2>1 DEF RunTypeInv
  <2>3. /\ Range(yields) = {n} \cup Range(yields')
        /\ IsInjective(yields) => IsInjective(yields') /\ n \notin Range(yields')
    BY <2>1, <2>2, HeadTail
  <2>4. /\ new.feature = feature /\ new.name = n /\ new.runs = Selected(feature, n)
    OBVIOUS
  <2> HIDE DEF n, new
  <2>5. /\ Len(boxes) \in Nat /\ DOMAIN boxes = 1..Len(boxes)
        /\ DOMAIN boxes' = 1..(Len(boxes) + 1)
        /\ \A b \in DOMAIN boxes : boxes'[b] = boxes[b]
        /\ boxes'[Len(boxes) + 1] = new
    BY <2>1 DEF RunTypeInv
  <2>6. \A b \in DOMAIN boxes' : b \in DOMAIN boxes \/ b = Len(boxes) + 1
    BY <2>5
  <2>7. \A b \in DOMAIN boxes : b \in DOMAIN boxes' /\ b # Len(boxes) + 1
    BY <2>5
  <2>8. ASSUME NEW f \in Feature
        PROVE  Started(f)' = Started(f) \cup (IF f = feature THEN {n} ELSE {})
    BY <2>4, <2>5, <2>6, <2>7 DEF Started
  <2>9. ASSUME NEW f \in Feature
        PROVE  /\ Due(f) = Due(f)' \cup (IF f = feature THEN {n} ELSE {})
               /\ UniqueNames /\ f = feature => n \notin Due(f)'
               /\ f # feature => Due(f)' = Due(f)
    BY <2>1, <2>3, <2>s, <1>0 DEF Due, OnceInv
  <2>10. RunsSelected'
    BY <2>4, <2>5, <2>6, <2>s, <1>0 DEF OnceInv, RunsSelected
  <2>11. ASSUME UniqueNames, NEW b \in DOMAIN boxes,
                boxes[b].feature = feature, boxes[b].name = n
         PROVE  FALSE
    <3>1. n \in Started(feature)
      BY <2>11 DEF Started
    <3>2. n \in Due(feature)
      BY <2>3 DEF Due
    <3> QED
      BY <2>2, <2>11, <3>1, <3>2 DEF OnceInv
  <2>12. ASSUME UniqueNames, NEW a \in DOMAIN boxes', NEW b \in DOMAIN boxes',
                boxes'[a].feature = boxes'[b].feature, boxes'[a].name = boxes'[b].name
         PROVE  a = b
    BY <2>4, <2>5, <2>6, <2>11, <2>12 DEF OnceInv
  <2>13. UniqueNames => \A f \in Feature : Started(f)' \cap Due(f)' = {}
    BY <2>8, <2>9 DEF OnceInv
  <2>14. \A f \in Feature : Started(f)' \cup Due(f)' = Range(process_feature(f))'
    <3>1. \A f \in Feature : Started(f) \cup Due(f) = Range(process_feature(f))
      BY <2>1 DEF OnceInv
    <3> QED
      BY <2>8, <2>9, <3>1, <2>s, <1>0
  <2> QED
    BY <2>1, <2>3, <2>10, <2>12, <2>13, <2>14 DEF OnceInv
<1>4. CASE Finish
  <2>s. \A f : process_feature(f)' = process_feature(f)
    BY <1>4, <1>s DEF Finish
  <2>1. /\ feature' = feature /\ todo' = todo /\ yields' = yields /\ boxes' = boxes
        /\ exit = "running"
    BY <1>4 DEF Finish
  <2>2. \A f : Due(f)' = Due(f)
    BY <2>1, <2>s, <1>0 DEF Due
  <2> QED
    BY <2>1, <2>2, <1>a, <1>b, <2>s, <1>0 DEF OnceInv
<1>5. CASE \E rc \in {0 - 1, 0, 1} : EndContainer(rc)
  <2>s. \A f : process_feature(f)' = process_feature(f)
    BY <1>5, <1>s DEF EndContainer
  <2>1. /\ feature' = feature /\ todo' = todo /\ yields' = yields /\ boxes' = boxes
        /\ exit' = exit
    BY <1>5 DEF EndContainer
  <2>2. \A f : Due(f)' = Due(f)
    BY <2>1, <2>s, <1>0 DEF Due
  <2> QED
    BY <2>1, <2>2, <1>a, <1>b, <2>s, <1>0 DEF OnceInv
<1>6. CASE UNCHANGED vars
  <2>s. \A f : process_feature(f)' = process_feature(f)
    BY <1>6, <1>s DEF vars
  <2>1. /\ feature' = feature /\ todo' = todo /\ yields' = yields /\ boxes' = boxes
        /\ exit' = exit
    BY <1>6 DEF vars
  <2>2. \A f : Due(f)' = Due(f)
    BY <2>1, <2>s, <1>0 DEF Due
  <2> QED
    BY <2>1, <2>2, <1>a, <1>b, <2>s, <1>0 DEF OnceInv
<1> QED
  BY <1>1, <1>2, <1>3, <1>4, <1>5, <1>6 DEF Next

LEMMA InitOnce == Init => RunTypeInv /\ ListInv /\ OnceInv
<1> SUFFICES ASSUME Init PROVE RunTypeInv /\ ListInv /\ OnceInv
  OBVIOUS
<1>1. RunTypeInv
  BY Nothing DEF Init, RunTypeInv
<1>l. ListInv
  BY Nothing DEF Init, ListInv
<1>2. Range(todo) = {} /\ IsInjective(todo) /\ IsInjective(yields) /\ DOMAIN boxes = {}
  BY DEF Init, Range, IsInjective
<1>3. \A f \in Feature : Started(f) = {}
  BY <1>2 DEF Started
<1>4. RunsSelected
  BY <1>2 DEF RunsSelected
<1>5. exit = "start"
  BY DEF Init
<1> QED
  BY <1>1, <1>l, <1>2, <1>3, <1>4, <1>5 DEF OnceInv

LEMMA RunInvariance == Spec => [](RunTypeInv /\ ListInv /\ OnceInv)
<1>1. RunTypeInv /\ ListInv /\ OnceInv /\ [Next]_vars =>
        (RunTypeInv /\ ListInv /\ OnceInv)'
  BY RunTypeStep, ListStep, OnceStep
<1> QED
  BY <1>1, InitOnce, PTL DEF Spec

(* A scenario that the command line asks for is selected by no more than   *)
(* one of the containers of its feature, and by one if it was read from    *)
(* the list; another scenario by none.                                     *)
Selecting(f, s) == {n \in Range(process_feature(f)) : s \in Range(Selected(f, n))}

LEMMA OneSelects ==
  ASSUME RunTypeInv, ListInv, UniqueNames, NEW f \in Feature,
         NEW s \in Range(ScenariosOf[f])
  PROVE  /\ Selecting(f, s) = {} \/ (Runnable(s) /\ \E n : Selecting(f, s) = {n})
         /\ Runnable(s) /\ s \in Range(tests[f]) => Selecting(f, s) # {}
<1> DEFINE L == Range(Listed(f))
           R == Range(tests[f])
           Plan == Range(process_feature(f))
<1> SUFFICES /\ Selecting(f, s) = {} \/ (Runnable(s) /\ \E n : Selecting(f, s) = {n})
             /\ Runnable(s) /\ s \in R => Selecting(f, s) # {}
  OBVIOUS
<1>1. L = {t \in Range(ScenariosOf[f]) : Matches(t, options.only, options.not)}
  BY ListedIs
<1>2. s \in L <=> Matches(s, options.only, options.not)
  BY <1>1
<1>3. \A t \in Range(ScenariosOf[f]) : t \in Scenario
  BY ContainerRunAssumption DEF Range
<1>4. \A t \in L : NameOf[t] # Bulk /\ t \in Scenario
  BY <1>1, <1>3, ContainerRunAssumption
<1>5. \A t, u \in L : NameOf[t] = NameOf[u] => t = u
  BY <1>1, SMTT(40) DEF UniqueNames, Range
<1>6. \A n : s \in Range(Selected(f, n)) <=>
        s \in L /\ IF n = Bulk THEN Tags[s] \cap BulkExcluded = {} ELSE NameOf[s] = n
  BY SelectedIs
<1>7. Plan = (IF do_destructive THEN {NameOf[t] : t \in Alone(f)} ELSE {}) \cup
             (IF R \subseteq Alone(f) THEN {} ELSE {Bulk})
  BY PlanIs
<1>8. Alone(f) = {t \in R : ~Daemon /\ Destructive(t)} /\ R \subseteq L
  BY DEF Alone, ListInv
<1>9. Selecting(f, s) = {n \in Plan : s \in Range(Selected(f, n))}
  BY DEF Selecting
<1>10. Runnable(s) <=> s \in L /\ (do_destructive \/ ~(Daemon \/ Destructive(s)))
  BY <1>2 DEF Runnable
<1> HIDE DEF L, R, Plan
<1>11. CASE s \notin L
  <2>1. Selecting(f, s) = {} /\ ~Runnable(s)
    BY <1>6, <1>9, <1>10, <1>11
  <2> QED
    BY <2>1
<1>12. CASE s \in L /\ Daemon
  <2>1. Alone(f) = {} /\ Plan \subseteq {Bulk} /\ (s \in R => Plan = {Bulk})
    BY <1>7, <1>8, <1>12
  <2>2. "dnf5daemon" \in Tags[s]
    BY <1>2, <1>12 DEF Daemon, Matches
  <2>3. CASE do_destructive
    <3>1. BulkExcluded = {}
      BY <1>12, <2>3 DEF BulkExcluded, do_destructive
    <3>2. Selecting(f, s) = Plan
      BY <1>6, <1>9, <1>12, <2>1, <3>1
    <3> QED
      BY <1>10, <1>12, <2>1, <2>3, <3>2
  <2>4. CASE ~do_destructive
    <3>1. "dnf5daemon" \in BulkExcluded
      BY <1>12, <2>4 DEF BulkExcluded, do_destructive, DNF5DAEMON_TAGS
    <3>2. Selecting(f, s) = {}
      BY <1>6, <1>9, <2>1, <2>2, <3>1
    <3> QED
      BY <1>10, <1>12, <2>4, <3>2
  <2> QED
    BY <2>3, <2>4
<1>13. CASE s \in L /\ ~Daemon /\ Destructive(s)
  <2>1. s \in R => s \in Alone(f)
    BY <1>8, <1>13
  <2>2. BulkExcluded = DESTRUCTIVE_TAGS
    BY <1>13 DEF BulkExcluded
  <2>3. s \notin Range(Selected(f, Bulk))
    BY <1>6, <1>13, <2>2 DEF Destructive
  <2>4. NameOf[s] # Bulk /\ s \in Range(Selected(f, NameOf[s]))
    BY <1>4, <1>6, <1>13
  <2>5. \A n : s \in Range(Selected(f, n)) => n = NameOf[s]
    BY <1>6, <2>3
  <2>6. CASE do_destructive
    <3>1. s \in R => NameOf[s] \in Plan
      BY <1>7, <2>1, <2>6
    <3>2. Selecting(f, s) \subseteq {NameOf[s]}
      BY <1>9, <2>5
    <3>3. s \in R => NameOf[s] \in Selecting(f, s)
      BY <1>9, <2>4, <3>1
    <3> QED
      BY <1>10, <1>13, <2>6, <3>2, <3>3
  <2>7. CASE ~do_destructive
    <3>1. Plan \subseteq {Bulk}
      BY <1>7, <2>7
    <3>2. Selecting(f, s) = {}
      BY <1>9, <2>3, <3>1
    <3> QED
      BY <1>10, <1>13, <2>7, <3>2
  <2> QED
    BY <2>6, <2>7
<1>14. CASE s \in L /\ ~Daemon /\ ~Destructive(s)
  <2>1. s \notin Alone(f) /\ (s \in R => Bulk \in Plan)
    BY <1>7, <1>8, <1>14
  <2>2. s \in Range(Selected(f, Bulk))
    <3>1. BulkExcluded = DESTRUCTIVE_TAGS
      BY <1>14 DEF BulkExcluded
    <3> QED
      BY <1>6, <1>14, <3>1 DEF Destructive
  <2>3. ASSUME NEW n \in Plan, n # Bulk, s \in Range(Selected(f, n)) PROVE FALSE
    <3>1. PICK t \in Alone(f) : n = NameOf[t]
      BY <1>7, <2>3
    <3>2. n = NameOf[s]
      BY <1>6, <2>3
    <3> QED
      BY <1>5, <1>8, <1>14, <2>1, <3>1, <3>2
  <2>4. Selecting(f, s) \subseteq {Bulk} /\ (s \in R => Bulk \in Selecting(f, s))
    BY <1>9, <2>1, <2>2, <2>3
  <2> QED
    BY <1>10, <1>14, <2>4
<1> QED
  BY <1>11, <1>12, <1>13, <1>14

(* The places of s in the runs of the containers are as many as the names  *)
(* that select it.                                                         *)
LEMMA RunOnce == RunTypeInv /\ ListInv /\ OnceInv => ExactlyOnce
<1> SUFFICES ASSUME RunTypeInv, ListInv, OnceInv, UniqueNames, exit \in {"ok", "error"},
                    NEW s \in Scenario
             PROVE  /\ TimesRun(s) <= IF Runnable(s) THEN 1 ELSE 0
                    /\ Runnable(s) /\ (cut => ReadFromList(s)) => TimesRun(s) = 1
  BY DEF ExactlyOnce
<1>1. PICK f \in Feature : s \in Range(ScenariosOf[f])
  BY ContainerRunAssumption
<1>2. \A g \in Feature : s \in Range(ScenariosOf[g]) => g = f
  BY <1>1, ContainerRunAssumption DEF Range
<1>3. \A g \in Feature : \A n : s \in Range(Selected(g, n)) => g = f
  BY <1>2, SelectedIs, ListedIs
<1>4. Started(f) = Range(process_feature(f))
  <2>1. todo = <<>> /\ yields = <<>>
    BY DEF RunTypeInv
  <2>2. Range(todo) = {} /\ Range(yields) = {}
    BY <2>1 DEF Range
  <2>3. Due(f) = {}
    BY <2>2 DEF Due
  <2> QED
    BY <2>3 DEF OnceInv
<1>5. ASSUME NEW b \in DOMAIN boxes
      PROVE  /\ boxes[b].feature \in Feature
             /\ boxes[b].runs = Selected(boxes[b].feature, boxes[b].name)
             /\ IsInjective(boxes[b].runs)
  <2> DEFINE Box == [feature : Feature, name : Names, runs : Seq(Scenario)]
  <2>0. boxes \in Seq(Box)
    BY DEF RunTypeInv
  <2>1. boxes[b] \in Box
    <3> HIDE DEF Box
    <3> QED
      BY <2>0
  <2>2. boxes[b].runs = Selected(boxes[b].feature, boxes[b].name)
    BY DEF OnceInv, RunsSelected
  <2> QED
    BY <2>1, <2>2, SelectedIs
<1> DEFINE At(b) == {j \in DOMAIN boxes[b].runs : boxes[b].runs[j] = s}
           places == UNION {{<<b, i>> : i \in At(b)} : b \in DOMAIN boxes}
<1>6. ASSUME NEW b \in DOMAIN boxes, NEW i \in At(b)
      PROVE  /\ boxes[b].feature = f /\ boxes[b].name \in Selecting(f, s)
             /\ \A j \in At(b) : j = i
  <2>1. s \in Range(boxes[b].runs)
    BY DEF Range
  <2>2. boxes[b].feature = f
    BY <1>3, <1>5, <2>1
  <2>3. boxes[b].name \in Started(f)
    BY <2>2 DEF Started
  <2>4. boxes[b].name \in Selecting(f, s)
    BY <1>4, <1>5, <2>1, <2>2, <2>3 DEF Selecting
  <2> QED
    BY <1>5, <2>2, <2>4 DEF IsInjective
<1>7. TimesRun(s) = Cardinality(places)
  BY DEF TimesRun
<1>10. Runnable(s) /\ (cut => ReadFromList(s)) => s \in Range(tests[f])
  <2>1. Runnable(s) => s \in Range(Listed(f))
    BY <1>1, ListedIs DEF Runnable
  <2>2. ~cut => tests[f] = Listed(f)
    BY DEF ListInv
  <2>3. ASSUME NEW g \in Feature, s \in Range(tests[g]) PROVE g = f
    <3>1. s \in Range(Listed(g))
      BY <2>3 DEF ListInv
    <3>2. s \in Range(ScenariosOf[g])
      BY <3>1, ListedIs
    <3> QED
      BY <1>2, <3>2
  <2> QED
    BY <2>1, <2>2, <2>3 DEF ReadFromList
<1>11. Runnable(s) /\ (cut => ReadFromList(s)) => Selecting(f, s) # {}
  BY <1>1, <1>10, OneSelects
<1>8. CASE Selecting(f, s) = {}
  <2>1. Selecting(f, s) = {} /\ (Runnable(s) => 0 <= 1) /\ 0 <= 0
    BY <1>8
  <2>2. \A b \in DOMAIN boxes : At(b) = {}
    BY <1>6, <2>1
  <2>3. places = {}
    BY <2>2
  <2> QED
    BY <1>7, <1>8, <1>11, <2>3, FS_EmptySet
<1>9. CASE Selecting(f, s) # {}
  <2>1. PICK n : Runnable(s) /\ Selecting(f, s) = {n}
    BY <1>1, <1>9, OneSelects
  <2>2. n \in Started(f) /\ s \in Range(Selected(f, n))
    BY <1>4, <2>1 DEF Selecting
  <2>3. PICK b \in DOMAIN boxes : boxes[b].feature = f /\ boxes[b].name = n
    BY <2>2 DEF Started
  <2>4. PICK i \in DOMAIN boxes[b].runs : boxes[b].runs[i] = s
    BY <1>5, <2>2, <2>3 DEF Range
  <2>5. i \in At(b)
    BY <2>4
  <2>6. ASSUME NEW c \in DOMAIN boxes, NEW j \in At(c) PROVE c = b /\ j = i
    <3>1. boxes[c].feature = f /\ boxes[c].name = n
      BY <1>6, <2>1, <2>6
    <3>2. c = b
      BY <2>3, <3>1 DEF OnceInv
    <3> QED
      BY <1>6, <2>5, <2>6, <3>2
  <2> HIDE DEF At
  <2>7. places = {<<b, i>>}
    <3>1. <<b, i>> \in places
      BY <2>3, <2>5
    <3>2. ASSUME NEW x \in places PROVE x = <<b, i>>
      <4>1. PICK c \in DOMAIN boxes : x \in {<<c, j>> : j \in At(c)}
        OBVIOUS
      <4>2. PICK j \in At(c) : x = <<c, j>>
        BY <4>1
      <4> QED
        BY <2>6, <4>2
    <3> HIDE DEF places
    <3> QED
      BY <3>1, <3>2
  <2> HIDE DEF places
  <2>8. TimesRun(s) = 1
    BY <1>7, <2>7, FS_Singleton
  <2> QED
    BY <2>1, <2>8
<1> QED
  BY <1>8, <1>9

(* Whatever the files, tags, names and options: every scenario asked for   *)
(* is run once and no other, and of a list cut short every one that was    *)
(* read from it (container-test:285-286,345-403).                          *)
THEOREM EachScenarioOnce == Spec => []ExactlyOnce
BY RunInvariance, RunOnce, PTL

(* So it is with what behave does in the containers.                       *)
COROLLARY SuiteRunsEachOnce == SuiteSpec => []ExactlyOnce
BY SuiteImplementsRun, EachScenarioOnce

----------------------------------------------------------------------------
(* The verdict.                                                            *)
Ending == {"passed", "failed", "broken"}

(* behave adds an end of a scenario to those of its container, or none.    *)
LEMMA BehaveEnds ==
  ASSUME Env!Behave
  PROVE  ended' = ended \/ \E v \in Ending : ended' = Append(ended, v)
<1>1. CASE Env!AfterScenario
  BY <1>1 DEF Env!AfterScenario, Ending
<1>2. CASE Env!AfterBroken
  BY <1>2 DEF Env!AfterBroken, Ending
<1>3. CASE ~(Env!AfterScenario \/ Env!AfterBroken)
  BY <1>3 DEF Env!Behave, Env!SkipScenario, Env!EnterScenario, Env!Backup,
              Env!MoveCopied, Env!MoveDeleted, Env!BackupDone,
              Env!EnsureReposDir, Env!SetupFails, Env!WriteConfig, Env!Step,
              Env!EndSteps
<1> QED
  BY <1>1, <1>2, <1>3

LEMMA InitVerdict == SuiteInit => VerdictInv
<1>1. Range(<<>>) = {}
  BY DEF Range
<1> QED
  BY <1>1 DEF SuiteInit, Init, VerdictInv

LEMMA VerdictStep ==
  RunTypeInv /\ VerdictInv /\ [SuiteNext]_suiteVars => VerdictInv'
<1> SUFFICES ASSUME RunTypeInv, VerdictInv, [SuiteNext]_suiteVars
             PROVE  VerdictInv'
  OBVIOUS
<1>1. CASE Runner
  <2>1. /\ ended' = ended /\ pc' = pc /\ verdicts' = verdicts
        /\ box' = box /\ failed' = failed /\ signalled' = signalled
    BY <1>1 DEF Runner, envVars, DryRun, NextFeature, Finish
  <2>2. exit' = "ok" => failed = {} /\ box = NoBox
    BY <1>1 DEF Runner, DryRun, ListingFails, ListedInFull, ListedInPart, NextFeature,
       Finish, VerdictInv
  <2> QED
    BY <2>1, <2>2 DEF VerdictInv
<1>2. CASE ContainerStarts
  <2>1. /\ ended' = ended /\ verdicts' = verdicts /\ exit' = exit /\ exit = "running"
        /\ failed' = failed /\ signalled' = signalled /\ box' = Head(yields)
        /\ yields # <<>>
    BY <1>2 DEF ContainerStarts, StartContainer
  <2>2. box' # NoBox
    <3>1. Head(yields) \in Names
      BY <2>1, HeadTail DEF RunTypeInv
    <3> QED
      BY <2>1, <3>1, ContainerRunAssumption DEF Names
  <2> QED
    BY <2>1, <2>2 DEF VerdictInv
<1>3. CASE BehaveSteps
  <2>1. /\ box # NoBox /\ box' = box /\ failed' = failed /\ signalled' = signalled
        /\ exit' = exit
        /\ verdicts' = IF ended' = ended THEN verdicts ELSE verdicts \cup {Last(ended')}
    BY <1>3 DEF BehaveSteps, vars
  <2>2. CASE ended' = ended
    BY <2>1, <2>2 DEF VerdictInv
  <2>3. CASE ended' # ended
    <3>1. PICK v \in Ending : ended' = Append(ended, v)
      BY <1>3, <2>3, BehaveEnds DEF BehaveSteps
    <3>2. ended \in Seq(Ending)
      BY DEF VerdictInv, Ending
    <3>3. ended' \in Seq(Ending) /\ Range(ended') = Range(ended) \cup {v}
      BY <3>1, <3>2, AppendOne
    <3>4. Last(ended') = v
      BY <3>1, <3>2 DEF Last
    <3>5. verdicts' = verdicts \cup {v}
      BY <2>1, <2>3, <3>4
    <3> QED
      BY <2>1, <3>3, <3>5 DEF VerdictInv, Ending
  <2> QED
    BY <2>2, <2>3
<1>4. CASE ContainerEnds
  <2> DEFINE rc == IF Range(ended) \cap {"failed", "broken"} # {} THEN 1 ELSE 0
  <2>1. /\ EndContainer(rc) /\ ended' = <<>> /\ pc' = "dead" /\ verdicts' = verdicts
    BY <1>4 DEF ContainerEnds, ContainerRemoved, FreshMachine
  <2>2. /\ box # NoBox /\ box' = NoBox /\ exit' = exit
        /\ failed' = (IF rc > 0 THEN failed \cup {feature} ELSE failed)
        /\ signalled' = (signalled \/ rc < 0)
    BY <2>1 DEF EndContainer, CountsAsFailed
  <2>3. exit' # "ok"
    BY <2>2 DEF VerdictInv
  <2>4. ASSUME failed' = {}, ~signalled' PROVE verdicts' \subseteq {"passed"}
    <3>1. rc = 0
      BY <2>2, <2>4
    <3>2. Range(ended) \subseteq {"passed"}
      <4>1. Range(ended) \subseteq Ending
        BY DEF VerdictInv, Range, Ending
      <4> QED
        BY <3>1, <4>1 DEF Ending
    <3>3. failed = {} /\ ~signalled
      BY <2>2, <2>4, <3>1
    <3> QED
      BY <2>1, <3>2, <3>3 DEF VerdictInv
  <2>5. <<>> \in Seq({"passed", "failed", "broken"})
    OBVIOUS
  <2> QED
    BY <2>1, <2>2, <2>3, <2>4, <2>5 DEF VerdictInv
<1>5. CASE ContainerDies
  <2>1. PICK rc \in {0 - 1, 1} : EndContainer(rc)
    BY <1>5 DEF ContainerDies
  <2>2. /\ box # NoBox /\ box' = NoBox /\ exit' = exit
        /\ failed' = (IF rc > 0 THEN failed \cup {feature} ELSE failed)
        /\ signalled' = (signalled \/ rc < 0)
    BY <2>1 DEF EndContainer, CountsAsFailed
  <2>3. failed' # {} \/ signalled'
    <3>1. rc > 0 \/ rc < 0
      OBVIOUS
    <3>2. CASE rc > 0
      BY <2>2, <3>2
    <3>3. CASE rc < 0
      BY <2>2, <3>3
    <3> QED
      BY <3>1, <3>2, <3>3
  <2>4. ended' = <<>> /\ pc' = "dead"
    BY <1>5 DEF ContainerDies, ContainerRemoved, FreshMachine
  <2>5. exit' # "ok"
    BY <2>2 DEF VerdictInv
  <2>6. <<>> \in Seq({"passed", "failed", "broken"})
    OBVIOUS
  <2> QED
    BY <2>2, <2>3, <2>4, <2>5, <2>6 DEF VerdictInv
<1>6. CASE UNCHANGED suiteVars
  BY <1>6 DEF suiteVars, vars, envVars, VerdictInv
<1> QED
  BY <1>1, <1>2, <1>3, <1>4, <1>5, <1>6 DEF SuiteNext, Suite

LEMMA VerdictInvariance == SuiteSpec => []VerdictInv
<1>1. RunTypeInv /\ VerdictInv /\ [SuiteNext]_suiteVars => VerdictInv'
  BY VerdictStep
<1>2. SuiteSpec => [](RunTypeInv /\ ListInv /\ OnceInv)
  BY SuiteImplementsRun, RunInvariance
<1> QED
  BY <1>1, <1>2, InitVerdict, PTL DEF SuiteSpec

(* However the containers end: a run that ends with success has seen only  *)
(* passed scenarios, but for a killed docker client                        *)
(* (container-test:408-413).                                               *)
THEOREM SuccessIsTrue == SuiteSpec => []SuccessMeansPassed
<1>1. VerdictInv => SuccessMeansPassed
  <2>1. Range(<<>>) = {}
    BY DEF Range
  <2> QED
    BY <2>1 DEF VerdictInv, SuccessMeansPassed
<1> QED
  BY <1>1, VerdictInvariance, PTL

----------------------------------------------------------------------------
(* What ScenarioEnv promises holds in every container: behave only takes   *)
(* steps of ScenarioEnv, and a container starts and ends with a machine of *)
(* which the inductive invariant of ScenarioEnv is true.                   *)
LEMMA SameEnv == Env!Behave => EnvP!Behave
<1> USE DEF Env!Behave, EnvP!Behave
<1>1. Env!SkipScenario => EnvP!SkipScenario
  BY DEF Env!SkipScenario, EnvP!SkipScenario, Env!Skipped, EnvP!Skipped,
         Env!Destructive, EnvP!Destructive, Env!DESTRUCTIVE_TAGS, EnvP!DESTRUCTIVE_TAGS
<1>2. Env!EnterScenario => EnvP!EnterScenario
  BY DEF Env!EnterScenario, EnvP!EnterScenario, Env!Skipped, EnvP!Skipped,
         Env!Destructive, EnvP!Destructive, Env!DESTRUCTIVE_TAGS, EnvP!DESTRUCTIVE_TAGS,
         Env!InstallrootOf, EnvP!InstallrootOf, Env!MkDirs, EnvP!MkDirs,
         Env!Current, EnvP!Current
<1>3. Env!Backup => EnvP!Backup
  BY DEF Env!Backup, EnvP!Backup, Env!BackupExists, EnvP!BackupExists,
         Env!AfterMissing, EnvP!AfterMissing, Env!MoveOrder, EnvP!MoveOrder
<1>4. Env!MoveCopied => EnvP!MoveCopied
  BY DEF Env!MoveCopied, EnvP!MoveCopied, Env!MoveOrder, EnvP!MoveOrder
<1>5. Env!MoveDeleted => EnvP!MoveDeleted
  BY DEF Env!MoveDeleted, EnvP!MoveDeleted, Env!MoveOrder, EnvP!MoveOrder
<1>6. Env!BackupDone => EnvP!BackupDone
  BY DEF Env!BackupDone, EnvP!BackupDone, Env!MoveOrder, EnvP!MoveOrder
<1>7. Env!EnsureReposDir => EnvP!EnsureReposDir
  BY DEF Env!EnsureReposDir, EnvP!EnsureReposDir
<1>8. Env!SetupFails => EnvP!SetupFails
  BY DEF Env!SetupFails, EnvP!SetupFails
<1>9. Env!WriteConfig => EnvP!WriteConfig
  BY DEF Env!WriteConfig, EnvP!WriteConfig
<1>10. Env!Step => EnvP!Step
  BY DEF Env!Step, EnvP!Step, Env!HostPath, EnvP!HostPath, Env!Destructive,
         EnvP!Destructive, Env!DESTRUCTIVE_TAGS, EnvP!DESTRUCTIVE_TAGS
<1>11. Env!EndSteps => EnvP!EndSteps
  BY DEF Env!EndSteps, EnvP!EndSteps
<1>12. Env!AfterScenario => EnvP!AfterScenario
  BY DEF Env!AfterScenario, EnvP!AfterScenario, Env!DeletedByDel, EnvP!DeletedByDel,
         Env!Preserve, EnvP!Preserve, Env!Current, EnvP!Current,
         Env!NoContext, EnvP!NoContext
<1>13. Env!AfterBroken => EnvP!AfterBroken
  BY DEF Env!AfterBroken, EnvP!AfterBroken, Env!NoContext, EnvP!NoContext
<1> QED
  BY <1>1, <1>2, <1>3, <1>4, <1>5, <1>6, <1>7, <1>8, <1>9, <1>10, <1>11, <1>12, <1>13

LEMMA SameMachine ==
  /\ Env!Pristine = EnvP!Pristine /\ Env!NoContext = EnvP!NoContext
  /\ Env!HostPath = EnvP!HostPath /\ Env!MoveOrder = EnvP!MoveOrder
  /\ EnvP!DESTRUCTIVE_TAGS = DESTRUCTIVE_TAGS
BY DEF Env!Pristine, EnvP!Pristine, Env!NoContext, EnvP!NoContext, Env!HostPath,
       EnvP!HostPath, Env!MoveOrder, EnvP!MoveOrder, EnvP!DESTRUCTIVE_TAGS,
       DESTRUCTIVE_TAGS

LEMMA EnvAssumption == EnvP!ScenarioEnvAssumption
<1>1. Cardinality(Scenario) \in Nat
  BY SuiteRunAssumption, FS_CardinalityType
<1>2. {<<>>} \subseteq Seq(Scenario)
  OBVIOUS
<1> QED
  BY <1>1, <1>2, ContainerRunAssumption, SuiteRunAssumption
     DEF EnvP!ScenarioEnvAssumption

(* A machine on which no scenario has begun.                               *)
FreshState ==
  /\ userdata \in EnvP!UserData /\ originals \in SUBSET EnvP!HostPath
  /\ host = EnvP!Pristine /\ system = "clean" /\ dirs = {}
  /\ queue \in Seq(Scenario) /\ ctx = EnvP!NoContext
  /\ pc \in {"ready", "dead"} /\ at = 1 /\ ended = <<>>

LEMMA FreshInv == FreshState => EnvP!IInv
BY EnvP!Paths, EnvAssumption
   DEF FreshState, EnvP!IInv, EnvP!TypeOK, EnvP!ContextInv, EnvP!LoopInv,
       EnvP!MoveInv, EnvP!OriginalsKept, EnvP!HostUntouched, EnvP!StartsClean,
       EnvP!TempDirsCleaned, EnvP!Pristine, EnvP!Content, EnvP!InScenario,
       EnvP!Places

LEMMA FreshInvNext == FreshState' => EnvP!IInv'
BY FreshInv, PTL

(* In a container that behave has not entered, only the queue is open.     *)
EnvInv ==
  /\ EnvP!IInv
  /\ userdata = UserDataOf(options)
  /\ box = NoBox => FreshState

LEMMA InitEnv == SuiteInit => EnvInv
<1> SUFFICES ASSUME SuiteInit PROVE EnvInv
  OBVIOUS
<1>1. userdata = UserDataOf(options) /\ userdata \in EnvP!UserData
  BY DEF SuiteInit, UserDataOf, EnvP!UserData
<1>2. originals \in SUBSET EnvP!HostPath
  BY SuiteRunAssumption, SameMachine DEF SuiteInit
<1>3. FreshState
  BY <1>1, <1>2, SameMachine DEF SuiteInit, FreshState
<1> QED
  BY <1>1, <1>3, FreshInv DEF EnvInv

LEMMA OptionsKept == [SuiteNext]_suiteVars => options' = options
BY DEF SuiteNext, Suite, Runner, ContainerStarts, BehaveSteps, ContainerEnds,
       ContainerDies, DryRun, NextFeature, Finish, StartContainer, EndContainer,
       suiteVars, vars

(* What is left when a container is removed.                               *)
LEMMA Removed ==
  ASSUME EnvInv, ContainerRemoved, pc' = "dead", queue' \in Seq(Scenario),
         UNCHANGED <<userdata, originals>>
  PROVE  FreshState'
<1>1. userdata \in EnvP!UserData /\ originals \in SUBSET EnvP!HostPath
  BY DEF EnvInv, EnvP!IInv, EnvP!TypeOK
<1>2. host' = EnvP!Pristine'
  BY SameMachine DEF ContainerRemoved, FreshMachine, EnvP!Pristine
<1>3. EnvP!NoContext' = EnvP!NoContext
  BY DEF EnvP!NoContext
<1> QED
  BY <1>1, <1>2, <1>3, SameMachine DEF FreshState, ContainerRemoved, FreshMachine,
     EnvP!UserData, EnvP!HostPath

LEMMA EnvStep ==
  RunTypeInv /\ EnvInv /\ [SuiteNext]_suiteVars => EnvInv'
<1> SUFFICES ASSUME RunTypeInv, EnvInv, [SuiteNext]_suiteVars PROVE EnvInv'
  OBVIOUS
<1>0. options' = options /\ userdata' = userdata
  <2>1. CASE BehaveSteps
    BY <2>1, OptionsKept
    DEF BehaveSteps, Env!Behave, Env!SkipScenario, Env!EnterScenario, Env!Backup,
        Env!MoveCopied, Env!MoveDeleted, Env!BackupDone, Env!EnsureReposDir,
        Env!SetupFails, Env!WriteConfig, Env!Step, Env!EndSteps,
        Env!AfterScenario, Env!AfterBroken
  <2>2. CASE ~BehaveSteps
    BY <2>2, OptionsKept
    DEF SuiteNext, Suite, Runner, ContainerStarts, ContainerEnds, ContainerDies,
        suiteVars, envVars
  <2> QED
    BY <2>1, <2>2
<1>1. userdata' = UserDataOf(options')
  BY <1>0 DEF EnvInv
<1>2. ASSUME UNCHANGED envVars PROVE EnvP!IInv' /\ (FreshState => FreshState')
  <2>1. UNCHANGED EnvP!vars
    BY <1>2 DEF envVars, EnvP!vars
  <2>2. EnvP!IInv'
    BY <2>1, EnvP!NextIInv, EnvAssumption DEF EnvInv
  <2>3. FreshState => FreshState'
    BY <1>2 DEF envVars, FreshState, EnvP!UserData, EnvP!HostPath, EnvP!Pristine,
                EnvP!NoContext
  <2> QED
    BY <2>2, <2>3
<1>3. CASE Runner
  <2>1. UNCHANGED envVars /\ box' = box
    BY <1>3 DEF Runner, DryRun, NextFeature, Finish
  <2> QED
    BY <1>1, <1>2, <2>1 DEF EnvInv
<1>4. CASE ContainerStarts
  <2>1. /\ box = NoBox /\ box' = Head(yields) /\ yields # <<>>
        /\ queue' = Selected(feature, Head(yields)) /\ pc' = "ready"
        /\ UNCHANGED <<userdata, originals, host, system, dirs, ctx, at, ended>>
    BY <1>4 DEF ContainerStarts, StartContainer
  <2>2. feature \in Feature /\ Head(yields) \in Names
    BY <2>1, HeadTail DEF RunTypeInv
  <2>3. queue' \in Seq(Scenario) /\ box' # NoBox
    BY <2>1, <2>2, SelectedIs, ContainerRunAssumption DEF Names
  <2>4. FreshState
    BY <2>1 DEF EnvInv
  <2>5. FreshState'
    BY <2>1, <2>3, <2>4 DEF FreshState, EnvP!UserData, EnvP!HostPath,
       EnvP!Pristine, EnvP!NoContext
  <2> QED
    BY <1>1, <2>3, <2>5, FreshInvNext DEF EnvInv
<1>5. CASE BehaveSteps
  <2>1. EnvP!Behave /\ box # NoBox /\ box' = box
    BY <1>5, SameEnv DEF BehaveSteps, vars
  <2>2. EnvP!IInv'
    BY <2>1, EnvP!NextIInv, EnvAssumption DEF EnvInv, EnvP!Next
  <2> QED
    BY <1>1, <2>1, <2>2 DEF EnvInv
<1>6. CASE ContainerEnds
  <2>1. ContainerRemoved /\ pc' = "dead" /\ UNCHANGED <<userdata, originals, queue>>
    BY <1>6 DEF ContainerEnds
  <2>2. queue \in Seq(Scenario)
    BY DEF EnvInv, EnvP!IInv, EnvP!TypeOK
  <2>3. FreshState'
    BY <2>1, <2>2, Removed
  <2> QED
    BY <1>1, <2>3, FreshInvNext DEF EnvInv
<1>7. CASE ContainerDies
  <2>1. ContainerRemoved /\ pc' = "dead" /\ UNCHANGED <<userdata, originals>>
        /\ queue' = <<>>
    BY <1>7 DEF ContainerDies
  <2>2. FreshState'
    BY <2>1, Removed
  <2> QED
    BY <1>1, <2>2, FreshInvNext DEF EnvInv
<1>8. CASE UNCHANGED suiteVars
  <2>1. UNCHANGED envVars /\ box' = box
    BY <1>8 DEF suiteVars, vars
  <2> QED
    BY <1>1, <1>2, <2>1 DEF EnvInv
<1> QED
  BY <1>3, <1>4, <1>5, <1>6, <1>7, <1>8 DEF SuiteNext, Suite

----------------------------------------------------------------------------
(* Which scenarios a machine meets.                                        *)
LEMMA AtMostOne ==
  ASSUME NEW S, NEW q \in Seq(S), IsInjective(q),
         \A x, y \in Range(q) : x = y
  PROVE  Len(q) <= 1
<1> SUFFICES ASSUME Len(q) > 1 PROVE FALSE
  OBVIOUS
<1>1. 1 \in DOMAIN q /\ 2 \in DOMAIN q
  OBVIOUS
<1>2. q[1] = q[2]
  BY <1>1 DEF Range
<1> QED
  BY <1>1, <1>2 DEF IsInjective

(* A scenario that works on "/" or moves the setup files away is           *)
(* destructive: container-test passes no installroot on.                   *)
LEMMA RootIsDestructive ==
  ASSUME EnvInv, EnvP!InScenario,
         ctx.root = "/" \/ pc \in {"backup", "copy", "delete"}
  PROVE  Destructive(ctx.scenario)
<1>1. userdata.installroot = "none"
  BY DEF EnvInv, UserDataOf
<1>2. "no_installroot" \in Tags[ctx.scenario]
  BY <1>1 DEF EnvInv, EnvP!IInv, EnvP!ContextInv
<1> QED
  BY <1>2 DEF Destructive, DESTRUCTIVE_TAGS

(* A bulk run goes on as it began.                                         *)
LEMMA BulkGoesOn ==
  ASSUME EnvInv, BulkIsSafe, EnvP!Behave, box' = box
  PROVE  BulkIsSafe'
<1> SUFFICES ASSUME box = Bulk
             PROVE  /\ \A s \in Range(queue') : ~Destructive(s)
                    /\ EnvP!InScenario' => ~Destructive(ctx'.scenario)
                    /\ system' = "clean"
  BY DEF BulkIsSafe, Destructive
<1>1. /\ \A s \in Range(queue) : ~Destructive(s)
      /\ EnvP!InScenario => ~Destructive(ctx.scenario)
      /\ system = "clean"
  BY DEF BulkIsSafe
<1>2. queue \in Seq(Scenario)
  BY DEF EnvInv, EnvP!IInv, EnvP!TypeOK
<1>3. ASSUME queue # <<>>
      PROVE  ~Destructive(Head(queue)) /\ \A s \in Range(Tail(queue)) : ~Destructive(s)
  BY <1>1, <1>2, <1>3, HeadTail
<1>4. ~EnvP!Step
  <2> SUFFICES ASSUME EnvP!Step PROVE FALSE
    OBVIOUS
  <2>1. pc = "steps" /\ EnvP!InScenario
    BY DEF EnvP!Step, EnvP!InScenario
  <2>2. ctx.root = "/" \/ Destructive(ctx.scenario)
    BY DEF EnvP!Step, EnvP!Destructive, Destructive, EnvP!DESTRUCTIVE_TAGS,
           DESTRUCTIVE_TAGS
  <2> QED
    BY <1>1, <2>1, <2>2, RootIsDestructive
<1>5. CASE EnvP!SkipScenario
  BY <1>1, <1>3, <1>5 DEF EnvP!SkipScenario, EnvP!InScenario
<1>6. CASE EnvP!EnterScenario
  BY <1>1, <1>3, <1>6 DEF EnvP!EnterScenario
<1>7. CASE EnvP!WriteConfig \/ EnvP!EndSteps
  <2>1. EnvP!InScenario /\ queue' = queue /\ system' = system
    BY <1>7 DEF EnvP!WriteConfig, EnvP!EndSteps, EnvP!InScenario
  <2>2. ctx'.scenario = ctx.scenario
    <3>1. ctx \in EnvP!Context
      BY <2>1 DEF EnvInv, EnvP!IInv, EnvP!TypeOK
    <3> QED
      BY <1>7, <3>1 DEF EnvP!WriteConfig, EnvP!EndSteps, EnvP!Context
  <2> QED
    BY <1>1, <2>1, <2>2
<1>8. CASE EnvP!AfterScenario \/ EnvP!AfterBroken
  BY <1>1, <1>8 DEF EnvP!AfterScenario, EnvP!AfterBroken, EnvP!InScenario
<1>9. CASE \/ EnvP!Backup \/ EnvP!MoveCopied \/ EnvP!MoveDeleted \/ EnvP!BackupDone
           \/ EnvP!EnsureReposDir \/ EnvP!SetupFails
  <2>1. EnvP!InScenario /\ UNCHANGED <<queue, ctx, system>>
    BY <1>9 DEF EnvP!Backup, EnvP!MoveCopied, EnvP!MoveDeleted, EnvP!BackupDone,
       EnvP!EnsureReposDir, EnvP!SetupFails, EnvP!InScenario
  <2> QED
    BY <1>1, <2>1
<1> QED
  BY <1>4, <1>5, <1>6, <1>7, <1>8, <1>9 DEF EnvP!Behave

(* In a run of one name the scenario that behave enters is the first and   *)
(* the last of the machine.                                                *)
LEMMA OneGoesOn ==
  ASSUME EnvInv, OneIsFirst, EnvP!Behave, box' = box
  PROVE  OneIsFirst'
<1> DEFINE moving(p) == p \in {"backup", "copy", "delete"}
           free(h, p, k) == \A i \in 1..3 : i > k \/ (p = "backup" /\ i = k) =>
                              h[EnvP!MoveOrder[i]].backup = "absent"
           early(p) == p \in {"backup", "copy", "delete", "ensure", "config"}
<1>0. /\ EnvP!MoveOrder' = EnvP!MoveOrder /\ EnvP!HostPath' = EnvP!HostPath
  BY DEF EnvP!MoveOrder, EnvP!HostPath
<1> SUFFICES ASSUME box \notin {Bulk, NoBox}
             PROVE  /\ Len(queue') <= 1
                    /\ queue' # <<>> => pc' = "ready" /\ host' = EnvP!Pristine'
                                        /\ system' = "clean"
                    /\ early(pc') => system' = "clean"
                    /\ moving(pc') => free(host', pc', at')
  BY <1>0 DEF OneIsFirst
<1>1. /\ Len(queue) <= 1
      /\ queue # <<>> => pc = "ready" /\ host = EnvP!Pristine /\ system = "clean"
      /\ early(pc) => system = "clean"
      /\ moving(pc) => free(host, pc, at)
  BY DEF OneIsFirst
<1>2. /\ queue \in Seq(Scenario) /\ at \in 1..4 /\ host \in EnvP!Hosts
      /\ pc \in {"copy", "delete"} => at \in 1..3
  <2>1. EnvP!TypeOK /\ EnvP!LoopInv /\ Len(EnvP!MoveOrder) = 3
    BY EnvP!Paths, EnvAssumption DEF EnvInv, EnvP!IInv
  <2>2. queue \in Seq(Scenario) /\ at \in 1..4
    BY <2>1 DEF EnvP!TypeOK
  <2>3. host \in EnvP!Hosts
    BY <2>1 DEF EnvP!TypeOK, EnvP!Hosts
  <2>4. pc \in {"copy", "delete"} => at \in 1..3
    BY <2>1 DEF EnvP!LoopInv
  <2> QED
    BY <2>2, <2>3, <2>4
<1>3. queue # <<>> => Tail(queue) = <<>>
  BY <1>1, <1>2
<1>4. CASE EnvP!SkipScenario
  BY <1>1, <1>3, <1>4 DEF EnvP!SkipScenario
<1>5. CASE EnvP!EnterScenario
  <2>1. queue # <<>> /\ queue' = <<>> /\ host' = host /\ system' = system
        /\ at' = 1 /\ pc' \in {"backup", "ensure"}
    BY <1>3, <1>5 DEF EnvP!EnterScenario
  <2>2. free(host', pc', at')
    BY <1>1, <2>1, EnvP!Paths, EnvAssumption DEF EnvP!Pristine
  <2> QED
    BY <1>1, <2>1, <2>2
<1>6. CASE EnvP!Backup
  <2>1. /\ pc = "backup" /\ at \in 1..3 /\ queue = <<>> /\ queue' = queue
        /\ system' = system /\ system = "clean"
    BY <1>1, <1>2, <1>6, EnvP!Paths, EnvAssumption DEF EnvP!Backup
  <2>2. \/ pc' = "broken"
        \/ pc' = pc /\ at' = at + 1 /\ host' = host
        \/ /\ pc' = "copy" /\ at' = at
           /\ host' = [host EXCEPT ![EnvP!MoveOrder[at]].backup = "partial"]
    BY <1>6 DEF EnvP!Backup, EnvP!AfterMissing
  <2>3. CASE pc' = pc /\ at' = at + 1 /\ host' = host
    BY <1>1, <2>1, <2>3
  <2>4. CASE /\ pc' = "copy" /\ at' = at
             /\ host' = [host EXCEPT ![EnvP!MoveOrder[at]].backup = "partial"]
    <3>1. \A i \in 1..3 : i > at => host'[EnvP!MoveOrder[i]] = host[EnvP!MoveOrder[i]]
      BY <1>2, <2>1, <2>4, EnvP!Paths, EnvAssumption DEF EnvP!Hosts
    <3> QED
      BY <1>1, <2>1, <2>4, <3>1
  <2> QED
    BY <2>1, <2>2, <2>3, <2>4
<1>7. CASE EnvP!MoveCopied
  <2>1. /\ pc = "copy" /\ pc' = "delete" /\ at \in 1..3 /\ at' = at
        /\ queue = <<>> /\ queue' = queue /\ system' = system /\ system = "clean"
    BY <1>1, <1>2, <1>7 DEF EnvP!MoveCopied
  <2>2. \A i \in 1..3 : i > at => host'[EnvP!MoveOrder[i]] = host[EnvP!MoveOrder[i]]
    BY <1>2, <1>7, <2>1, EnvP!Paths, EnvAssumption DEF EnvP!Hosts, EnvP!MoveCopied
  <2> QED
    BY <1>1, <2>1, <2>2
<1>8. CASE EnvP!MoveDeleted
  <2>1. /\ pc = "delete" /\ pc' = "backup" /\ at \in 1..3 /\ at' = at + 1
        /\ queue = <<>> /\ queue' = queue /\ system' = system /\ system = "clean"
    BY <1>1, <1>2, <1>8 DEF EnvP!MoveDeleted
  <2>2. \A i \in 1..3 : i > at => host'[EnvP!MoveOrder[i]] = host[EnvP!MoveOrder[i]]
    BY <1>2, <1>8, <2>1, EnvP!Paths, EnvAssumption DEF EnvP!Hosts, EnvP!MoveDeleted
  <2>3. \A i \in 1..3 : i > at' \/ i = at' => i > at
    BY <2>1
  <2> QED
    BY <1>1, <2>1, <2>2, <2>3
<1>9. CASE EnvP!BackupDone \/ EnvP!EnsureReposDir \/ EnvP!SetupFails
  BY <1>1, <1>9 DEF EnvP!BackupDone, EnvP!EnsureReposDir, EnvP!SetupFails
<1>10. CASE EnvP!WriteConfig \/ EnvP!Step \/ EnvP!EndSteps
  BY <1>1, <1>10 DEF EnvP!WriteConfig, EnvP!Step, EnvP!EndSteps
<1>11. CASE EnvP!AfterScenario \/ EnvP!AfterBroken
  BY <1>1, <1>11 DEF EnvP!AfterScenario, EnvP!AfterBroken
<1> QED
  BY <1>4, <1>5, <1>6, <1>7, <1>8, <1>9, <1>10, <1>11 DEF EnvP!Behave

LEMMA InitMachine == SuiteInit => MachineInv
BY ContainerRunAssumption DEF SuiteInit, Init, MachineInv, BulkIsSafe, OneIsFirst

LEMMA MachineStep ==
  RunTypeInv /\ EnvInv /\ MachineInv /\ [SuiteNext]_suiteVars => MachineInv'
<1> SUFFICES ASSUME RunTypeInv, EnvInv, MachineInv, [SuiteNext]_suiteVars,
                    UniqueNames, ~Daemon'
             PROVE  BulkIsSafe' /\ OneIsFirst'
  BY DEF MachineInv
<1>0. ~Daemon /\ BulkIsSafe /\ OneIsFirst
  BY OptionsKept DEF MachineInv, Daemon
<1>1. ASSUME UNCHANGED envVars, box' = box PROVE BulkIsSafe' /\ OneIsFirst'
  <2>1. EnvP!Pristine' = EnvP!Pristine /\ EnvP!MoveOrder' = EnvP!MoveOrder
    BY <1>1 DEF envVars, EnvP!Pristine, EnvP!HostPath, EnvP!MoveOrder
  <2>2. /\ queue' = queue /\ ctx' = ctx /\ system' = system /\ pc' = pc
        /\ host' = host /\ at' = at
    BY <1>1 DEF envVars
  <2>3. BulkIsSafe'
    BY <1>0, <1>1, <2>2 DEF BulkIsSafe, Destructive, EnvP!InScenario
  <2>4. OneIsFirst'
    BY <1>0, <1>1, <2>1, <2>2 DEF OneIsFirst
  <2> QED
    BY <2>3, <2>4
<1>2. CASE Runner
  BY <1>1, <1>2 DEF Runner, DryRun, NextFeature, Finish
<1>3. CASE ContainerStarts
  <2> DEFINE n == Head(yields)
  <2>1. /\ box = NoBox /\ box' = n /\ yields # <<>>
        /\ queue' = Selected(feature, n) /\ pc' = "ready"
        /\ UNCHANGED <<userdata, originals, host, system, dirs, ctx, at, ended>>
    BY <1>3 DEF ContainerStarts, StartContainer
  <2>2. feature \in Feature
    BY <2>1 DEF RunTypeInv
  <2>3. /\ host' = EnvP!Pristine' /\ system' = "clean"
    BY <2>1 DEF EnvInv, FreshState, EnvP!Pristine, EnvP!HostPath
  <2> HIDE DEF n
  <2>4. /\ queue' \in Seq(Scenario) /\ IsInjective(queue')
        /\ Range(queue') =
             {s \in Range(Listed(feature)) : IF n = Bulk THEN Tags[s] \cap BulkExcluded = {}
                                             ELSE NameOf[s] = n}
    BY <2>1, <2>2, SelectedIs
  <2>5. n = Bulk => \A s \in Range(queue') : ~Destructive(s)
    BY <1>0, <2>4 DEF BulkExcluded, Destructive
  <2>6. BulkIsSafe'
    BY <2>1, <2>3, <2>5 DEF BulkIsSafe, Destructive, EnvP!InScenario
  <2>7. n # Bulk => Len(queue') <= 1
    <3>1. \A s \in Range(Listed(feature)) : s \in Range(ScenariosOf[feature])
      BY <2>2, ListedIs
    <3>2. \A s, t \in Range(ScenariosOf[feature]) : NameOf[s] = NameOf[t] => s = t
      BY <2>2 DEF UniqueNames, Range
    <3>3. n # Bulk => \A s, t \in Range(queue') : s = t
      BY <2>4, <3>1, <3>2
    <3> QED
      BY <2>4, <3>3, AtMostOne
  <2>8. OneIsFirst'
    BY <2>1, <2>3, <2>7 DEF OneIsFirst
  <2> QED
    BY <2>6, <2>8
<1>4. CASE BehaveSteps
  <2>1. EnvP!Behave /\ box' = box
    BY <1>4, SameEnv DEF BehaveSteps, vars
  <2> QED
    BY <1>0, <2>1, BulkGoesOn, OneGoesOn
<1>5. CASE ContainerEnds \/ ContainerDies
  <2>1. box' = NoBox
    BY <1>5 DEF ContainerEnds, ContainerDies, EndContainer
  <2> QED
    BY <2>1, ContainerRunAssumption DEF BulkIsSafe, OneIsFirst
<1>6. CASE UNCHANGED suiteVars
  BY <1>1, <1>6 DEF suiteVars, vars
<1> QED
  BY <1>2, <1>3, <1>4, <1>5, <1>6 DEF SuiteNext, Suite

SuiteInv == RunTypeInv /\ EnvInv /\ MachineInv

LEMMA SuiteInvariance == SuiteSpec => []SuiteInv
<1>1. SuiteInit => SuiteInv
  BY InitOnce, InitEnv, InitMachine DEF SuiteInit, SuiteInv
<1>2. SuiteInv /\ [SuiteNext]_suiteVars => EnvInv' /\ MachineInv'
  BY EnvStep, MachineStep DEF SuiteInv
<1>3. SuiteSpec => []RunTypeInv
  BY SuiteImplementsRun, RunInvariance, PTL
<1>4. SuiteInv <=> RunTypeInv /\ EnvInv /\ MachineInv
  BY DEF SuiteInv
<1> QED
  BY <1>1, <1>2, <1>3, <1>4, PTL DEF SuiteSpec

(* The constructor of a no_installroot scenario never finds the backup of  *)
(* another, whatever the image comes with (environment.py:60-63 in the     *)
(* containers of container-test:363-403).                                  *)
THEOREM NeverFoundUnclean == SuiteSpec => []NeverUnclean
<1>1. SuiteInv => NeverUnclean
  <2> SUFFICES ASSUME RunTypeInv, EnvInv, MachineInv, UniqueNames, ~Daemon,
                      pc = "backup", at <= Len(Env!MoveOrder)
               PROVE  host[Env!MoveOrder[at]].backup = "absent"
    BY DEF SuiteInv, NeverUnclean
  <2>1. EnvP!InScenario /\ BulkIsSafe /\ OneIsFirst
    BY DEF MachineInv, EnvP!InScenario
  <2>2. box # NoBox
    BY DEF EnvInv, FreshState
  <2>3. box # Bulk
    BY <2>1, RootIsDestructive DEF BulkIsSafe
  <2>4. at \in 1..3 /\ Env!MoveOrder = EnvP!MoveOrder
    <3>1. EnvP!TypeOK
      BY DEF EnvInv, EnvP!IInv
    <3>2. Len(EnvP!MoveOrder) = 3
      BY EnvP!Paths, EnvAssumption
    <3>3. at \in 1..4
      BY <3>1, <3>2 DEF EnvP!TypeOK
    <3>4. Env!MoveOrder = EnvP!MoveOrder
      BY SameMachine
    <3>5. at <= 3
      BY <3>2, <3>4
    <3> QED
      BY <3>3, <3>4, <3>5
  <2> QED
    BY <2>1, <2>2, <2>3, <2>4 DEF OneIsFirst
<1> QED
  BY <1>1, SuiteInvariance, PTL

(* The steps of a scenario start on a machine that no destructive scenario *)
(* has changed, for any split of any suite over containers                 *)
(* (container-test:342-403 with environment.py:176-212).                   *)
THEOREM StartIsPristine == SuiteSpec => PristineStart
<1>1. SuiteInv /\ [SuiteNext]_suiteVars =>
        [UniqueNames /\ ~Daemon /\ pc # "steps" /\ pc' = "steps" => system = "clean"]_suiteVars
  <2> SUFFICES ASSUME RunTypeInv, EnvInv, MachineInv, SuiteNext, UniqueNames, ~Daemon,
                      pc # "steps", pc' = "steps"
               PROVE  system = "clean"
    BY DEF SuiteInv
  <2>1. BehaveSteps
    BY DEF SuiteNext, Suite, Runner, envVars, ContainerStarts, ContainerEnds, ContainerDies
  <2>2. box # NoBox /\ EnvP!Behave
    BY <2>1, SameEnv DEF BehaveSteps
  <2>3. pc = "config"
    BY <2>2 DEF EnvP!Behave, EnvP!SkipScenario, EnvP!EnterScenario, EnvP!Backup,
       EnvP!MoveCopied, EnvP!MoveDeleted, EnvP!BackupDone, EnvP!EnsureReposDir,
       EnvP!SetupFails, EnvP!WriteConfig, EnvP!Step, EnvP!EndSteps,
       EnvP!AfterScenario, EnvP!AfterBroken
  <2> QED
    BY <2>2, <2>3 DEF MachineInv, BulkIsSafe, OneIsFirst
<1> QED
  BY <1>1, SuiteInvariance, PTL DEF SuiteSpec, PristineStart

(* What holds on a machine holds in each container: in particular, with    *)
(* --no-destructive no container is changed (environment.py:193-202).      *)
THEOREM ContainersAreMachines ==
  SuiteSpec => [](Env!TypeOK /\ Env!OriginalsKept /\ Env!HostUntouched /\ Env!StartsClean)
<1>1. SuiteInv => Env!TypeOK /\ Env!OriginalsKept /\ Env!HostUntouched /\ Env!StartsClean
  <2> SUFFICES ASSUME EnvP!TypeOK, EnvP!OriginalsKept, EnvP!HostUntouched, EnvP!StartsClean
               PROVE  Env!TypeOK /\ Env!OriginalsKept /\ Env!HostUntouched /\ Env!StartsClean
    BY DEF SuiteInv, EnvInv, EnvP!IInv
  <2>1. Env!TypeOK
    BY DEF Env!TypeOK, EnvP!TypeOK, Env!UserData, EnvP!UserData, Env!HostPath,
       EnvP!HostPath, Env!Content, EnvP!Content, Env!DirKind, EnvP!DirKind,
       Env!Places, EnvP!Places, Env!MoveOrder, EnvP!MoveOrder, Env!Verdicts,
       EnvP!Verdicts, Env!InScenario, EnvP!InScenario, Env!Context, EnvP!Context,
       Env!Roots, EnvP!Roots, Env!NoContext, EnvP!NoContext
  <2>2. Env!OriginalsKept
    BY DEF Env!OriginalsKept, EnvP!OriginalsKept
  <2>3. Env!HostUntouched
    BY SameMachine DEF Env!HostUntouched, EnvP!HostUntouched
  <2>4. Env!StartsClean
    BY DEF Env!StartsClean, EnvP!StartsClean, Env!HostPath, EnvP!HostPath
  <2> QED
    BY <2>1, <2>2, <2>3, <2>4
<1> QED
  BY <1>1, SuiteInvariance, PTL

=============================================================================
