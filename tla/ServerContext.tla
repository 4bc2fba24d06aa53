--------------------------- MODULE ServerContext ---------------------------
(***************************************************************************)
(* The http, https and ftp servers a scenario starts: the ServerContext    *)
(* objects of the behave process (one for http and https, one for ftp) and *)
(* the server processes they fork (dnf/steps/fixtures/server.py, httpd.py, *)
(* ftpd.py). The parent picks a free port, lets it go, forks the child and *)
(* polls; the child binds the port in its own time. A process unrelated to *)
(* the tests may take the port in between.                                 *)
(***************************************************************************)
EXTENDS Naturals, FiniteSets, Sequences

CONSTANTS
  Path,          \* directories to be served
  Port,          \* ports of localhost
  MaxAttempts,   \* how often the parent tries to connect (10 in the code)
  MaxStarts,     \* bound: server processes forked in all scenarios together
  MaxForeign     \* bound: ports held by processes outside the tests

ASSUME ServerContextAssumption ==
  /\ MaxAttempts \in Nat \ {0}
  /\ MaxStarts \in Nat
  /\ MaxForeign \in Nat

Kind == {"http", "https", "ftp"}
Ctx == {"httpd", "ftpd"}
CtxOf(kind) == IF kind = "ftp" THEN "ftpd" ELSE "httpd"

VARIABLES
  child,     \* the server processes, in the order they were forked
  servers,   \* servers[c][path]: the child recorded for path, or 0
  error,     \* error[c]: the child that wrote c's _error, 0 while it is empty
  foreign,   \* ports on which an unrelated process listens
  parent,    \* the parent: "idle", "check", "connect", "failed" or "over"
  awaited,   \* the child whose start the parent waits for, 0 outside the wait
  attempts,  \* of the wait, 0 outside it
  returned,  \* history: what the last _start_server returned, NoReturn when
             \* there is none
  before     \* history: the children forked before this scenario

serverVars == <<child, servers, error, foreign, parent, awaited, attempts, returned, before>>
parentVars == <<parent, awaited, attempts, returned, before>>

ChildState == {"forked", "listening", "serving", "signalled", "gone"}
Child == [kind : Kind, path : Path, port : Port, bound : BOOLEAN, state : ChildState]
NoReturn == [kind |-> "none", path |-> "none", port |-> 0, by |-> 0]

(* A bound socket stays bound until its process is gone.                   *)
HeldBy(i, p) == child[i].bound /\ child[i].state # "gone" /\ child[i].port = p
Listener(p) == {i \in DOMAIN child : HeldBy(i, p)}
Free(p) == Listener(p) = {} /\ p \notin foreign

Alive(i) == child[i].state \in {"forked", "listening", "serving"}

ServerInit ==
  /\ child = <<>>
  /\ servers = [c \in Ctx |-> [p \in Path |-> 0]]
  /\ error = [c \in Ctx |-> 0]
  /\ foreign = {}
  /\ parent = "idle"
  /\ awaited = 0
  /\ attempts = 0
  /\ returned = NoReturn
  /\ before = 0

----------------------------------------------------------------------------
(* The parent.                                                             *)

(* _start_server for a path that has a server: its address is returned,    *)
(* whatever kind of server it is.                                          *)
ReuseServer(kind, path) ==
  /\ parent = "idle"
  /\ servers[CtxOf(kind)][path] # 0
  /\ LET i == servers[CtxOf(kind)][path] IN
       returned' = [kind |-> kind, path |-> path, port |-> child[i].port, by |-> i]
  /\ UNCHANGED <<child, servers, error, foreign, parent, awaited, attempts, before>>

RecordNothing(kind, path) == servers     \* mutant: recorded once it is ready

(* The new process is recorded as soon as it is started.                   *)
Recorded(kind, path) ==
  [servers EXCEPT ![CtxOf(kind)][path] = Len(child) + 1]

(* _get_free_socket and process.start(): the port is free when it is       *)
(* chosen, and nobody holds it when the child starts.                      *)
StartServer(kind, path) ==
  /\ parent = "idle"
  /\ servers[CtxOf(kind)][path] = 0
  /\ Len(child) < MaxStarts
  /\ \E p \in Port :
       /\ Free(p)
       /\ child' = Append(child, [kind |-> kind, path |-> path, port |-> p,
                                  bound |-> FALSE, state |-> "forked"])
  /\ servers' = Recorded(kind, path)
  /\ awaited' = Len(child) + 1
  /\ attempts' = 1
  /\ parent' = "check"
  /\ returned' = NoReturn
  /\ UNCHANGED <<error, foreign, before>>

(* The error is looked at before the connection is tried.                  *)
CheckError ==
  /\ parent = "check"
  /\ parent' = IF error[CtxOf(child[awaited].kind)] # 0 THEN "failed" ELSE "connect"
  /\ UNCHANGED <<child, servers, error, foreign, awaited, attempts, returned, before>>

ConnectUnanswered(p) == TRUE     \* mutant: the outcome of connect is ignored

(* A connection succeeds if anybody listens on the port.                   *)
Answered(p) == ~Free(p)

AttemptsSame == attempts         \* mutant: the attempts are not counted

NextAttempt == attempts + 1

Connect ==
  /\ parent = "connect"
  /\ LET p == child[awaited].port IN
       \/ /\ Answered(p)
          /\ returned' = [kind |-> child[awaited].kind, path |-> child[awaited].path,
                          port |-> p, by |-> awaited]
          /\ parent' = "idle"
          /\ awaited' = 0
          /\ attempts' = 0
       \/ /\ ~Answered(p)
          /\ attempts' = NextAttempt
          /\ parent' = IF NextAttempt <= MaxAttempts THEN "check" ELSE "failed"
          /\ UNCHANGED <<awaited, returned>>
  /\ UNCHANGED <<child, servers, error, foreign, before>>

(* terminate() sends a signal and does not wait for the process to go.     *)
Signal(S) ==
  [i \in DOMAIN child |->
     IF i \in S /\ Alive(i) THEN [child[i] EXCEPT !.state = "signalled"]
     ELSE child[i]]

(* stop_server; for a path without a server it raises KeyError and the     *)
(* step fails.                                                             *)
StopServer(c, path) ==
  /\ parent = "idle"
  /\ IF servers[c][path] = 0
     THEN parent' = "failed" /\ UNCHANGED <<child, servers>>
     ELSE /\ child' = Signal({servers[c][path]})
          /\ servers' = [servers EXCEPT ![c][path] = 0]
          /\ UNCHANGED parent
  /\ returned' = NoReturn
  /\ UNCHANGED <<error, foreign, awaited, attempts, before>>

ShutdownFirstOnly ==             \* mutant: only the http servers are stopped
  Signal({servers["httpd"][p] : p \in Path})

(* shutdown of both contexts, by the finalizers of their fixtures.         *)
Shutdown == Signal({servers[c][p] : c \in Ctx, p \in Path})

(* The scenario ends, after a failed step at once.                         *)
EndScenario ==
  /\ parent \in {"idle", "failed"}
  /\ child' = Shutdown
  /\ parent' = "over"
  /\ awaited' = 0
  /\ attempts' = 0
  /\ returned' = NoReturn
  /\ UNCHANGED <<servers, error, foreign, before>>

ErrorKept == error               \* mutant: one _error for all the contexts

NewErrors == [c \in Ctx |-> 0]

(* The next scenario makes ServerContexts of its own.                      *)
NewContexts ==
  /\ parent = "over"
  /\ Len(child) < MaxStarts
  /\ servers' = [c \in Ctx |-> [p \in Path |-> 0]]
  /\ error' = NewErrors
  /\ before' = Len(child)
  /\ parent' = "idle"
  /\ UNCHANGED <<child, foreign, awaited, attempts, returned>>

----------------------------------------------------------------------------
(* A server process.                                                       *)

Become(i, state) == child' = [child EXCEPT ![i].state = state]

Fail(i) ==
  /\ Become(i, "gone")
  /\ error' = [error EXCEPT ![CtxOf(child[i].kind)] = i]

(* Making the server binds the port and listens, and fails if the port has *)
(* been taken, or before that if the directory cannot be entered. An https *)
(* server then still has to load its certificates.                         *)
Bind(i) ==
  /\ child[i].state = "forked"
  /\ \/ /\ Free(child[i].port)
        /\ child' = [child EXCEPT ![i].bound = TRUE,
                       ![i].state = IF child[i].kind = "https"
                                    THEN "listening" ELSE "serving"]
        /\ UNCHANGED error
     \/ Fail(i)
  /\ UNCHANGED <<servers, foreign, parentVars>>

LoadCertificates(i) ==
  /\ child[i].state = "listening"
  /\ \/ Become(i, "serving") /\ UNCHANGED error
     \/ Fail(i)
  /\ UNCHANGED <<servers, foreign, parentVars>>

ChildExit(i) ==
  /\ child[i].state = "signalled"
  /\ Become(i, "gone")
  /\ UNCHANGED <<servers, error, foreign, parentVars>>

(* A process outside the tests takes a port, and keeps it.                 *)
ForeignTakes(p) ==
  /\ Free(p)
  /\ Cardinality(foreign) < MaxForeign
  /\ foreign' = foreign \cup {p}
  /\ UNCHANGED <<child, servers, error, parentVars>>

ParentStart ==
  \E path \in Path, kind \in Kind : ReuseServer(kind, path) \/ StartServer(kind, path)

Parent ==
  \/ ParentStart
  \/ CheckError \/ Connect
  \/ \E path \in Path, c \in Ctx : StopServer(c, path)
  \/ EndScenario \/ NewContexts

ChildStep(i) == Bind(i) \/ LoadCertificates(i) \/ ChildExit(i)

ServerNext ==
  \/ Parent
  \/ \E i \in DOMAIN child : ChildStep(i)
  \/ \E p \in Port : ForeignTakes(p)

ServerSpec == ServerInit /\ [][ServerNext]_serverVars

(* The parent's loop runs on its own clock, a scenario comes to its end,   *)
(* and a signal that was sent is delivered. Nothing says that a server     *)
(* process that was not stopped ever gets anywhere.                        *)
Fairness ==
  /\ WF_serverVars(CheckError)
  /\ WF_serverVars(Connect)
  /\ WF_serverVars(EndScenario)
  /\ \A i \in 1..MaxStarts : WF_serverVars(i \in DOMAIN child /\ ChildExit(i))

FairSpec == ServerSpec /\ Fairness

----------------------------------------------------------------------------
(* Properties.                                                             *)

(* A server process nobody has told to stop can still be told: it is in    *)
(* the table of its context, whether its start succeeded, failed or is     *)
(* still under way, until the scenario ends; after that there is none      *)
(* (server.py:39-44, 67-68, 78-83).                                        *)
NoOrphan ==
  \A i \in DOMAIN child : Alive(i) =>
    /\ parent # "over"
    /\ servers[CtxOf(child[i].kind)][child[i].path] = i

(* When the wait for a new server ends well, the process that answers on   *)
(* the returned port is the one just started, unless a foreign process has *)
(* taken the port (server.py:23-28, 41-65).                                *)
AnsweredByNewServer ==
  [][parent = "connect" /\ parent' = "idle" /\ child[awaited].port \notin foreign =>
       Listener(child[awaited].port) = {awaited}]_serverVars

(* A server that failed in one scenario is never the reason why a server   *)
(* does not start in a later one, although every context keeps the first   *)
(* error for as long as it lives (server.py:30-33, 48-49).                 *)
FailsForItsOwnScenario ==
  [][parent = "check" /\ parent' = "failed" =>
       error[CtxOf(child[awaited].kind)] > before]_serverVars

(* Every wait for a server ends (server.py:46-63).                         *)
StartEnds == parent \in {"check", "connect"} ~> parent \in {"idle", "failed"}

(* When a scenario is over all its servers go away and release their       *)
(* ports (server.py:78-83).                                                *)
ServersGo ==
  \A i \in 1..MaxStarts :
    (i \in DOMAIN child) ~> (i \in DOMAIN child /\ child[i].state = "gone")
=============================================================================
