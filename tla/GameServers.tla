----------------------------- MODULE GameServers -----------------------------
(***************************************************************************)
(* A game server: its row, the deployments and workload rows behind it,    *)
(* the commands its node is sent, and the grants of access to it           *)
(* (game-servers.routes.ts, and what nodes.routes.ts does on results).     *)
(* Its application is one like any other: the routes of deployments        *)
(* (applications.routes.ts:543) act on the same rows and do not know of    *)
(* the server's.                                                           *)
(*                                                                         *)
(* A deployment has one replica and a volume, so that a workload that      *)
(* failed still counts (one made by the deploy route lacks the volume).    *)
(* The passes of the reconciler are one step here; Reconciler cuts them,   *)
(* Rollout what supersedes a revision, and NodeAgent the delivery of       *)
(* commands. The port of a game server has no exposure and is never        *)
(* published, so runtimePort stays empty and is left out. The lifecycle    *)
(* (gsVars) and the grants (gaVars) are independent.                       *)
(***************************************************************************)
EXTENDS FiniteSets, Naturals

CONSTANTS
  GameRevisions, \* bound of the model: deployments of its application
  OwnRevision,   \* the one that it was created with
  GameRows,      \* bound of the model: workload rows ever placed
  GameCalls,     \* handlers of requests and results in progress at once
  Players,       \* users of the organization
  Crews, CrewOf, \* teams, and the users in each
  GrantIds,      \* bound of the model: rows of grants at once
  MaxGrantCalls  \* requests about grants past their checks at once

ASSUME GameServersAssumption ==
  /\ CrewOf \in [Crews -> SUBSET Players] /\ Players \cap Crews = {} /\ Players # {}
  /\ GrantIds # {} /\ MaxGrantCalls \in Nat /\ OwnRevision \in GameRevisions

VARIABLES
  gameServer,    \* game_servers row: its kind and its status
  gameDesired,   \* desiredState of its deployments
  gameWorkload,  \* workload rows
  gameCommand,   \* agent commands of every workload
  gameContainer, \* workloads whose container runs on the node
  gameCall,      \* handlers in progress
  gameRaced,     \* history: a request met another one, a pass or an open start
  gameBypassed,  \* history: deployments were acted on since its status was written
  grant,         \* game_server_access rows
  grantRequests, \* requests about grants between their checks and their write
  grantRaced     \* history: two of them were in progress together

gsVars == <<gameServer, gameDesired, gameWorkload, gameCommand, gameContainer, gameCall, gameRaced,
            gameBypassed>>
gaVars == <<grant, grantRequests, grantRaced>>

Kinds == {"none", "legacy", "managed"}
GameStatus == {"provisioning", "running", "stopped", "failed"}
CommandStatus == {"none", "pending", "delivered", "succeeded", "failed"}
Open(status) == status \in {"pending", "delivered"}
GameDesired == {"none", "running", "stopped", "superseded"}
GameCallType == [pc : {"idle", "stopRows", "stopped", "starting", "reconcile", "delete", "report",
                       "restartRows", "supersede"},
                 of : GameRevisions, outcome : {"running", "failed"}]
NoGameCall == [pc |-> "idle", of |-> OwnRevision, outcome |-> "failed"]
NoWorkload == [of |-> OwnRevision, desired |-> "none", actual |-> "none"]
NoCommands == [start |-> "none", stop |-> "none", ask |-> "none"]

GsInit ==
  /\ gameServer = [kind |-> "legacy", status |-> "stopped"]
  /\ gameDesired = [r \in GameRevisions |-> "none"]
  /\ gameWorkload = [w \in GameRows |-> NoWorkload]
  /\ gameCommand = [w \in GameRows |-> NoCommands]
  /\ gameContainer = {}
  /\ gameCall = [c \in GameCalls |-> NoGameCall]
  /\ gameRaced = FALSE /\ gameBypassed = FALSE

WantedRows == {w \in GameRows : gameWorkload[w].desired = "running"}
RowsOf(r) == {w \in WantedRows : gameWorkload[w].of = r}
GameBusy == \E c \in GameCalls : gameCall[c].pc # "idle"
StartOpen == \E w \in GameRows : Open(gameCommand[w].start)

(* A request of a user who holds the role that it takes.                   *)
GameRequest(c, pc, r) ==
  /\ gameCall[c].pc = "idle"
  /\ gameCall' = [gameCall EXCEPT ![c] = [pc |-> pc, of |-> r, outcome |-> "failed"]]
  /\ gameRaced' = (gameRaced \/ GameBusy \/ StartOpen)
CallAt(c, pc) == gameCall[c].pc = pc
GoOn(c, pc) == gameCall' = [gameCall EXCEPT ![c].pc = pc]
EndGame(c) == gameCall' = [gameCall EXCEPT ![c] = NoGameCall]

-----------------------------------------------------------------------------
(* The handlers.                                                           *)

(* Application, server, volume, grant and deployment in one transaction.   *)
CreateServer(c) ==
  /\ gameServer.kind = "none"
  /\ GameRequest(c, "reconcile", OwnRevision)
  /\ gameServer' = [kind |-> "managed", status |-> "provisioning"]
  /\ gameDesired' = [gameDesired EXCEPT ![OwnRevision] = "running"]
  /\ gameBypassed' = FALSE
  /\ UNCHANGED <<gameWorkload, gameCommand, gameContainer>>

(* stopApplicationWorkloads, cut after the update of the deployments.      *)
StopServer(c) ==
  /\ gameServer.kind = "managed"
  /\ GameRequest(c, "stopRows", OwnRevision)
  /\ gameDesired' = [r \in GameRevisions |->
                       IF gameDesired[r] = "running" THEN "stopped" ELSE gameDesired[r]]
  /\ UNCHANGED <<gameServer, gameWorkload, gameCommand, gameContainer, gameBypassed>>

(* requestStateChange of workloads that are desired running.               *)
StopRows(rows) ==
  /\ gameWorkload' = [w \in GameRows |-> IF w \in rows
       THEN [gameWorkload[w] EXCEPT !.desired = "stopped"] ELSE gameWorkload[w]]
  /\ gameCommand' = [w \in GameRows |-> IF w \in rows
       THEN [gameCommand[w] EXCEPT !.stop = "pending"] ELSE gameCommand[w]]

StopServerRows(c) ==
  /\ CallAt(c, "stopRows")
  /\ StopRows(WantedRows)
  /\ GoOn(c, "stopped")
  /\ UNCHANGED <<gameServer, gameDesired, gameContainer, gameRaced, gameBypassed>>

(* An update by id: a server that was deleted stays so.                    *)
SetGameStatus(status) ==
  /\ gameServer' = IF gameServer.kind = "managed"
                   THEN [gameServer EXCEPT !.status = status] ELSE gameServer
  /\ gameBypassed' = FALSE

ServerStopped(c) ==
  /\ CallAt(c, "stopped")
  /\ SetGameStatus("stopped")
  /\ EndGame(c)
  /\ UNCHANGED <<gameDesired, gameWorkload, gameCommand, gameContainer, gameRaced>>

(* The deployment it was created with, whatever has replaced it since.     *)
StartServer(c) ==
  /\ gameServer.kind = "managed"
  /\ GameRequest(c, "starting", OwnRevision)
  /\ gameDesired' = [gameDesired EXCEPT ![OwnRevision] = "running"]
  /\ UNCHANGED <<gameServer, gameWorkload, gameCommand, gameContainer, gameBypassed>>

ServerStarting(c) ==
  /\ CallAt(c, "starting")
  /\ SetGameStatus("provisioning")
  /\ GoOn(c, "reconcile")
  /\ UNCHANGED <<gameDesired, gameWorkload, gameCommand, gameContainer, gameRaced>>

(* One pass over a deployment: it stops what is not desired, or places the *)
(* workload that is missing if a node takes it.                            *)
ReconcileGame(r) ==
  /\ gameServer.kind = "managed"
  /\ \/ gameDesired[r] \in {"stopped", "superseded"} /\ StopRows(RowsOf(r))
     \/ /\ gameDesired[r] = "running" /\ RowsOf(r) = {}
        /\ \E w \in GameRows :
             /\ gameWorkload[w] = NoWorkload /\ gameCommand[w] = NoCommands
             /\ gameWorkload' = [gameWorkload EXCEPT ![w] =
                                   [of |-> r, desired |-> "running", actual |-> "pending"]]
             /\ gameCommand' = [gameCommand EXCEPT ![w].start = "pending"]

ReconcileServer(c) ==
  /\ CallAt(c, "reconcile")
  /\ ReconcileGame(gameCall[c].of) \/ UNCHANGED <<gameWorkload, gameCommand>>
  /\ EndGame(c)
  /\ UNCHANGED <<gameServer, gameDesired, gameContainer, gameRaced, gameBypassed>>

GameTick ==
  /\ \E r \in GameRevisions : ReconcileGame(r)
  /\ gameRaced' = (gameRaced \/ GameBusy)
  /\ UNCHANGED <<gameServer, gameDesired, gameContainer, gameCall, gameBypassed>>

(* Faulty variant of DeleteServer: it does not look at the workloads.      *)
DeleteServerUnchecked(c) ==
  /\ gameServer.kind # "none"
  /\ GameRequest(c, "delete", OwnRevision)
  /\ UNCHANGED <<gameServer, gameDesired, gameWorkload, gameCommand, gameContainer, gameBypassed>>

(* No workload may be desired; a legacy record has none.                   *)
DeleteServer(c) ==
  /\ gameServer.kind # "none" /\ WantedRows = {}
  /\ GameRequest(c, "delete", OwnRevision)
  /\ UNCHANGED <<gameServer, gameDesired, gameWorkload, gameCommand, gameContainer, gameBypassed>>

(* Deployments and workloads go with the application, commands stay.       *)
ServerDeleted(c) ==
  /\ CallAt(c, "delete")
  /\ gameServer' = [gameServer EXCEPT !.kind = "none"]
  /\ gameDesired' = [r \in GameRevisions |-> "none"]
  /\ gameWorkload' = [w \in GameRows |-> NoWorkload]
  /\ EndGame(c)
  /\ UNCHANGED <<gameCommand, gameContainer, gameRaced, gameBypassed>>

-----------------------------------------------------------------------------
(* The routes of deployments, which leave the server's row alone.          *)

Bypass(c, pc, r) ==
  /\ gameServer.kind = "managed"
  /\ GameRequest(c, pc, r)
  /\ gameBypassed' = TRUE
  /\ UNCHANGED <<gameServer, gameWorkload, gameCommand, gameContainer>>

DeploymentStart(c, r) ==
  /\ gameDesired[r] \notin {"none", "superseded"}
  /\ Bypass(c, "reconcile", r)
  /\ gameDesired' = [gameDesired EXCEPT ![r] = "running"]

DeploymentStop(c, r) ==
  /\ gameDesired[r] # "none"
  /\ Bypass(c, "reconcile", r)
  /\ gameDesired' = [gameDesired EXCEPT ![r] = "stopped"]

DeploymentRestart(c, r) ==
  /\ gameDesired[r] # "none"
  /\ Bypass(c, "restartRows", r)
  /\ gameDesired' = [gameDesired EXCEPT ![r] = "running"]

RestartRows(c) ==
  /\ CallAt(c, "restartRows")
  /\ StopRows(RowsOf(gameCall[c].of))
  /\ GoOn(c, "reconcile")
  /\ UNCHANGED <<gameServer, gameDesired, gameContainer, gameRaced, gameBypassed>>

(* A redeployment, a rollback, or a deployment of the application.         *)
NewRevision(c, r) ==
  /\ gameDesired[r] = "none"
  /\ Bypass(c, "supersede", r)
  /\ gameDesired' = [gameDesired EXCEPT ![r] = "running"]

SupersedeRevisions(c) ==
  LET previous == {r \in GameRevisions \ {gameCall[c].of} : gameDesired[r] = "running"} IN
  /\ CallAt(c, "supersede")
  /\ gameDesired' = [r \in GameRevisions |-> IF r \in previous THEN "superseded" ELSE gameDesired[r]]
  /\ StopRows({w \in WantedRows : gameWorkload[w].of \in previous})
  /\ GoOn(c, "reconcile")
  /\ UNCHANGED <<gameServer, gameContainer, gameRaced, gameBypassed>>

-----------------------------------------------------------------------------
(* A console, log or file command for the workload that runs; of the kinds *)
(* that are refused while one is open only one is kept.                    *)
AskServer(w) ==
  /\ gameServer.kind = "managed"
  /\ gameWorkload[w].of = OwnRevision /\ gameWorkload[w].actual = "running"
  /\ ~Open(gameCommand[w].ask)
  /\ gameCommand' = [gameCommand EXCEPT ![w].ask = "pending"]
  /\ UNCHANGED <<gameServer, gameDesired, gameWorkload, gameContainer, gameCall, gameRaced, gameBypassed>>

-----------------------------------------------------------------------------
(* The node and the reports of its agent.                                  *)

SetActual(w, actual) ==
  gameWorkload' = IF gameWorkload[w] = NoWorkload THEN gameWorkload
                  ELSE [gameWorkload EXCEPT ![w].actual = actual]

DeliverGame(w, type) ==
  /\ gameCommand[w][type] = "pending"
  /\ gameCommand' = [gameCommand EXCEPT ![w][type] = "delivered"]
  /\ UNCHANGED <<gameServer, gameDesired, gameWorkload, gameContainer, gameCall, gameRaced, gameBypassed>>

(* The result of a start: command and workload, and later the server.      *)
GameStarted(c, w, outcome) ==
  /\ CallAt(c, "idle") /\ gameCommand[w].start = "delivered"
  /\ gameCommand' = [gameCommand EXCEPT ![w].start = IF outcome = "running" THEN "succeeded" ELSE "failed"]
  /\ gameContainer' = IF outcome = "running" THEN gameContainer \cup {w} ELSE gameContainer
  /\ SetActual(w, outcome)
  /\ gameCall' = IF gameWorkload[w] = NoWorkload THEN gameCall
                 ELSE [gameCall EXCEPT ![c] = [NoGameCall EXCEPT !.pc = "report", !.outcome = outcome]]
  /\ UNCHANGED <<gameServer, gameDesired, gameRaced, gameBypassed>>

(* Faulty variant of StartReported: a failed start is not recorded.        *)
StartReportedRunning(c) ==
  /\ CallAt(c, "report")
  /\ SetGameStatus("running")
  /\ EndGame(c)
  /\ UNCHANGED <<gameDesired, gameWorkload, gameCommand, gameContainer, gameRaced>>

StartReported(c) ==
  /\ CallAt(c, "report")
  /\ SetGameStatus(gameCall[c].outcome)
  /\ EndGame(c)
  /\ UNCHANGED <<gameDesired, gameWorkload, gameCommand, gameContainer, gameRaced>>

(* The result of a stop does not concern the server's row.                 *)
GameStopped(w) ==
  /\ gameCommand[w].stop = "delivered"
  /\ \/ /\ gameCommand' = [gameCommand EXCEPT ![w].stop = "succeeded"]
        /\ gameContainer' = gameContainer \ {w}
        /\ SetActual(w, "stopped")
     \/ /\ gameCommand' = [gameCommand EXCEPT ![w].stop = "failed"]
        /\ UNCHANGED gameContainer
        /\ SetActual(w, "failed")
  /\ UNCHANGED <<gameServer, gameDesired, gameCall, gameRaced, gameBypassed>>

Answered(w) ==
  /\ gameCommand[w].ask = "delivered"
  /\ \E status \in {"succeeded", "failed"} : gameCommand' = [gameCommand EXCEPT ![w].ask = status]
  /\ UNCHANGED <<gameServer, gameDesired, gameWorkload, gameContainer, gameCall, gameRaced, gameBypassed>>

(* The deadline of a start or stop; the server's row is left alone.        *)
GameExpired(w, type) ==
  /\ Open(gameCommand[w][type])
  /\ gameCommand' = [gameCommand EXCEPT ![w][type] = "failed"]
  /\ SetActual(w, IF type = "start" THEN "failed" ELSE "unknown")
  /\ UNCHANGED <<gameServer, gameDesired, gameContainer, gameCall, gameRaced, gameBypassed>>

GsNext ==
  \/ \E c \in GameCalls :
       \/ CreateServer(c) \/ StopServer(c) \/ StopServerRows(c) \/ ServerStopped(c)
       \/ StartServer(c) \/ ServerStarting(c) \/ ReconcileServer(c)
       \/ DeleteServer(c) \/ ServerDeleted(c) \/ StartReported(c)
       \/ RestartRows(c) \/ SupersedeRevisions(c)
       \/ \E r \in GameRevisions : \/ DeploymentStart(c, r) \/ DeploymentStop(c, r)
                                   \/ DeploymentRestart(c, r) \/ NewRevision(c, r)
       \/ \E w \in GameRows : \E outcome \in {"running", "failed"} : GameStarted(c, w, outcome)
  \/ GameTick
  \/ \E w \in GameRows : AskServer(w) \/ GameStopped(w) \/ Answered(w)
  \/ \E w \in GameRows : \E type \in {"start", "stop", "ask"} : DeliverGame(w, type)
  \/ \E w \in GameRows : \E type \in {"start", "stop"} : GameExpired(w, type)

-----------------------------------------------------------------------------
(* Grants.                                                                 *)

GameRoles == {"viewer", "operator", "admin"}
accessRoleRank == [viewer |-> 1, operator |-> 2, admin |-> 3]
GrantRow == [subject : Players \cup Crews, role : GameRoles]
GrantRequest == [op : {"update"}, id : GrantIds, role : GameRoles]
                  \cup [op : {"insert"}, subject : Players \cup Crews, role : GameRoles]

GaInit ==
  /\ grant = [g \in {CHOOSE g \in GrantIds : TRUE} |->
                [subject |-> CHOOSE p \in Players : TRUE, role |-> "admin"]]
  /\ grantRequests = {} /\ grantRaced = FALSE

GrantsOf(subject) == {g \in DOMAIN grant : grant[g].subject = subject}

(* The user's own rows and those of the user's teams (a user of the        *)
(* organization's "applications.update" passes as well).                   *)
hasServerRole(user, required) ==
  \E g \in DOMAIN grant :
    /\ grant[g].subject = user \/ (grant[g].subject \in Crews /\ user \in CrewOf[grant[g].subject])
    /\ accessRoleRank[grant[g].role] >= accessRoleRank[required]

(* Faulty variant of PutGrant: every request inserts.                      *)
PutGrantInserts(subject, r) ==
  /\ Cardinality(grantRequests) < MaxGrantCalls
  /\ grantRequests' = grantRequests \cup {[op |-> "insert", subject |-> subject, role |-> r]}
  /\ grantRaced' = (grantRaced \/ grantRequests # {})
  /\ UNCHANGED grant

(* One existing row is updated, or a row is inserted.                      *)
PutGrant(subject, r) ==
  /\ Cardinality(grantRequests) < MaxGrantCalls
  /\ \E request \in GrantRequest :
       /\ request.role = r
       /\ IF GrantsOf(subject) = {} THEN request.op = "insert" /\ request.subject = subject
          ELSE request.op = "update" /\ request.id \in GrantsOf(subject)
       /\ grantRequests' = grantRequests \cup {request}
  /\ grantRaced' = (grantRaced \/ grantRequests # {})
  /\ UNCHANGED grant

GrantWritten(request) ==
  /\ grantRequests' = grantRequests \ {request}
  /\ \/ /\ request.op = "update"
        /\ grant' = IF request.id \in DOMAIN grant
                    THEN [grant EXCEPT ![request.id].role = request.role] ELSE grant
     \/ /\ request.op = "insert"
        /\ \E id \in GrantIds \ DOMAIN grant :
             grant' = [g \in DOMAIN grant \cup {id} |-> IF g = id
                         THEN [subject |-> request.subject, role |-> request.role] ELSE grant[g]]
  /\ UNCHANGED grantRaced

DeleteGrant(id) ==
  /\ id \in DOMAIN grant
  /\ grant' = [g \in DOMAIN grant \ {id} |-> grant[g]]
  /\ grantRaced' = (grantRaced \/ grantRequests # {})
  /\ UNCHANGED grantRequests

GaNext ==
  \/ \E subject \in Players \cup Crews : \E r \in GameRoles : PutGrant(subject, r)
  \/ \E request \in grantRequests : GrantWritten(request)
  \/ \E id \in GrantIds : DeleteGrant(id)

-----------------------------------------------------------------------------
GsTypeOK ==
  /\ gameServer \in [kind : Kinds, status : GameStatus]
  /\ gameDesired \in [GameRevisions -> GameDesired]
  /\ gameWorkload \in [GameRows -> [of : GameRevisions, desired : {"none", "running", "stopped"},
       actual : {"none", "pending", "running", "stopped", "failed", "unknown"}]]
  /\ gameCommand \in [GameRows -> [start : CommandStatus, stop : CommandStatus, ask : CommandStatus]]
  /\ gameContainer \subseteq GameRows
  /\ gameCall \in [GameCalls -> GameCallType]
  /\ gameRaced \in BOOLEAN /\ gameBypassed \in BOOLEAN
  /\ DOMAIN grant \subseteq GrantIds /\ \A g \in DOMAIN grant : grant[g] \in GrantRow
  /\ grantRequests \subseteq GrantRequest /\ grantRaced \in BOOLEAN

(* A server that was deleted leaves no container behind but one that a     *)
(* stop command is on its way to, or failed to stop, whichever routes its  *)
(* workloads were started and stopped through; and what was last written   *)
(* as "running" is, until the routes of deployments are used, which do not *)
(* write it. Both can fail once requests overlap or a stop overtakes the   *)
(* answer to a start, which writes "running" over "stopped" ("Stop the     *)
(* game server and wait for its workload before deletion",                 *)
(* game-servers.routes.ts:577).                                            *)
ServerToldTruly ==
  ~gameRaced =>
    /\ gameServer.kind = "none" =>
         \A w \in gameContainer : Open(gameCommand[w].stop) \/ gameCommand[w].stop = "failed"
    /\ gameServer.kind = "managed" /\ gameServer.status = "running" /\ ~gameBypassed /\ ~GameBusy =>
         \E w \in WantedRows : gameCommand[w].start = "succeeded"

(* A subject has one grant, so that the role written last is the one that  *)
(* holds, unless two requests were in progress at once: the check for an   *)
(* existing row and the insert are not one transaction.                    *)
OneGrantEach ==
  ~grantRaced => \A subject \in Players \cup Crews : Cardinality(GrantsOf(subject)) <= 1
=============================================================================
