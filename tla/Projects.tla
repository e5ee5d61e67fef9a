------------------------------- MODULE Projects ------------------------------
(***************************************************************************)
(* What a project contains: environments with their variables, and         *)
(* applications with their default environment, attached secrets and       *)
(* deployments (projects.routes.ts, environments.routes.ts,                *)
(* applications.routes.ts, schema/projects.ts). Authorisation and the      *)
(* requests in progress are those of Tenancy.                              *)
(*                                                                         *)
(* The references from a project and from an application to a default      *)
(* environment have no foreign key: only the checks of the handlers, made  *)
(* before the write, protect them.                                         *)
(*                                                                         *)
(* Simplifications: an application has deployments or not, their life is   *)
(* the matter of Rollout; names, sources, ports and limits are left out.   *)
(***************************************************************************)
EXTENDS Tenancy

CONSTANTS
  Envs,          \* ids of environments
  Production,    \* of every project, the one it is created with
  Apps,
  Variables,     \* ids of environment variables
  NoEnv

ASSUME ProjectsAssumption ==
  /\ Production \in [Projects -> Envs] /\ NoEnv \notin Envs
  /\ \A p, q \in Projects : Production[p] = Production[q] => p = q

VARIABLES
  archived,      \* archived projects
  defaultEnv,    \* of every project
  environment,   \* <<project, environment>> rows
  protected,     \* protected environments
  app,           \* the existing applications
  variable,      \* the existing environment variables
  attachment     \* <<application, variable>> rows

prjVars == <<archived, defaultEnv, environment, protected, app, variable, attachment>>
PrjRows == <<TenRows, prjVars>>

AppRow == [project : Projects, archived : BOOLEAN, env : Envs \cup {NoEnv}, deployed : BOOLEAN]
VariableRow == [env : Envs, secret : BOOLEAN]
EnvOps == {"createEnv", "deleteEnv", "setDefault"}
AppOps == {"createApp", "patchApp", "deleteApp", "deploy", "attach"}
PrjRequest ==
       [op : EnvOps, project : Projects, env : Envs]
  \cup [op : {"createApp", "patchApp"}, app : Apps, project : Projects, env : Envs \cup {NoEnv}]
  \cup [op : {"deleteApp", "deploy"}, app : Apps]
  \cup [op : {"deleteProject"}, project : Projects]
  \cup [op : {"attach"}, app : Apps, var : Variables]

PrjInit ==
  /\ archived = {} /\ defaultEnv = <<>> /\ environment = {} /\ protected = {}
  /\ app = <<>> /\ variable = <<>> /\ attachment = {}

(* Functions of the rows that exist.                                       *)
WithRow(f, x, v) == [y \in DOMAIN f \cup {x} |-> IF y = x THEN v ELSE f[y]]
Without(f, xs) == [y \in DOMAIN f \ xs |-> f[y]]

Exists(p) == p \in DOMAIN defaultEnv
May(p) == \E u \in OrgUsers : resolveProjectAccess(u, p)
Holds(p, e) == <<p, e>> \in environment
AppsOf(p) == {a \in DOMAIN app : app[a].project = p}
ValidEnv(p, e) == e = NoEnv \/ Holds(p, e)

-----------------------------------------------------------------------------
(* Projects.                                                               *)

(* The transaction that creates a project creates its protected production *)
(* environment and makes it the default.                                   *)
ProjectCreated(r) ==
  /\ r.op = "createProject"
  /\ AccessWritten(r)
  /\ defaultEnv' = WithRow(defaultEnv, r.project, Production[r.project])
  /\ environment' = environment \cup {<<r.project, Production[r.project]>>}
  /\ protected' = protected \cup {Production[r.project]}
  /\ UNCHANGED <<archived, app, variable, attachment>>

ArchiveProject(p) ==
  /\ May(p) /\ p \notin archived
  /\ archived' = archived \cup {p}
  /\ AtOnce
  /\ UNCHANGED <<TenRows, defaultEnv, environment, protected, app, variable, attachment>>

RestoreProject(p) ==
  /\ May(p)
  /\ archived' = archived \ {p}
  /\ AtOnce
  /\ UNCHANGED <<TenRows, defaultEnv, environment, protected, app, variable, attachment>>

(* Only environments may remain in a project that is deleted.              *)
DeleteProject(p) ==
  /\ May(p) /\ AppsOf(p) = {}
  /\ Ask([op |-> "deleteProject", project |-> p])
  /\ UNCHANGED PrjRows

(* Rows that refer to the project are deleted with it.                     *)
ProjectDeleted(r) ==
  /\ r.op = "deleteProject" /\ Done(r)
  /\ accessMode' = Without(accessMode, {r.project})
  /\ projectTeam' = {row \in projectTeam : row[1] # r.project}
  /\ archived' = archived \ {r.project}
  /\ defaultEnv' = Without(defaultEnv, {r.project})
  /\ environment' = {row \in environment : row[1] # r.project}
  /\ protected' = {e \in protected : \E p \in Projects : <<p, e>> \in environment'}
  /\ variable' = Without(variable, {v \in DOMAIN variable : Holds(r.project, variable[v].env)})
  /\ app' = Without(app, AppsOf(r.project))
  /\ attachment' = {row \in attachment : row[1] \notin AppsOf(r.project)}
  /\ UNCHANGED <<role, customRole, team, teamMember>>

-----------------------------------------------------------------------------
(* Environments and variables.                                             *)

(* Ids are new: no environment and no request in progress has this one,    *)
(* nor will a project begin with it.                                       *)
CreateEnvironment(p, e) ==
  /\ May(p) /\ p \notin archived
  /\ \A q \in Projects : ~Holds(q, e) /\ e # Production[q]
  /\ \A r \in pending : r.op \in EnvOps => r.env # e
  /\ Ask([op |-> "createEnv", project |-> p, env |-> e])
  /\ UNCHANGED PrjRows

EnvironmentCreated(r) ==
  /\ r.op = "createEnv" /\ Done(r)
  /\ environment' = environment \cup (IF Exists(r.project) THEN {<<r.project, r.env>>} ELSE {})
  /\ UNCHANGED <<TenRows, archived, defaultEnv, protected, app, variable, attachment>>

ProtectEnvironment(p, e) ==
  /\ May(p) /\ Holds(p, e)
  /\ protected' = IF e \in protected THEN protected \ {e} ELSE protected \cup {e}
  /\ AtOnce
  /\ UNCHANGED <<TenRows, archived, defaultEnv, environment, app, variable, attachment>>

(* Faulty variant of DeleteEnvironment: the defaults of the applications   *)
(* are not looked at.                                                      *)
DeleteEnvironmentUnchecked(p, e) ==
  /\ May(p) /\ Holds(p, e) /\ e \notin protected /\ defaultEnv[p] # e
  /\ Ask([op |-> "deleteEnv", project |-> p, env |-> e])
  /\ UNCHANGED PrjRows

DeleteEnvironment(p, e) ==
  /\ May(p) /\ Holds(p, e) /\ e \notin protected /\ defaultEnv[p] # e
  /\ \A a \in AppsOf(p) : app[a].env # e
  /\ Ask([op |-> "deleteEnv", project |-> p, env |-> e])
  /\ UNCHANGED PrjRows

(* The variables go with the environment; a secret that is attached to an  *)
(* application may or may not stand in the way, which depends on the order *)
(* in which the database visits the two tables.                            *)
EnvironmentDeleted(r) ==
  /\ r.op = "deleteEnv" /\ Done(r)
  /\ LET gone == {v \in DOMAIN variable : variable[v].env = r.env}
     IN  \/ /\ environment' = environment \ {<<r.project, r.env>>}
            /\ protected' = protected \ {r.env}
            /\ variable' = Without(variable, gone)
            /\ attachment' = {row \in attachment : row[2] \notin gone}
         \/ /\ \E row \in attachment : row[2] \in gone
            /\ UNCHANGED <<environment, protected, variable, attachment>>
  /\ UNCHANGED <<TenRows, archived, defaultEnv, app>>

SetDefaultEnvironment(p, e) ==
  /\ May(p) /\ Holds(p, e)
  /\ Ask([op |-> "setDefault", project |-> p, env |-> e])
  /\ UNCHANGED PrjRows

DefaultEnvironmentSet(r) ==
  /\ r.op = "setDefault" /\ Done(r)
  /\ defaultEnv' = IF Exists(r.project) THEN [defaultEnv EXCEPT ![r.project] = r.env] ELSE defaultEnv
  /\ UNCHANGED <<TenRows, archived, environment, protected, app, variable, attachment>>

(* Also turns a secret into a plain variable, attached or not. The id of a *)
(* variable that does not exist yet is new.                                *)
PutVariable(p, e, v, secret) ==
  /\ May(p) /\ Holds(p, e) /\ (v \in DOMAIN variable => variable[v].env = e)
  /\ \A r \in pending : r.op = "attach" /\ r.var = v => v \in DOMAIN variable
  /\ variable' = WithRow(variable, v, [env |-> e, secret |-> secret])
  /\ AtOnce
  /\ UNCHANGED <<TenRows, archived, defaultEnv, environment, protected, app, attachment>>

(* Faulty variant of DeleteVariable: nothing restricts the delete.         *)
DeleteVariableAttached(p, v) ==
  /\ May(p) /\ v \in DOMAIN variable /\ Holds(p, variable[v].env)
  /\ variable' = Without(variable, {v})
  /\ AtOnce
  /\ UNCHANGED <<TenRows, archived, defaultEnv, environment, protected, app, attachment>>

(* The foreign key of an attachment restricts the delete.                  *)
DeleteVariable(p, v) ==
  /\ May(p) /\ v \in DOMAIN variable /\ Holds(p, variable[v].env)
  /\ \A row \in attachment : row[2] # v
  /\ variable' = Without(variable, {v})
  /\ AtOnce
  /\ UNCHANGED <<TenRows, archived, defaultEnv, environment, protected, app, attachment>>

-----------------------------------------------------------------------------
(* Applications.                                                           *)

CreateApplication(p, a, e) ==
  /\ May(p) /\ p \notin archived /\ ValidEnv(p, e) /\ a \notin DOMAIN app
  /\ \A r \in pending : r.op \in AppOps => r.app # a
  /\ Ask([op |-> "createApp", app |-> a, project |-> p, env |-> e])
  /\ UNCHANGED PrjRows

PatchApplication(p, a, e) ==
  /\ May(p) /\ a \in AppsOf(p) /\ ValidEnv(p, e)
  /\ Ask([op |-> "patchApp", app |-> a, project |-> p, env |-> e])
  /\ UNCHANGED PrjRows

ApplicationWritten(r) ==
  /\ Done(r)
  /\ \/ /\ r.op = "createApp"
        /\ app' = IF ~Exists(r.project) \/ r.app \in DOMAIN app THEN app
                  ELSE WithRow(app, r.app, [project |-> r.project, archived |-> FALSE,
                                         env |-> r.env, deployed |-> FALSE])
     \/ /\ r.op = "patchApp"
        /\ app' = IF r.app \in DOMAIN app THEN [app EXCEPT ![r.app].env = r.env] ELSE app
  /\ UNCHANGED <<TenRows, archived, defaultEnv, environment, protected, variable, attachment>>

ArchiveApplication(p, a) ==
  /\ May(p) /\ a \in AppsOf(p)
  /\ app' = [app EXCEPT ![a].archived = ~@]
  /\ AtOnce
  /\ UNCHANGED <<TenRows, archived, defaultEnv, environment, protected, variable, attachment>>

DeleteApplication(p, a) ==
  /\ May(p) /\ a \in AppsOf(p) /\ ~app[a].deployed
  /\ Ask([op |-> "deleteApp", app |-> a])
  /\ UNCHANGED PrjRows

ApplicationDeleted(r) ==
  /\ r.op = "deleteApp" /\ Done(r)
  /\ app' = Without(app, {r.app})
  /\ attachment' = {row \in attachment : row[1] # r.app}
  /\ UNCHANGED <<TenRows, archived, defaultEnv, environment, protected, variable>>

AttachSecret(p, a, v) ==
  /\ May(p) /\ a \in AppsOf(p)
  /\ v \in DOMAIN variable /\ variable[v].secret /\ Holds(p, variable[v].env)
  /\ Ask([op |-> "attach", app |-> a, var |-> v])
  /\ UNCHANGED PrjRows

SecretAttached(r) ==
  /\ r.op = "attach" /\ Done(r)
  /\ attachment' = attachment \cup
       (IF r.app \in DOMAIN app /\ r.var \in DOMAIN variable THEN {<<r.app, r.var>>} ELSE {})
  /\ UNCHANGED <<TenRows, archived, defaultEnv, environment, protected, app, variable>>

DetachSecret(p, a, v) ==
  /\ May(p) /\ a \in AppsOf(p) /\ <<a, v>> \in attachment
  /\ attachment' = attachment \ {<<a, v>>}
  /\ AtOnce
  /\ UNCHANGED <<TenRows, archived, defaultEnv, environment, protected, app, variable>>

(* The configuration is read row by row, then the deployment is created.   *)
DeployApp(p, a, e) ==
  /\ May(p) /\ a \in AppsOf(p) /\ ~app[a].archived
  /\ ValidEnv(p, IF e = NoEnv THEN app[a].env ELSE e)
  /\ Ask([op |-> "deploy", app |-> a])
  /\ UNCHANGED PrjRows

Deployed(r) ==
  /\ r.op = "deploy" /\ Done(r)
  /\ app' = IF r.app \in DOMAIN app THEN [app EXCEPT ![r.app].deployed = TRUE] ELSE app
  /\ UNCHANGED <<TenRows, archived, defaultEnv, environment, protected, variable, attachment>>

ProjectsRestart == TenancyRestart /\ UNCHANGED prjVars

PrjNext ==
  \/ \E p \in Projects : \/ CreateProject(p, "organization", {}) /\ UNCHANGED prjVars
                         \/ ArchiveProject(p) \/ RestoreProject(p) \/ DeleteProject(p)
  \/ \E p \in Projects : \E e \in Envs :
       \/ CreateEnvironment(p, e) \/ ProtectEnvironment(p, e)
       \/ DeleteEnvironment(p, e) \/ SetDefaultEnvironment(p, e)
       \/ \E v \in Variables : \E secret \in BOOLEAN : PutVariable(p, e, v, secret)
  \/ \E p \in Projects : \E v \in Variables : DeleteVariable(p, v)
  \/ \E p \in Projects : \E a \in Apps :
       \/ ArchiveApplication(p, a) \/ DeleteApplication(p, a)
       \/ \E e \in Envs \cup {NoEnv} :
            CreateApplication(p, a, e) \/ PatchApplication(p, a, e) \/ DeployApp(p, a, e)
       \/ \E v \in Variables : AttachSecret(p, a, v) \/ DetachSecret(p, a, v)
  \/ \E r \in pending :
       \/ ProjectCreated(r) \/ ProjectDeleted(r) \/ EnvironmentCreated(r) \/ EnvironmentDeleted(r)
       \/ DefaultEnvironmentSet(r) \/ ApplicationWritten(r) \/ ApplicationDeleted(r)
       \/ SecretAttached(r) \/ Deployed(r)
  \/ ProjectsRestart

-----------------------------------------------------------------------------
PrjTypeOK ==
  /\ archived \subseteq DOMAIN defaultEnv /\ DOMAIN defaultEnv \subseteq Projects
  /\ \A p \in DOMAIN defaultEnv : defaultEnv[p] \in Envs
  /\ environment \subseteq (DOMAIN defaultEnv) \X Envs
  /\ protected \subseteq Envs
  /\ DOMAIN app \subseteq Apps /\ \A a \in DOMAIN app : app[a] \in AppRow
  /\ DOMAIN variable \subseteq Variables /\ \A v \in DOMAIN variable : variable[v] \in VariableRow
  /\ attachment \subseteq (DOMAIN app) \X (DOMAIN variable)
  /\ pending \subseteq TenRequest \cup PrjRequest

(* As long as no two requests overlap: the default environment of every    *)
(* project and application exists in the project ("The API validates it    *)
(* belongs to this project", schema/projects.ts:44), an archived project   *)
(* gains nothing, and a project is deleted only when it holds no           *)
(* application. All of it rests on reads made before the write.            *)
DefaultsExist ==
  /\ \A p \in DOMAIN defaultEnv : Holds(p, defaultEnv[p])
  /\ \A a \in DOMAIN app : ValidEnv(app[a].project, app[a].env)
ProjectRulesKept ==
  \/ Overlapping
  \/ /\ DefaultsExist'
     /\ \A p \in archived : AppsOf(p)' \subseteq AppsOf(p)
     /\ \A p \in archived : {e \in Envs : Holds(p, e)'} \subseteq {e \in Envs : Holds(p, e)}
     /\ \A a \in DOMAIN app \ DOMAIN app' : app[a].project \in DOMAIN defaultEnv'
=============================================================================
