------------------------------- MODULE Tenancy -------------------------------
(***************************************************************************)
(* One organization: members and their roles, custom roles, teams, and the *)
(* access to projects (organization-rbac.routes.ts, teams.routes.ts,       *)
(* projects.routes.ts, features/projects, features/organizations).         *)
(*                                                                         *)
(* A handler authorises its caller and makes its checks, and writes later: *)
(* a request that has passed its checks waits in "pending" for its write.  *)
(* Handlers whose checks no other write can falsify are one step.          *)
(*                                                                         *)
(* Simplifications: the permissions of one family are one permission;      *)
(* names, slugs and pages are left out. Joining and leaving the            *)
(* organization belong to the authentication library.                      *)
(***************************************************************************)
EXTENDS FiniteSets, Naturals

CONSTANTS
  OrgUsers,      \* the members of the organization
  Founder,       \* the user who created it
  CustomRoles,   \* ids of custom roles
  Teams, Projects,
  MaxPending     \* requests past their checks at the same time

ASSUME TenancyAssumption == Founder \in OrgUsers /\ MaxPending \in Nat

VARIABLES
  role,          \* the role of every member
  customRole,    \* permissions of the existing custom roles
  team,          \* existing teams
  teamMember,    \* <<team, user>> rows
  accessMode,    \* of every existing project
  projectTeam,   \* <<project, team>> rows
  pending,       \* requests between their checks and their write
  overlapped     \* history: two requests were once in progress together

tenVars == <<role, customRole, team, teamMember, accessMode, projectTeam, pending, overlapped>>

Permissions == {"projects.read", "projects.create", "projects.manage_access",
                "teams.update", "roles.assign", "organization.delete"}
SystemRoles == {"owner", "admin", "developer", "viewer"}
Modes == {"organization", "team"}

TenRequest ==
       [op : {"assign"}, user : OrgUsers, role : SystemRoles \cup CustomRoles]
  \cup [op : {"deleteRole"}, role : CustomRoles]
  \cup [op : {"addMember"}, user : OrgUsers, team : Teams]
  \cup [op : {"addTeam"}, project : Projects, team : Teams]
  \cup [op : {"createProject", "setAccess"}, project : Projects, mode : Modes, teams : SUBSET Teams]
  \cup [op : {"removeTeam"}, project : Projects]
  \cup [op : {"removedTeam"}, project : Projects, remaining : SUBSET Teams]

TenInit ==
  /\ role = [u \in OrgUsers |-> IF u = Founder THEN "owner" ELSE "developer"]
  /\ customRole = <<>>
  /\ team = {} /\ teamMember = {}
  /\ accessMode = <<>> /\ projectTeam = {}
  /\ pending = {} /\ overlapped = FALSE

-----------------------------------------------------------------------------
(* Permissions.                                                            *)

systemPermissions(r) ==
  CASE r = "owner"     -> Permissions
    [] r = "admin"     -> Permissions \ {"organization.delete"}
    [] r = "developer" -> {"projects.read", "projects.create"}
    [] r = "viewer"    -> {"projects.read"}

(* A custom role that is gone grants nothing.                              *)
resolveRolePermissions(r) ==
  IF r \in SystemRoles THEN systemPermissions(r)
  ELSE IF r \in DOMAIN customRole THEN customRole[r] ELSE {}

Allowed(u, permission) == permission \in resolveRolePermissions(role[u])
SomeoneMay(permission) == \E u \in OrgUsers : Allowed(u, permission)
Owners == {u \in OrgUsers : role[u] = "owner"}
SeesAll(u) == role[u] \in {"owner", "admin"}

(* The three places where the code decides which projects a user sees: the *)
(* detail routes, the lists of all projects, and the page of projects.     *)
resolveProjectAccess(u, p) ==
  /\ Allowed(u, "projects.read")
  /\ p \in DOMAIN accessMode
  /\ accessMode[p] = "team" /\ ~SeesAll(u) =>
       \E t \in Teams : <<p, t>> \in projectTeam /\ <<t, u>> \in teamMember

(* Faulty variant of listAccessibleProjects: only assigned projects.       *)
listAccessibleAssigned(u) ==
  LET teamIds == {t \in Teams : <<t, u>> \in teamMember}
  IN  IF ~Allowed(u, "projects.read") THEN {}
      ELSE IF SeesAll(u) THEN DOMAIN accessMode
      ELSE {p \in DOMAIN accessMode : \E t \in teamIds : <<p, t>> \in projectTeam}

listAccessibleProjects(u) ==
  LET teamIds  == {t \in Teams : <<t, u>> \in teamMember}
      assigned == {p \in Projects : \E t \in teamIds : <<p, t>> \in projectTeam}
  IN  IF ~Allowed(u, "projects.read") THEN {}
      ELSE IF SeesAll(u) THEN DOMAIN accessMode
      ELSE {p \in DOMAIN accessMode : accessMode[p] = "organization" \/ p \in assigned}

listProjectPage(u) ==
  {p \in DOMAIN accessMode :
     /\ Allowed(u, "projects.read")
     /\ \/ SeesAll(u)
        \/ accessMode[p] = "organization"
        \/ \E row \in projectTeam : row[1] = p /\ <<row[2], u>> \in teamMember}

-----------------------------------------------------------------------------
(* Requests.                                                               *)

Ask(r) ==
  /\ Cardinality(pending) < MaxPending
  /\ pending' = pending \cup {r}
  /\ overlapped' = (overlapped \/ pending # {})
AtOnce == UNCHANGED pending /\ overlapped' = (overlapped \/ pending # {})
Done(r) == r \in pending /\ pending' = pending \ {r} /\ UNCHANGED overlapped

TenRows == <<role, customRole, team, teamMember, accessMode, projectTeam>>

(* Faulty variant of AssignRole: an owner may always be demoted.           *)
AssignRoleUnchecked(u, r) ==
  /\ SomeoneMay("roles.assign")
  /\ r \in SystemRoles \cup DOMAIN customRole
  /\ r = "owner" => \E by \in OrgUsers : Allowed(by, "roles.assign") /\ Allowed(by, "organization.delete")
  /\ Ask([op |-> "assign", user |-> u, role |-> r])
  /\ UNCHANGED TenRows

AssignRole(u, r) ==
  /\ r \in SystemRoles \cup DOMAIN customRole
  /\ role[u] = "owner" /\ r # "owner" => Cardinality(Owners) > 1
  /\ \E by \in OrgUsers : /\ Allowed(by, "roles.assign")
                       /\ r = "owner" => Allowed(by, "organization.delete")
  /\ Ask([op |-> "assign", user |-> u, role |-> r])
  /\ UNCHANGED TenRows

RoleAssigned(r) ==
  /\ r.op = "assign" /\ Done(r)
  /\ role' = [role EXCEPT ![r.user] = r.role]
  /\ UNCHANGED <<customRole, team, teamMember, accessMode, projectTeam>>

(* Creating and changing a role are one transaction each.                  *)
CreateRole(r, granted) ==
  /\ SomeoneMay("roles.assign") /\ r \notin DOMAIN customRole
  /\ customRole' = [x \in DOMAIN customRole \cup {r} |-> IF x = r THEN granted ELSE customRole[x]]
  /\ AtOnce
  /\ UNCHANGED <<role, team, teamMember, accessMode, projectTeam>>

UpdateRole(r, granted) ==
  /\ SomeoneMay("roles.assign") /\ r \in DOMAIN customRole
  /\ customRole' = [customRole EXCEPT ![r] = granted]
  /\ AtOnce
  /\ UNCHANGED <<role, team, teamMember, accessMode, projectTeam>>

DeleteRole(r) ==
  /\ SomeoneMay("roles.assign") /\ r \in DOMAIN customRole
  /\ \A u \in OrgUsers : role[u] # r
  /\ Ask([op |-> "deleteRole", role |-> r])
  /\ UNCHANGED TenRows

RoleDeleted(r) ==
  /\ r.op = "deleteRole" /\ Done(r)
  /\ customRole' = [x \in DOMAIN customRole \ {r.role} |-> customRole[x]]
  /\ UNCHANGED <<role, team, teamMember, accessMode, projectTeam>>

(* The creator becomes the first member, with a second insert.             *)
CreateTeam(u, t) ==
  /\ Allowed(u, "teams.update") /\ t \notin team
  /\ team' = team \cup {t}
  /\ Ask([op |-> "addMember", user |-> u, team |-> t])
  /\ UNCHANGED <<role, customRole, teamMember, accessMode, projectTeam>>

(* The rows that refer to the team go with it.                             *)
DeleteTeam(t) ==
  /\ SomeoneMay("teams.update") /\ t \in team
  /\ team' = team \ {t}
  /\ teamMember' = {row \in teamMember : row[1] # t}
  /\ projectTeam' = {row \in projectTeam : row[2] # t}
  /\ AtOnce
  /\ UNCHANGED <<role, customRole, accessMode>>

AddTeamMember(u, t) ==
  /\ SomeoneMay("teams.update") /\ t \in team
  /\ Ask([op |-> "addMember", user |-> u, team |-> t])
  /\ UNCHANGED TenRows

(* The foreign key refuses a team that is gone.                            *)
TeamMemberAdded(r) ==
  /\ r.op = "addMember" /\ Done(r)
  /\ teamMember' = teamMember \cup (IF r.team \in team THEN {<<r.team, r.user>>} ELSE {})
  /\ UNCHANGED <<role, customRole, team, accessMode, projectTeam>>

RemoveTeamMember(u, t) ==
  /\ SomeoneMay("teams.update") /\ <<t, u>> \in teamMember
  /\ teamMember' = teamMember \ {<<t, u>>}
  /\ AtOnce
  /\ UNCHANGED <<role, customRole, team, accessMode, projectTeam>>

-----------------------------------------------------------------------------
(* Access to projects.                                                     *)

CreateProject(p, mode, teams) ==
  /\ SomeoneMay("projects.create") /\ p \notin DOMAIN accessMode
  /\ teams \subseteq team /\ (mode = "team" => teams # {})
  /\ Ask([op |-> "createProject", project |-> p, mode |-> mode, teams |-> teams])
  /\ UNCHANGED TenRows

SetAccess(p, mode, teams) ==
  /\ \E u \in OrgUsers : resolveProjectAccess(u, p) /\ Allowed(u, "projects.manage_access")
  /\ teams \subseteq team /\ (mode = "team" => teams # {})
  /\ Ask([op |-> "setAccess", project |-> p, mode |-> mode, teams |-> teams])
  /\ UNCHANGED TenRows

(* One transaction, which fails when a team is gone.                       *)
AccessWritten(r) ==
  /\ r.op \in {"createProject", "setAccess"} /\ Done(r)
  /\ IF r.teams \subseteq team
       THEN /\ accessMode' = [p \in DOMAIN accessMode \cup {r.project} |->
                                IF p = r.project THEN r.mode ELSE accessMode[p]]
            /\ projectTeam' = {row \in projectTeam : row[1] # r.project}
                                \cup ({r.project} \X r.teams)
       ELSE UNCHANGED <<accessMode, projectTeam>>
  /\ UNCHANGED <<role, customRole, team, teamMember>>

AddProjectTeam(p, t) ==
  /\ SomeoneMay("projects.manage_access") /\ t \in team /\ p \in DOMAIN accessMode
  /\ Ask([op |-> "addTeam", project |-> p, team |-> t])
  /\ UNCHANGED TenRows

ProjectTeamAdded(r) ==
  /\ r.op = "addTeam" /\ Done(r)
  /\ IF r.team \in team
       THEN /\ accessMode' = [accessMode EXCEPT ![r.project] = "team"]
            /\ projectTeam' = projectTeam \cup {<<r.project, r.team>>}
       ELSE UNCHANGED <<accessMode, projectTeam>>
  /\ UNCHANGED <<role, customRole, team, teamMember>>

(* Removing a team is a delete, a read of the rows that remain and an      *)
(* update of the project, without a transaction.                           *)
RemoveProjectTeam(p, t) ==
  /\ SomeoneMay("projects.manage_access") /\ <<p, t>> \in projectTeam
  /\ projectTeam' = projectTeam \ {<<p, t>>}
  /\ Ask([op |-> "removeTeam", project |-> p])
  /\ UNCHANGED <<role, customRole, team, teamMember, accessMode>>

ReadRemaining(r) ==
  /\ r.op = "removeTeam" /\ r \in pending
  /\ pending' = (pending \ {r}) \cup
       {[op |-> "removedTeam", project |-> r.project,
         remaining |-> {t \in Teams : <<r.project, t>> \in projectTeam}]}
  /\ UNCHANGED <<TenRows, overlapped>>

ProjectTeamRemoved(r) ==
  /\ r.op = "removedTeam" /\ Done(r)
  /\ accessMode' = [accessMode EXCEPT ![r.project] =
                      IF r.remaining # {} THEN "team" ELSE "organization"]
  /\ UNCHANGED <<role, customRole, team, teamMember, projectTeam>>

(* The API dies with its requests.                                         *)
TenancyRestart ==
  /\ pending # {} /\ pending' = {}
  /\ UNCHANGED <<TenRows, overlapped>>

TenNext ==
  \/ \E u \in OrgUsers : \E r \in SystemRoles \cup CustomRoles : AssignRole(u, r)
  \/ \E r \in CustomRoles : DeleteRole(r) \/ \E granted \in {{"projects.read"}, Permissions} :
       CreateRole(r, granted) \/ UpdateRole(r, granted)
  \/ \E t \in Teams : DeleteTeam(t) \/ \E u \in OrgUsers :
       CreateTeam(u, t) \/ AddTeamMember(u, t) \/ RemoveTeamMember(u, t)
  \/ \E p \in Projects : \E t \in Teams : AddProjectTeam(p, t) \/ RemoveProjectTeam(p, t)
  \/ \E p \in Projects : \E mode \in Modes : \E teams \in SUBSET Teams :
       CreateProject(p, mode, teams) \/ SetAccess(p, mode, teams)
  \/ \E r \in pending : \/ RoleAssigned(r) \/ RoleDeleted(r) \/ TeamMemberAdded(r)
                        \/ AccessWritten(r) \/ ProjectTeamAdded(r)
                        \/ ReadRemaining(r) \/ ProjectTeamRemoved(r)
  \/ TenancyRestart

-----------------------------------------------------------------------------
TenTypeOK ==
  /\ role \in [OrgUsers -> SystemRoles \cup CustomRoles]
  /\ DOMAIN customRole \subseteq CustomRoles
  /\ \A r \in DOMAIN customRole : customRole[r] \subseteq Permissions
  /\ team \subseteq Teams /\ teamMember \subseteq team \X OrgUsers
  /\ DOMAIN accessMode \subseteq Projects
  /\ \A p \in DOMAIN accessMode : accessMode[p] \in Modes
  /\ projectTeam \subseteq (DOMAIN accessMode) \X team
  /\ pending \subseteq TenRequest /\ overlapped \in BOOLEAN

(* The project lists and the detail routes decide alike, whatever became   *)
(* of roles, teams and assignments ("Filter Project lists through the same *)
(* policy used by detail endpoints", access.ts:46).                        *)
ListMatchesDetail ==
  \A u \in OrgUsers : LET open == {p \in Projects : resolveProjectAccess(u, p)}
                   IN  listAccessibleProjects(u) = open /\ listProjectPage(u) = open

(* As long as no two requests overlap, the organization keeps an owner,    *)
(* nobody holds a role that was deleted, and a project that is restricted  *)
(* to teams is opened to the organization only on request or with its last *)
(* team. Every one of these checks is made before the write it is for, and *)
(* two requests together can defeat it.                                    *)
Overlapping == overlapped'
RulesKept ==
  \/ Overlapping
  \/ /\ Owners' # {}
     /\ \A u \in OrgUsers : (role[u] \in SystemRoles \cup DOMAIN customRole)'
     /\ \A p \in DOMAIN accessMode :
          accessMode[p] = "team" /\ accessMode'[p] = "organization" =>
            \/ projectTeam' \cap ({p} \X Teams) = {}
            \/ \E r \in pending : r.op = "setAccess" /\ r.project = p
=============================================================================
