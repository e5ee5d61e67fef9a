------------------------------- MODULE Domains -------------------------------
(***************************************************************************)
(* The custom domains of one project: the rows, the handlers that change   *)
(* them, and the file from which the Traefik proxy takes its routes        *)
(* (projects.routes.ts, features/routing, lib/network/traefik.ts, dns.ts). *)
(*                                                                         *)
(* Every handler ends with syncTraefikRoutes, which reads all rows, asks   *)
(* for the upstreams of each domain, corrects its status and then replaces *)
(* the file; requests, ticks of the route controller and the withdrawal    *)
(* for an offline node do so concurrently, each with its own snapshot.     *)
(*                                                                         *)
(* Simplifications: the domains of the project share one application       *)
(* target, which has upstreams or not (serving); target validation,        *)
(* permissions and URL syntax are refusals that change nothing.            *)
(***************************************************************************)
EXTENDS FiniteSets

CONSTANTS
  DomainIds,     \* ids of domain rows
  Hostnames,
  LegacyDomains, \* rows of the time before targets, with a route in the file
  Requests,      \* handlers of user requests that may run at the same time
  RouteTicks     \* passes of the route controller and of the node withdrawal

(* There is a row to speak of, and the legacy rows had hostnames of their   *)
(* own.                                                                    *)
ASSUME DomainsAssumption ==
  /\ DomainIds # {} /\ LegacyDomains \subseteq DomainIds
  /\ \E h \in [DomainIds -> Hostnames] :
       \A d1, d2 \in LegacyDomains : h[d1] = h[d2] => d1 = d2

VARIABLES
  domain,        \* the project_domains rows
  routeFile,     \* project-<id>.json: the routes as <<domain, hostname>>
  serving,       \* resolveWorkloadUpstreams finds a ready workload
  routeCall      \* handlers in progress

domVars == <<domain, routeFile, serving, routeCall>>

RouteCalls == Requests \cup RouteTicks
DomainStatus == {"absent", "pending", "active", "failed"}
DomainRow == [hostname : Hostnames, status : DomainStatus, legacy : BOOLEAN]
RouteCallType == [pc : {"idle", "dns", "activate", "sync", "route", "unpublish"},
                  op : {"create", "verify", "patch", "delete", "tick"},
                  id : DomainIds, snapshot : [DomainIds -> DomainRow],
                  todo : SUBSET DomainIds, routes : SUBSET (DomainIds \X Hostnames)]

Listed(d) == domain[d].status # "absent"
Taken(h) == \E d \in DomainIds : Listed(d) /\ domain[d].hostname = h

LegacyActive == \E d \in DomainIds : domain[d].legacy /\ domain[d].status = "active"

(* An update by id: nothing happens when the row is gone.                  *)
SetStatus(d, status) ==
  domain' = IF Listed(d) THEN [domain EXCEPT ![d].status = status] ELSE domain

Goto(c, pc) == routeCall' = [routeCall EXCEPT ![c].pc = pc]

(* A call that does nothing keeps no data from its previous work.          *)
NoDomainRow == [hostname |-> CHOOSE h \in Hostnames : TRUE, status |-> "absent", legacy |-> FALSE]
IdleCall == [pc |-> "idle", op |-> "tick", id |-> CHOOSE d \in DomainIds : TRUE,
             snapshot |-> [d \in DomainIds |-> NoDomainRow], todo |-> {}, routes |-> {}]
FinishRouting(c) == routeCall' = [routeCall EXCEPT ![c] = IdleCall]
BeginCall(c, op, d, pc) ==
  /\ routeCall[c].pc = "idle"
  /\ routeCall' = [routeCall EXCEPT ![c] = [IdleCall EXCEPT
                     !.pc = pc, !.op = op, !.id = d]]

(* Legacy rows were active under hostnames of their own.                   *)
FirstHost == CHOOSE h \in [DomainIds -> Hostnames] :
               \A d1, d2 \in LegacyDomains : h[d1] = h[d2] => d1 = d2

DomInit ==
  /\ domain = [d \in DomainIds |->
       [hostname |-> FirstHost[d], legacy |-> d \in LegacyDomains,
        status |-> IF d \in LegacyDomains THEN "active" ELSE "absent"]]
  /\ routeFile = {<<d, FirstHost[d]>> : d \in LegacyDomains}
  /\ serving = TRUE
  /\ routeCall = [c \in RouteCalls |-> IdleCall]

-----------------------------------------------------------------------------
(* Requests.                                                               *)

(* The hostname is free in the project (also enforced by a unique index).  *)
CreateDomain(c, d, h) ==
  /\ ~Listed(d) /\ ~Taken(h)
  /\ domain' = [domain EXCEPT ![d] = [hostname |-> h, status |-> "pending", legacy |-> FALSE]]
  /\ BeginCall(c, "create", d, "dns")
  /\ UNCHANGED <<routeFile, serving>>

VerifyDomain(c, d) ==
  /\ Listed(d)
  /\ BeginCall(c, "verify", d, "dns")
  /\ UNCHANGED <<domain, routeFile, serving>>

(* A new hostname is pending again; a new target ends the legacy state.    *)
PatchDomain(c, d, h) ==
  /\ Listed(d)
  /\ \/ /\ ~Taken(h) \/ h = domain[d].hostname
        /\ domain' = [domain EXCEPT ![d] = [hostname |-> h, status |-> "pending", legacy |-> FALSE]]
     \/ domain' = [domain EXCEPT ![d].legacy = FALSE]
  /\ BeginCall(c, "patch", d, "sync")
  /\ UNCHANGED <<routeFile, serving>>

DeleteDomain(c, d) ==
  /\ Listed(d)
  /\ domain' = [domain EXCEPT ![d] = NoDomainRow]
  /\ BeginCall(c, "delete", d, "sync")
  /\ UNCHANGED <<routeFile, serving>>

(* verifyDomain: the address or the alias of the hostname that was read    *)
(* points here, or not.                                                    *)
CheckDns(c) ==
  /\ routeCall[c].pc = "dns"
  /\ \/ Goto(c, "activate") /\ UNCHANGED domain
     \/ /\ IF routeCall[c].op = "verify" THEN SetStatus(routeCall[c].id, "pending")
                                         ELSE UNCHANGED domain
        /\ FinishRouting(c)
  /\ UNCHANGED <<routeFile, serving>>

Activate(c) ==
  /\ routeCall[c].pc = "activate"
  /\ SetStatus(routeCall[c].id, "active")
  /\ Goto(c, "sync")
  /\ UNCHANGED <<routeFile, serving>>

-----------------------------------------------------------------------------
(* syncTraefikRoutes.                                                      *)

(* The controller visits the projects that have a domain.                  *)
RouteTick(c) ==
  /\ \E d \in DomainIds : Listed(d)
  /\ BeginCall(c, "tick", IdleCall.id, "sync")
  /\ UNCHANGED <<domain, routeFile, serving>>

(* An active legacy domain keeps the file as it is; the domain of the      *)
(* request is then pending.                                                *)
SyncRead(c) ==
  /\ routeCall[c].pc = "sync"
  /\ \/ /\ LegacyActive
        /\ IF routeCall[c].op # "tick" /\ routeCall[c].op # "delete" THEN Goto(c, "unpublish") ELSE FinishRouting(c)
     \/ /\ ~LegacyActive
        /\ LET todo == {d \in DomainIds : domain[d].status \in {"active", "failed"}}
           IN  routeCall' = [routeCall EXCEPT ![c] = [IdleCall EXCEPT
                 !.pc = "route", !.todo = todo,
                 !.snapshot = [d \in DomainIds |-> IF d \in todo THEN domain[d] ELSE NoDomainRow]]]
  /\ UNCHANGED <<domain, routeFile, serving>>

(* setDomainRouteStatus: only a change against the snapshot is written,    *)
(* and only if the row does not have the status already.                   *)
RouteStatus(c, d, status) ==
  IF routeCall[c].snapshot[d].status = status THEN UNCHANGED domain ELSE SetStatus(d, status)

HasUpstream(c, d) == serving /\ ~routeCall[c].snapshot[d].legacy

RouteDomain(c, d) ==
  /\ routeCall[c].pc = "route" /\ d \in routeCall[c].todo
  /\ RouteStatus(c, d, IF HasUpstream(c, d) THEN "active" ELSE "failed")
  /\ routeCall' = [routeCall EXCEPT
       ![c].todo = @ \ {d}, ![c].snapshot[d] = NoDomainRow,
       ![c].routes = @ \cup (IF HasUpstream(c, d) THEN {<<d, routeCall[c].snapshot[d].hostname>>} ELSE {})]
  /\ UNCHANGED <<routeFile, serving>>

(* Faulty variant of WriteRoutes: routes that are gone stay in the file.   *)
WriteRoutesAppends(c) ==
  /\ routeCall[c].pc = "route" /\ routeCall[c].todo = {}
  /\ routeFile' = routeFile \cup routeCall[c].routes
  /\ FinishRouting(c)
  /\ UNCHANGED <<domain, serving>>

(* The file is written beside and renamed: it changes at once.             *)
WriteRoutes(c) ==
  /\ routeCall[c].pc = "route" /\ routeCall[c].todo = {}
  /\ routeFile' = routeCall[c].routes
  /\ FinishRouting(c)
  /\ UNCHANGED <<domain, serving>>

Unpublish(c) ==
  /\ routeCall[c].pc = "unpublish"
  /\ SetStatus(routeCall[c].id, "pending")
  /\ FinishRouting(c)
  /\ UNCHANGED <<routeFile, serving>>

-----------------------------------------------------------------------------
(* The API dies with all its handlers; the workload of the target comes    *)
(* and goes.                                                               *)
RouteApiRestart ==
  /\ \E c \in RouteCalls : routeCall[c].pc # "idle"
  /\ routeCall' = [c \in RouteCalls |-> IdleCall]
  /\ UNCHANGED <<domain, routeFile, serving>>

UpstreamChange ==
  /\ serving' = ~serving
  /\ UNCHANGED <<domain, routeFile, routeCall>>

DomainRequest(c) ==
  \E d \in DomainIds :
    \/ VerifyDomain(c, d)
    \/ DeleteDomain(c, d)
    \/ \E h \in Hostnames : CreateDomain(c, d, h) \/ PatchDomain(c, d, h)

Continue(c) ==
  \/ CheckDns(c) \/ Activate(c) \/ SyncRead(c) \/ WriteRoutes(c) \/ Unpublish(c)
  \/ \E d \in DomainIds : RouteDomain(c, d)

DomNext ==
  \/ \E c \in Requests : DomainRequest(c)
  \/ \E c \in RouteTicks : RouteTick(c)
  \/ \E c \in RouteCalls : Continue(c)
  \/ RouteApiRestart
  \/ UpstreamChange

(* Handlers that have begun go on and the controller's interval fires;     *)
(* nothing is assumed of users. The API is restarted when it dies, and     *)
(* not in every pass.                                                      *)
DomFairness ==
  /\ \A c \in RouteCalls : WF_domVars(Continue(c))
  /\ \A c \in RouteTicks : WF_domVars(RouteTick(c))
  /\ <>[][~RouteApiRestart]_domVars

DomSpec == DomInit /\ [][DomNext]_domVars /\ DomFairness

-----------------------------------------------------------------------------
DomTypeOK ==
  /\ domain \in [DomainIds -> DomainRow]
  /\ routeFile \subseteq DomainIds \X Hostnames
  /\ serving \in BOOLEAN
  /\ \A c \in RouteCalls : routeCall[c] \in RouteCallType

(* A route of a domain that is deleted, or that has another hostname by    *)
(* now, or that has no upstream, is withdrawn, whatever stale snapshots    *)
(* other handlers still write and although the API may die between the     *)
(* change of the row and the file ("Periodic reconciliation also withdraws *)
(* unhealthy/offline workload backends", projects.routes.ts:122). The      *)
(* controller only visits projects that still have a domain, and leaves    *)
(* the file alone while a legacy domain is active: hence the last          *)
(* disjuncts.                                                              *)
Current(route) == Listed(route[1]) /\ domain[route[1]].hostname = route[2] /\ serving
StaleWithdrawn ==
  \A route \in DomainIds \X Hostnames :
    ~Current(route) ~> \/ route \notin routeFile \/ Current(route)
                       \/ LegacyActive \/ ~\E d \in DomainIds : Listed(d)

(* A domain that is shown as active is served under its hostname, or is    *)
(* active no more, as long as the target serves and no legacy domain keeps *)
(* the file ("Do not claim this changed target is live until its config    *)
(* can be published", projects.routes.ts:569).                             *)
ActiveServed ==
  \A d \in DomainIds : \A h \in Hostnames :
    (domain[d] = [hostname |-> h, status |-> "active", legacy |-> FALSE] /\ serving)
      ~> \/ <<d, h>> \in routeFile \/ ~serving \/ LegacyActive
         \/ domain[d] # [hostname |-> h, status |-> "active", legacy |-> FALSE]
=============================================================================
