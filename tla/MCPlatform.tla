------------------------------ MODULE MCPlatform ------------------------------
(***************************************************************************)
(* Model checking of the parts of the platform that share no state with    *)
(* each other in these models: administration, enrolment, game servers,    *)
(* the execution of workflows, the stores, and the pages of the            *)
(* dashboard.                                                              *)
(*                                                                         *)
(* A behaviour is one of one part: "moving" says of which, and the others  *)
(* stay as they began. A part that may begin in several ways begins in one *)
(* of them where it does not move.                                         *)
(***************************************************************************)
EXTENDS Workflow, FirecrackerAgent, Projects, Enrollment, GameServers,
  Accounts, ApplicationPage, GameServerPage, RateLimit, ObjectStore, DashboardTls, DomainsPage

VARIABLE moving

MovingParts == {"workflow", "machines", "tenancy", "projects", "enrollment", "games", "grants",
          "accounts", "application page", "game page", "limits", "buckets",
          "certificates", "domains page"}

-----------------------------------------------------------------------------
(* Values of the constants.                                                *)
SameName == [d \in Vms |-> CHOOSE n \in VmNames : TRUE]
SecondPlayer == [c \in Crews |-> {CHOOSE u \in Players : u # CHOOSE v \in Players : TRUE}]
ProductionOf == CHOOSE f \in [Projects -> Envs] : \A p, q \in Projects : f[p] = f[q] => p = q
(* The limiters of a request: one key after the other, or the first alone. *)
FirstKey == CHOOSE k \in LimitKeys : TRUE
ShortChains == {<<FirstKey>>} \cup {<<FirstKey, k>> : k \in LimitKeys \ {FirstKey}}

-----------------------------------------------------------------------------
PlatformInit ==
  /\ moving \in MovingParts
  /\ WfInit /\ FcInit /\ TenInit /\ PrjInit /\ EnrInit /\ GsInit /\ GaInit
  /\ AccInit /\ PagInit /\ OsInit /\ TlsInit
  /\ RlInit /\ (moving # "limits" => store = "memory")
  /\ GpInit /\ (moving # "game page" => \A s \in Worlds : worldStatus[s] = "absent")
  /\ DpInit
  /\ moving # "domains page" => sites = <<>>
  /\ \A d \in DOMAIN sites : d = (CHOOSE e \in SiteIds : TRUE)
                          /\ sites[d].host = (CHOOSE h \in SiteHosts : TRUE)

PlatformNext ==
  /\ UNCHANGED moving
  /\ IF moving = "workflow" THEN WfNext ELSE UNCHANGED <<workflow, wfVars>>
  /\ IF moving = "machines" THEN FcNext ELSE UNCHANGED fcVars
  /\ CASE moving = "tenancy" -> TenNext /\ UNCHANGED prjVars
       [] moving = "projects" -> PrjNext
       [] OTHER -> UNCHANGED PrjRows /\ UNCHANGED tenVars
  /\ IF moving = "enrollment" THEN EnrNext ELSE UNCHANGED enrVars
  /\ IF moving = "games" THEN GsNext ELSE UNCHANGED gsVars
  /\ IF moving = "grants" THEN GaNext ELSE UNCHANGED gaVars
  /\ IF moving = "accounts" THEN AccNext ELSE UNCHANGED accVars
  /\ IF moving = "application page" THEN PagNext ELSE UNCHANGED pagVars
  /\ IF moving = "game page" THEN GpNext ELSE UNCHANGED gpVars
  /\ IF moving = "limits" THEN RlNext ELSE UNCHANGED rlVars
  /\ IF moving = "buckets" THEN OsNext ELSE UNCHANGED osVars
  /\ IF moving = "certificates" THEN TlsNext ELSE UNCHANGED tlsVars
  /\ IF moving = "domains page" THEN DpNext ELSE UNCHANGED dpVars

PlatformVars ==
  <<wfVars, fcVars, tenVars, prjVars, enrVars, gsVars, gaVars, accVars, pagVars, gpVars,
    rlVars, osVars, tlsVars, dpVars, moving>>
PlatformSpec == PlatformInit /\ [][PlatformNext]_PlatformVars

-----------------------------------------------------------------------------
(* Bounds: what a run leaves out. The histories name the overlaps, crashes *)
(* and clicks that the properties except; nothing is to be seen after one. *)
Undisturbed ==
  /\ ~vmDisturbed /\ ~overlapped /\ ~gameRaced /\ ~grantRaced
  /\ ~banRaced /\ ~setupCut /\ ~hasty /\ ~disturbed /\ ~cut /\ ~mishap
  /\ ~estranged /\ ~crowded /\ ~unread /\ ~strayed

(* Game servers: rows and handlers are taken in turn, and a server that    *)
(* something is asked of has one deployment and one workload.              *)
GameRowUsed(w) == gameWorkload[w] # NoWorkload \/ gameCommand[w] # NoCommands
FewGameCalls ==
  /\ \A w \in GameRows : GameRowUsed(w) => GameRowUsed(CHOOSE v \in GameRows : TRUE)
  /\ \A c \in GameCalls : gameCall[c].pc # "idle" => gameCall[CHOOSE d \in GameCalls : TRUE].pc # "idle"
  /\ (\E w \in GameRows : gameCommand[w].ask # "none") =>
       /\ Cardinality({w \in GameRows : GameRowUsed(w)}) = 1
       /\ \A r \in GameRevisions \ {OwnRevision} : gameDesired[r] = "none"

(* Accounts: one sign-in, ban or founder at a time, and two of these,      *)
(* organizations and installations.                                        *)
FewAccounts ==
  /\ Cardinality(mayFound) + Cardinality(banned) + Cardinality(signingIn) <= 1
  /\ Cardinality(mayFound \cup banned \cup signingIn) + Cardinality(founded)
       + Cardinality({c \in Installers : setupCall[c].pc # "idle"}) <= 2

(* Application page: two requests under way, one edited field; beside the  *)
(* workloads no more than the ports are changed.                           *)
WorkloadsTouched ==
  saved.workloads # {} \/ shown.workloads # {} \/ moved \/ mutation["deployment"].pc # "idle"
FewRequests ==
  /\ WorkloadsTouched => /\ \A m \in Mutations \ {"deployment", "ports"} : mutation[m].pc = "idle"
                         /\ saved.items = {} /\ form = shown.field
                         /\ \A f, g \in Fields : saved.field[f] = saved.field[g]
  /\ Cardinality({q \in Queries : fetch[q].pc # "none"})
       + Cardinality({m \in Mutations : mutation[m].pc # "idle"}) <= 2
  /\ Cardinality({f \in Fields : form[f] # shown.field[f]}) <= 1

(* Game server page: its cards, the files of a server and the grants are   *)
(* used one after the other, the grants of one server only.                *)
FilesTouched == listing # NoWorld \/ editor # NoFile \/ \E o \in FileOps : fileOp[o].pc # "idle"
GrantsTouched == Changing \/ \E s \in Worlds : grants[s] # 0 \/ grantFetch[s].pc # "none"
CardsUntouched ==
  /\ creating.pc = "idle" /\ button.pc = "idle" /\ cardFetch.pc = "none" /\ pendingDelete = NoWorld
  /\ \A s \in Worlds : worldStatus[s] = "stopped"
OnePanel ==
  /\ FilesTouched \/ GrantsTouched => CardsUntouched
  /\ ~(FilesTouched /\ GrantsTouched)
  /\ Cardinality({s \in Worlds : grants[s] # 0}) <= 1
  /\ creating.pc # "idle" => button.pc = "idle" /\ pendingDelete = NoWorld

(* Limits: two requests of a key are counted in a window.                  *)
FewHits == \A k \in LimitKeys, w \in Windows : counted[k][w] <= 2

(* Certificates: one tab has read the status, and one is at its form.      *)
OneTab ==
  /\ Cardinality({t \in Tabs : fetching[t].pc # "none" \/ certStatus[t] # NoPair}) <= 1
  /\ Cardinality({t \in Tabs : chosen[t] # NoFiles \/ upload[t] # NoUpload}) <= 1

(* Domains page: a form is filled in from the top, and the list is fetched *)
(* beside one save.                                                        *)
SavesUnderWay == Cardinality({c \in SiteCalls : siteCall[c].pc # "idle"})
FilledInOrder ==
  /\ Cardinality(unseen) <= 1
  /\ unseen # {} => SavesUnderWay = 0 /\ ~siteForm.open
  /\ siteFetch.pc # "none" => SavesUnderWay <= 1
  /\ siteForm.open /\ siteForm.target = Blank => siteForm.opened = NewSite
  /\ siteForm.open /\ siteForm.target # Blank => siteForm.host # Blank
  /\ ~siteForm.open /\ SavesUnderWay = 0 => siteForm = NoForm

(* A part that stays as it began keeps what held there: the bounds and the *)
(* properties of a part are evaluated where it moves.                      *)
Of(parts, property) == moving \in parts => property

Explored ==
  /\ Undisturbed
  /\ Of({"games"}, FewGameCalls)
  /\ Of({"accounts"}, FewAccounts) /\ Of({"application page"}, FewRequests)
  /\ Of({"game page"}, OnePanel) /\ Of({"limits"}, FewHits)
  /\ Of({"certificates"}, OneTab) /\ Of({"domains page"}, FilledInOrder)

-----------------------------------------------------------------------------

(* The types of all parts.                                                 *)
PlatformTypeOK ==
  /\ moving \in MovingParts
  /\ Of({"workflow"}, WfTypeOK) /\ Of({"machines"}, FcTypeOK)
  /\ Of({"tenancy"}, TenTypeOK) /\ Of({"projects"}, PrjTypeOK)
  /\ Of({"enrollment"}, EnrTypeOK) /\ Of({"accounts"}, AccTypeOK)
  /\ Of({"games", "grants"}, GsTypeOK)
  /\ Of({"limits"}, RlTypeOK) /\ Of({"buckets"}, OsTypeOK)
  /\ Of({"application page"}, PagTypeOK) /\ Of({"game page"}, GpTypeOK)
  /\ Of({"certificates"}, TlsTypeOK) /\ Of({"domains page"}, DpTypeOK)

(* Who gets in: lists and detail routes show a project to the same users   *)
(* (Tenancy), a registration token enrols one node (Enrollment), and one   *)
(* installation makes one administrator (Accounts).                        *)
AccessSound ==
  /\ Of({"tenancy", "projects"}, ListMatchesDetail)
  /\ Of({"enrollment"}, EnrolledOnce)
  /\ Of({"accounts"}, InstalledOnce)

(* Requests that do not overlap keep the rules that every one of them      *)
(* checks before it writes (Tenancy, Projects).                            *)
AdministrationRules ==
  [][Of({"tenancy", "projects"}, RulesKept /\ ProjectRulesKept)]_<<tenVars, prjVars>>

(* A game server is reported as it is, and a player has one grant          *)
(* (GameServers).                                                          *)
GameSound == Of({"games", "grants"}, ServerToldTruly /\ OneGrantEach)

(* Steps run in the order of their needs (Workflow), on machines that have *)
(* an address each (FirecrackerAgent).                                     *)
RunsSound == Of({"workflow"}, WorkflowSound) /\ Of({"machines"}, AddressesApart)

(* Limits let no more through than they say (RateLimit); buckets are there *)
(* when an upload says so (ObjectStore).                                   *)
StoresSound == Of({"limits"}, RateLimitSound) /\ Of({"buckets"}, BucketsSound)

(* What a page shows and what it writes (ApplicationPage, GameServerPage,  *)
(* DomainsPage, DashboardTls).                                             *)
DashboardSound ==
  /\ Of({"application page"}, PageShowsStored)
  /\ Of({"game page"}, GameServerPageSound)
  /\ Of({"domains page"}, DomainsPageSound)
  /\ Of({"certificates"}, CertificateServed)
=============================================================================
