------------------------------ MODULE DomainsPage ------------------------------
(***************************************************************************)
(* The dashboard's page of a project's domains (projects/[projectId]/      *)
(* domains/page.tsx) against the domain handlers of projects.routes.ts:    *)
(* one form for new and existing rows, a cached list, and four mutations.  *)
(* What the handlers do to the routes is in Domains.                       *)
(*                                                                         *)
(* The button of the form is disabled while a save is pending, the Enter   *)
(* key in the hostname field is not, and rows may be opened meanwhile.     *)
(*                                                                         *)
(* Simplifications: the environment, the application, its port and the     *)
(* protocol are one target, blank until it is chosen; refused requests are *)
(* answers that are not ok.  As in ApplicationPage, react-query is         *)
(* external.                                                               *)
(***************************************************************************)
EXTENDS Naturals

CONSTANTS
  SiteIds,     \* rows of project_domains
  SiteHosts,
  SiteTargets,
  Blank,       \* an empty input
  NewSite,     \* the form is open for a new row: editing is null
  SiteCalls,   \* requests at the same time
  MaxSaves     \* bound: mutations of one behaviour

ASSUME DomainsPageAssumption ==
  /\ MaxSaves \in Nat
  /\ Blank \notin SiteHosts \cup SiteTargets
  /\ NewSite \notin SiteIds

VARIABLES
  sites,       \* the rows
  listed,      \* cached data of the list
  siteForm,    \* open or not, the row it edits, its inputs; history: for what it was opened
  siteFetch,   \* the fetch of the list
  siteCall,    \* mutations with their handlers
  saves,
  unseen       \* history: rows changed without the page's doing since the list was read

dpVars == <<sites, listed, siteForm, siteFetch, siteCall, saves, unseen>>

Site == [host : SiteHosts, target : SiteTargets, status : {"pending", "active"}]
Table == {rows \in UNION {[ids -> Site] : ids \in SUBSET SiteIds} :
            \A d, e \in DOMAIN rows : rows[d].host = rows[e].host => d = e}
Form == [open : BOOLEAN, editing : SiteIds \cup {NewSite}, host : SiteHosts \cup {Blank},
         target : SiteTargets \cup {Blank}, opened : SiteIds \cup {NewSite}]

DpTypeOK ==
  /\ sites \in Table /\ listed \in Table
  /\ siteForm \in Form
  /\ siteFetch.pc \in {"none", "sent", "answered"} /\ siteFetch.answer \in Table
  /\ \A c \in SiteCalls : siteCall[c].pc \in {"idle", "sent", "ok", "refused"}
  /\ saves \in 0 .. MaxSaves
  /\ unseen \cup siteFetch.unseen \subseteq SiteIds

NoForm == [open |-> FALSE, editing |-> NewSite, host |-> Blank, target |-> Blank, opened |-> NewSite]
NoList == [pc |-> "none", answer |-> <<>>, unseen |-> {}]
NoSave == [pc |-> "idle", kind |-> "create", site |-> NewSite, host |-> Blank, target |-> Blank, opened |-> NewSite]

DpInit ==
  /\ sites \in Table /\ listed = sites
  /\ siteForm = NoForm
  /\ siteFetch = NoList
  /\ siteCall = [c \in SiteCalls |-> NoSave]
  /\ saves = 0
  /\ unseen = {}

-----------------------------------------------------------------------------
(* The list                                                                *)

RefetchList ==
  /\ siteFetch.pc = "none"
  /\ siteFetch' = [NoList EXCEPT !.pc = "sent"]
  /\ UNCHANGED <<sites, listed, siteForm, siteCall, saves, unseen>>

AnswerList ==
  /\ siteFetch.pc = "sent"
  /\ siteFetch' = [pc |-> "answered", answer |-> sites, unseen |-> {}]
  /\ UNCHANGED <<sites, listed, siteForm, siteCall, saves, unseen>>

ArriveList ==
  /\ siteFetch.pc = "answered"
  /\ listed' = siteFetch.answer
  /\ unseen' = siteFetch.unseen
  /\ siteFetch' = NoList
  /\ UNCHANGED <<sites, siteForm, siteCall, saves>>

ListFails ==
  /\ siteFetch.pc # "none"
  /\ siteFetch' = NoList
  /\ unseen' = SiteIds
  /\ UNCHANGED <<sites, listed, siteForm, siteCall, saves>>

Behind(rows) == /\ unseen' = unseen \cup rows
                /\ siteFetch' = [siteFetch EXCEPT !.unseen = @ \cup rows]

-----------------------------------------------------------------------------
(* The form                                                                *)

(* Faulty variant of openCreate: the row that was edited before stays set. *)
openCreateKeeps ==
  /\ siteForm' = [NoForm EXCEPT !.open = TRUE, !.editing = siteForm.editing]
  /\ UNCHANGED <<sites, listed, siteFetch, siteCall, saves, unseen>>

openCreate ==
  /\ siteForm' = [NoForm EXCEPT !.open = TRUE]
  /\ UNCHANGED <<sites, listed, siteFetch, siteCall, saves, unseen>>

openEdit(d) ==
  /\ d \in DOMAIN listed
  /\ siteForm' = [open |-> TRUE, editing |-> d, host |-> listed[d].host, target |-> listed[d].target, opened |-> d]
  /\ UNCHANGED <<sites, listed, siteFetch, siteCall, saves, unseen>>

(* The inputs, and the button that only closes the form.                   *)
FormPanel ==
  /\ siteForm.open
  /\ siteForm' \in {[siteForm EXCEPT !.open = FALSE]}
                     \cup {[siteForm EXCEPT !.host = h] : h \in SiteHosts \cup {Blank}}
                     \cup {[siteForm EXCEPT !.target = g] : g \in SiteTargets \cup {Blank}}
  /\ UNCHANGED <<sites, listed, siteFetch, siteCall, saves, unseen>>

SendSite(c, kind, d, host, target) ==
  /\ siteCall[c].pc = "idle" /\ saves < MaxSaves
  /\ siteCall' = [siteCall EXCEPT ![c] = [pc |-> "sent", kind |-> kind, site |-> d, host |-> host,
                                          target |-> target, opened |-> siteForm.opened]]
  /\ saves' = saves + 1
  /\ UNCHANGED <<sites, listed, siteForm, siteFetch, unseen>>

createDomain(c) == SendSite(c, "create", NewSite, siteForm.host, siteForm.target)
updateDomain(c, d) == SendSite(c, "update", d, siteForm.host, siteForm.target)
deleteDomain(c, d) == SendSite(c, "delete", d, Blank, Blank)
verifyDomain(c, d) == SendSite(c, "verify", d, Blank, Blank)

submit(c) ==
  /\ siteForm.open /\ siteForm.host # Blank /\ siteForm.target # Blank
  /\ \/ siteForm.editing # NewSite /\ updateDomain(c, siteForm.editing)
     \/ siteForm.editing = NewSite /\ createDomain(c)

Pending(kind) == \E c \in SiteCalls : siteCall[c].kind = kind /\ siteCall[c].pc # "idle"

(* The rows of the list with their buttons.                                *)
SiteList(c) ==
  \E d \in DOMAIN listed :
    \/ listed[d].status # "active" /\ ~Pending("verify") /\ verifyDomain(c, d)
    \/ ~Pending("delete") /\ deleteDomain(c, d)

-----------------------------------------------------------------------------
(* The handlers, as far as the rows go, and the ends of the mutations      *)

HostFree(host, d) == \A e \in DOMAIN sites \ {d} : sites[e].host # host

With(d, row) == [e \in DOMAIN sites \cup {d} |-> IF e = d THEN row ELSE sites[e]]

(* DNS may answer at once: the row is active when its routes are written.  *)
StoreSite(m) ==
  \/ /\ m.kind = "create" /\ HostFree(m.host, NewSite)
     /\ \E d \in SiteIds \ DOMAIN sites, s \in {"pending", "active"} :
          sites' = With(d, [host |-> m.host, target |-> m.target, status |-> s])
  \/ /\ m.kind = "update" /\ m.site \in DOMAIN sites /\ HostFree(m.host, m.site)
     /\ sites' = With(m.site, [host |-> m.host, target |-> m.target, status |-> "pending"])
  \/ /\ m.kind = "verify" /\ m.site \in DOMAIN sites
     /\ \E s \in {"pending", "active"} : sites' = With(m.site, [sites[m.site] EXCEPT !.status = s])
  \/ /\ m.kind = "delete" /\ m.site \in DOMAIN sites
     /\ sites' = [e \in DOMAIN sites \ {m.site} |-> sites[e]]

HandleSite(c) ==
  /\ siteCall[c].pc = "sent"
  /\ StoreSite(siteCall[c])
  /\ siteCall' = [siteCall EXCEPT ![c].pc = "ok"]
  /\ UNCHANGED <<listed, siteForm, siteFetch, saves, unseen>>

(* The request is refused, or carried out and answered with an error (503: *)
(* the routes could not be written) or not at all.                         *)
HandleSiteBadly(c) ==
  /\ siteCall[c].pc = "sent"
  /\ \/ UNCHANGED <<sites, unseen, siteFetch>>
     \/ StoreSite(siteCall[c]) /\ Behind(SiteIds)
  /\ siteCall' = [siteCall EXCEPT ![c].pc = "refused"]
  /\ UNCHANGED <<listed, siteForm, saves>>

(* onSuccess: a save closes the form, whatever it shows by now, and a      *)
(* created row clears the hostname, an updated one the edited row.         *)
SiteSaved(c) ==
  /\ siteCall[c].pc = "ok"
  /\ siteForm' = CASE siteCall[c].kind = "create" -> [siteForm EXCEPT !.open = FALSE, !.host = Blank]
                   [] siteCall[c].kind = "update" -> [siteForm EXCEPT !.open = FALSE, !.editing = NewSite]
                   [] OTHER -> siteForm
  /\ siteCall' = [siteCall EXCEPT ![c] = NoSave]
  /\ siteFetch' = [NoList EXCEPT !.pc = "sent"]
  /\ UNCHANGED <<sites, listed, saves, unseen>>

SiteRefused(c) ==
  /\ siteCall[c].pc = "refused"
  /\ siteCall' = [siteCall EXCEPT ![c] = NoSave]
  /\ UNCHANGED <<sites, listed, siteForm, siteFetch, saves, unseen>>

(* The route controller, or another user's request.                        *)
RouteTickMoves ==
  /\ \E d \in DOMAIN sites, s \in {"pending", "active"} :
       /\ s # sites[d].status
       /\ sites' = With(d, [sites[d] EXCEPT !.status = s])
       /\ Behind({d})
  /\ UNCHANGED <<listed, siteForm, siteCall, saves>>

DpNext ==
  \/ RefetchList \/ AnswerList \/ ArriveList \/ ListFails
  \/ openCreate \/ FormPanel \/ (\E d \in SiteIds : openEdit(d))
  \/ \E c \in SiteCalls : \/ submit(c) \/ SiteList(c)
                          \/ HandleSite(c) \/ HandleSiteBadly(c) \/ SiteSaved(c) \/ SiteRefused(c)
  \/ RouteTickMoves

-----------------------------------------------------------------------------
(* With saves under way while other rows are opened: what is sent is the   *)
(* form that was opened for the row it is sent to (submit, page.tsx:158),  *)
(* and a page at rest shows every row as it is stored, but for the rows    *)
(* that changed behind its back since the list was read.                   *)
DomainsPageSound ==
  /\ \A c \in SiteCalls : siteCall[c].kind \in {"create", "update"} => siteCall[c].site = siteCall[c].opened
  /\ (siteFetch.pc = "none" /\ \A c \in SiteCalls : siteCall[c].pc = "idle") =>
       \A d \in SiteIds \ unseen : /\ d \in DOMAIN listed <=> d \in DOMAIN sites
                                   /\ d \in DOMAIN sites => listed[d] = sites[d]
=============================================================================
