---------------------------- MODULE ApplicationPage ----------------------------
(***************************************************************************)
(* The dashboard's page of one application (app/(org)/[orgSlug]/           *)
(* applications/[applicationId]/page.tsx) against the configuration        *)
(* handlers of applications.routes.ts: cached answers of three queries,    *)
(* form fields that effects fill from them, and mutations that send what   *)
(* the page holds and, when they succeed, invalidate queries.              *)
(*                                                                         *)
(* Fields of a form are sent as they stand; ports are sent as a whole      *)
(* list, made from the cached one; a volume mount, a secret and a variable *)
(* are added and removed one by one. The deploy button sends the opposite  *)
(* of what the cached workloads say, and its handlers change no more than  *)
(* what is wanted: agents and controllers move the workloads later, and    *)
(* nothing makes the page look again (its runtime query does not poll).    *)
(*                                                                         *)
(* Simplifications: the page has loaded and the application stays active;  *)
(* the queries for logs, metrics, activity, networking, volumes and        *)
(* secrets are only displayed; the credential of the source is left out;   *)
(* refused input and missing permissions are answers that are not ok;      *)
(* which workloads agents and controllers move, and when, is left open     *)
(* (NodeAgent, Reconciler).                                                *)
(* react-query is external: an invalidated query is fetched anew and the   *)
(* answer of a fetch under way is ignored, other refetches join a fetch    *)
(* under way.                                                              *)
(***************************************************************************)
EXTENDS Integers

CONSTANTS
  Values,      \* values of a form field
  Ports,
  MaxClicks    \* bound: mutations of one behaviour

ASSUME ApplicationPageAssumption == Values # {} /\ MaxClicks \in Nat

VARIABLES
  saved,       \* the rows of the application
  shown,       \* cached data of the queries
  form,        \* the inputs of the page
  fetch,       \* fetches under way
  mutation,    \* mutations under way
  asked,       \* history: the ports that the user has asked for
  moved,       \* history: workloads moved by themselves since they were last read
  clicks,
  hasty,       \* history: a port was clicked while the list was being fetched
  disturbed    \* history: another user wrote, or something failed

pagVars == <<saved, shown, form, fetch, mutation, asked, moved, clicks, hasty, disturbed>>

Queries == {"applications", "configuration", "runtime"}
Fields == {"resources", "runtime", "build", "environment", "source"}
Items == {"volume", "secret", "variable"}
Mutations == Items \cup {"defaults", "build", "environment", "source", "ports", "deployment"}

WorkloadStates == {"wanted", "up"} \* desired, and reported, to be running: some workload
Parts == Fields \cup Items \cup {"ports", "workloads"}
Data == [field : [Fields -> Values], ports : SUBSET Ports, items : SUBSET Items, workloads : SUBSET WorkloadStates]
NoLoad == [field |-> <<>>, ports |-> {}, items |-> {}, workloads |-> {}]

PagTypeOK ==
  /\ saved \in Data /\ shown \in Data
  /\ form \in [Fields -> Values]
  /\ \A q \in Queries : fetch[q].pc \in {"none", "sent", "answered"}
  /\ \A m \in Mutations : /\ mutation[m].pc \in {"idle", "sent"}
                          /\ mutation[m].todo \subseteq Parts
  /\ asked \subseteq Ports
  /\ clicks \in 0 .. MaxClicks
  /\ {moved, hasty, disturbed} \subseteq BOOLEAN

NoFetch == [pc |-> "none", answer |-> NoLoad]
NoSaving == [pc |-> "idle", todo |-> {}, load |-> NoLoad]

PagInit ==
  /\ saved = [field |-> [f \in Fields |-> CHOOSE v \in Values : TRUE],
              ports |-> {}, items |-> {}, workloads |-> {}]
  /\ shown = saved
  /\ form = shown.field
  /\ fetch = [q \in Queries |-> NoFetch]
  /\ mutation = [m \in Mutations |-> NoSaving]
  /\ asked = {} /\ moved = FALSE /\ clicks = 0 /\ hasty = FALSE /\ disturbed = FALSE

(* The part of the data that a query brings.                               *)
QueryFields(q) == CASE q = "applications" -> {"source"}
                    [] q = "configuration" -> Fields \ {"source"}
                    [] OTHER -> {}
OfFields(q, data) == [NoLoad EXCEPT !.field = [f \in QueryFields(q) |-> data.field[f]]]
GetConfiguration(data) ==
  [OfFields("configuration", data) EXCEPT !.ports = data.ports, !.items = data.items]
GetApplications(data) == OfFields("applications", data)
GetRuntime(data) == [NoLoad EXCEPT !.workloads = data.workloads]
Part(q, data) == CASE q = "configuration" -> GetConfiguration(data)
                   [] q = "applications" -> GetApplications(data)
                   [] OTHER -> GetRuntime(data)
Update(data, q, answer) ==
  [field |-> [f \in Fields |-> IF f \in QueryFields(q) THEN answer.field[f] ELSE data.field[f]],
   ports |-> IF q = "configuration" THEN answer.ports ELSE data.ports,
   items |-> IF q = "configuration" THEN answer.items ELSE data.items,
   workloads |-> IF q = "runtime" THEN answer.workloads ELSE data.workloads]

-----------------------------------------------------------------------------
(* Queries                                                                 *)

(* The effects on configuration.data and on the application of the list.   *)
FillForm(q, data) == [f \in Fields |-> IF f \in QueryFields(q) THEN data.field[f] ELSE form[f]]

(* refetchOnWindowFocus, or the query is mounted again.                    *)
Refetch(q) ==
  /\ fetch[q].pc = "none"
  /\ fetch' = [fetch EXCEPT ![q].pc = "sent"]
  /\ UNCHANGED <<saved, shown, form, mutation, asked, moved, clicks, hasty, disturbed>>

(* The GET handler of the query reads the rows.                            *)
Answer(q) ==
  /\ fetch[q].pc = "sent"
  /\ fetch' = [fetch EXCEPT ![q] = [pc |-> "answered", answer |-> Part(q, saved)]]
  /\ moved' = (moved /\ q # "runtime")
  /\ UNCHANGED <<saved, shown, form, mutation, asked, clicks, hasty, disturbed>>

(* New data re-runs the effect; equal data keeps its identity, unless a    *)
(* column that the page does not show has changed.                         *)
Arrive(q) ==
  LET data == Update(shown, q, fetch[q].answer) IN
  /\ fetch[q].pc = "answered"
  /\ shown' = data
  /\ form' = FillForm(q, data) \/ (data = shown /\ UNCHANGED form)
  /\ fetch' = [fetch EXCEPT ![q] = NoFetch]
  /\ UNCHANGED <<saved, mutation, asked, moved, clicks, hasty, disturbed>>

(* The retry failed as well: the old data stay, with an error.             *)
FetchFails(q) ==
  /\ fetch[q].pc # "none"
  /\ fetch' = [fetch EXCEPT ![q] = NoFetch]
  /\ disturbed' = TRUE
  /\ UNCHANGED <<saved, shown, form, mutation, asked, moved, clicks, hasty>>

-----------------------------------------------------------------------------
(* The user                                                                *)

Type(f) ==
  /\ \E v \in Values \ {form[f]} : form' = [form EXCEPT ![f] = v]
  /\ UNCHANGED <<saved, shown, fetch, mutation, asked, moved, clicks, hasty, disturbed>>

(* The effect on the configuration also depends on secretEnvironmentId.    *)
ChooseSecretEnvironment ==
  /\ form' = FillForm("configuration", shown)
  /\ UNCHANGED <<saved, shown, fetch, mutation, asked, moved, clicks, hasty, disturbed>>

Send(m, todo, load) ==
  /\ clicks < MaxClicks
  /\ mutation' = [mutation EXCEPT ![m] = [pc |-> "sent", todo |-> todo, load |-> load]]
  /\ clicks' = clicks + 1
  /\ UNCHANGED <<saved, shown, form, fetch, moved, disturbed>>

SendFields(m, fields) ==
  /\ Send(m, fields, [NoLoad EXCEPT !.field = [f \in fields |-> form[f]]])
  /\ UNCHANGED <<asked, hasty>>

saveDefaults == SendFields("defaults", {"resources", "runtime"})
buildConfigurationMutation == SendFields("build", {"build"})
defaultEnvironmentMutation == SendFields("environment", {"environment"})
sourceMutation == SendFields("source", {"source"})

savePorts(ports, wanted) ==
  /\ Send("ports", {"ports"}, [NoLoad EXCEPT !.ports = ports])
  /\ asked' = wanted
  /\ hasty' = (hasty \/ fetch["configuration"].pc # "none")

ChangeItem(i) ==
  /\ Send(i, {i}, [NoLoad EXCEPT !.items = {i} \ shown.items])
  /\ UNCHANGED <<asked, hasty>>

volumeMutation == ChangeItem("volume")
secretMutation == ChangeItem("secret")
applicationVariableMutation == ChangeItem("variable")

running == shown.workloads # {}
deployment(wanted) ==
  /\ Send("deployment", {"workloads"}, [NoLoad EXCEPT !.workloads = wanted])
  /\ UNCHANGED <<asked, hasty>>

(* The panels of the page: inputs, and buttons that isPending disables.    *)
isPending(m) == mutation[m].pc # "idle"

HeaderPanel == ~isPending("deployment") /\ deployment(IF running THEN {} ELSE {"wanted"})
SourcePanel == Type("source") \/ (~isPending("source") /\ sourceMutation)
DefaultsPanel == Type("resources") \/ (~isPending("defaults") /\ saveDefaults)
RuntimePanel == Type("runtime") \/ (~isPending("defaults") /\ saveDefaults)
HealthPanel == Type("runtime") \/ (~isPending("defaults") /\ saveDefaults)
BuildPanel == Type("build") \/ (~isPending("build") /\ buildConfigurationMutation)
EnvironmentPanel == Type("environment") \/ (~isPending("environment") /\ defaultEnvironmentMutation)
PortsPanel ==
  /\ ~isPending("ports")
  /\ \E p \in Ports : \/ p \in shown.ports /\ savePorts(shown.ports \ {p}, asked \ {p})
                      \/ p \notin shown.ports /\ savePorts(shown.ports \cup {p}, asked \cup {p})
VolumePanel == ~isPending("volume") /\ volumeMutation
SecretPanel == ChooseSecretEnvironment \/ (~isPending("secret") /\ secretMutation)
VariablePanel == ~isPending("variable") /\ applicationVariableMutation

-----------------------------------------------------------------------------
(* The handlers, and the end of a mutation                                 *)

PutField(part, load) == [saved EXCEPT !.field[part] = load.field[part]]
PutPorts(load) == [saved EXCEPT !.ports = load.ports]
ChangeRow(part, load) == [saved EXCEPT !.items = (@ \ {part}) \cup load.items]
RequestStop(placed) == [saved EXCEPT !.workloads = (@ \ {"wanted"}) \cup placed]
Stored(part, load) ==
  CASE part = "ports" -> PutPorts(load)
    [] part \in Items -> ChangeRow(part, load)
    [] part = "workloads" -> RequestStop(load.workloads)
    [] OTHER -> PutField(part, load)

(* saveDefaults sends two requests side by side. A deployment is placed if *)
(* a node takes it.                                                        *)
Store(m, part) ==
  /\ part \in mutation[m].todo
  /\ \E placed \in SUBSET mutation[m].load.workloads :
       saved' = Stored(part, [mutation[m].load EXCEPT !.workloads = placed])
  /\ mutation' = [mutation EXCEPT ![m].todo = @ \ {part}]
  /\ UNCHANGED <<shown, form, fetch, asked, moved, clicks, hasty, disturbed>>

(* supersedePreviousDeployments, before the new deployment is reconciled.  *)
SupersedePrevious ==
  /\ mutation["deployment"].todo # {} /\ mutation["deployment"].load.workloads # {}
  /\ saved' = RequestStop({})
  /\ UNCHANGED <<shown, form, fetch, mutation, asked, moved, clicks, hasty, disturbed>>

(* A report of an agent, or a pass of a controller.                        *)
WorkloadsMove ==
  /\ \E w \in WorkloadStates : saved' = [saved EXCEPT !.workloads = (@ \ {w}) \cup ({w} \ @)]
  /\ moved' = TRUE
  /\ UNCHANGED <<shown, form, fetch, mutation, asked, clicks, hasty, disturbed>>

(* Faulty variant of Refreshes: the workloads are not fetched again.       *)
RefreshesNoRuntime(m) ==
  CASE m \in {"environment", "source"} -> {"applications", "configuration"}
    [] m = "deployment" -> {"applications"}
    [] OTHER -> {"configuration"}

(* Faulty variant of Refreshes: saved ports are not fetched again.         *)
RefreshesNoPorts(m) ==
  CASE m \in {"environment", "source"} -> {"applications", "configuration"}
    [] m = "deployment" -> Queries
    [] m = "ports" -> {}
    [] OTHER -> {"configuration"}

Refreshes(m) ==
  CASE m \in {"environment", "source"} -> {"applications", "configuration"}
    [] m = "deployment" -> Queries
    [] OTHER -> {"configuration"}

(* onSuccess: invalidateQueries.                                           *)
Succeed(m) ==
  /\ mutation[m].pc = "sent" /\ mutation[m].todo = {}
  /\ mutation' = [mutation EXCEPT ![m] = NoSaving]
  /\ fetch' = [q \in Queries |-> IF q \in Refreshes(m) THEN [NoFetch EXCEPT !.pc = "sent"] ELSE fetch[q]]
  /\ UNCHANGED <<saved, shown, form, asked, moved, clicks, hasty, disturbed>>

(* A request was refused or its answer was lost: an error, no refresh.     *)
Fail(m) ==
  /\ mutation[m].pc = "sent"
  /\ mutation' = [mutation EXCEPT ![m] = NoSaving]
  /\ disturbed' = TRUE
  /\ UNCHANGED <<saved, shown, form, fetch, asked, moved, clicks, hasty>>

(* Another user, or the same one in another tab.                           *)
OtherUserWrites ==
  /\ \E p \in Ports : saved' = [saved EXCEPT !.ports = @ \cup {p}]
  /\ disturbed' = TRUE
  /\ UNCHANGED <<shown, form, fetch, mutation, asked, moved, clicks, hasty>>

PagNext ==
  \/ \E q \in Queries : Refetch(q) \/ Answer(q) \/ Arrive(q) \/ FetchFails(q)
  \/ \E m \in Mutations : \/ Succeed(m) \/ Fail(m)
                          \/ \E part \in Parts : Store(m, part)
  \/ HeaderPanel \/ SourcePanel \/ DefaultsPanel \/ RuntimePanel \/ HealthPanel
  \/ BuildPanel \/ EnvironmentPanel \/ PortsPanel \/ VolumePanel \/ SecretPanel \/ VariablePanel
  \/ SupersedePrevious \/ WorkloadsMove \/ OtherUserWrites

-----------------------------------------------------------------------------
(* As long as nothing fails and nobody else writes: a page at rest shows   *)
(* what is stored, in whatever order saves, refetches and their answers    *)
(* came. That is the configuration, and the workloads as well unless       *)
(* agents or controllers have moved them since they were last read, as     *)
(* they do after every stop and deployment: the page then rests on what it *)
(* read. And ports that were clicked while the list was not being fetched  *)
(* are stored as asked, although every click sends a list made from the    *)
(* cache (savePorts, page.tsx:1067 and :1122).                             *)
AtRest == (\A q \in Queries : fetch[q].pc = "none") /\ (\A m \in Mutations : mutation[m].pc = "idle")
Configured(data) == [data EXCEPT !.workloads = {}]
PageShowsStored ==
  ~disturbed => /\ AtRest => /\ Configured(shown) = Configured(saved)
                             /\ ~moved => shown.workloads = saved.workloads
                /\ ~hasty /\ mutation["ports"].pc = "idle" => saved.ports = asked
=============================================================================
