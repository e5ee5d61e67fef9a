------------------------------ MODULE Enrollment -----------------------------
(***************************************************************************)
(* How an agent obtains its identity: registration tokens and the two      *)
(* registration routes (nodes.routes.ts), and the agent's identity file    *)
(* with its retries (agent index.ts). Two hosts are modelled: a remote one *)
(* that enrols with a token, and the host of the control plane, which      *)
(* enrols with its local secret. On a host a resident agent and a one-shot *)
(* enrolment command share the identity file.                              *)
(*                                                                         *)
(* The agent gives a request up after its timeout; the handler goes on, so *)
(* that handlers of several attempts may run at the same time.             *)
(***************************************************************************)
EXTENDS FiniteSets, Naturals

CONSTANTS
  RemoteAgents, LocalAgents,   \* agent processes of the two hosts
  Tokens,                      \* registration tokens an operator may create
  MaxRegistrations  \* bound on registration requests

ASSUME EnrollmentAssumption == MaxRegistrations \in Nat /\ "local" \notin Tokens

VARIABLES
  regToken,      \* state of every registration token
  nodeRow,       \* nodes, numbered by the attempt that created them
  attempt,       \* attempts so far; attempt n generates the agent token n
  registering,   \* handlers in progress
  agent,         \* the agent processes
  identityFile   \* identity.json of the two hosts

enrVars == <<regToken, nodeRow, attempt, registering, agent, identityFile>>

Agents == RemoteAgents \cup LocalAgents
Attempts == 1..MaxRegistrations
None == [node |-> 0, token |-> 0]
Identity == [node : 0..MaxRegistrations, token : 0..MaxRegistrations]
HostOf(a) == IF a \in LocalAgents THEN "local" ELSE "remote"
Handler == [n : Attempts, via : Tokens \cup {"local"}, pc : {"check", "write"}, existing : 0..MaxRegistrations]
AgentState == [pc : {"off", "boot", "waiting", "got", "running"}, n : 0..MaxRegistrations, identity : Identity]
Off == [pc |-> "off", n |-> 0, identity |-> None]

EnrInit ==
  /\ regToken = [t \in Tokens |-> "none"]
  /\ nodeRow = <<>> /\ attempt = 0 /\ registering = {}
  /\ agent = [a \in Agents |-> Off]
  /\ identityFile = [h \in {"local", "remote"} |-> None]

-----------------------------------------------------------------------------
(* Registration tokens.                                                    *)

CreateRegistrationToken(t) ==
  /\ regToken[t] = "none"
  /\ regToken' = [regToken EXCEPT ![t] = "unused"]
  /\ UNCHANGED <<nodeRow, attempt, registering, agent, identityFile>>

ExpireToken(t) ==
  /\ regToken[t] = "unused"
  /\ regToken' = [regToken EXCEPT ![t] = "expired"]
  /\ UNCHANGED <<nodeRow, attempt, registering, agent, identityFile>>

-----------------------------------------------------------------------------
(* The agent.                                                              *)

StartAgent(a) ==
  /\ agent[a].pc = "off"
  /\ agent' = [agent EXCEPT ![a].pc = "boot"]
  /\ UNCHANGED <<regToken, nodeRow, attempt, registering, identityFile>>

StopAgent(a) ==
  /\ agent[a].pc # "off"
  /\ agent' = [agent EXCEPT ![a] = Off]
  /\ UNCHANGED <<regToken, nodeRow, attempt, registering, identityFile>>

(* An identity file is believed for ever, and is what decides whether to   *)
(* register.                                                               *)
LoadIdentity(a) ==
  /\ agent[a].pc = "boot" /\ identityFile[HostOf(a)] # None
  /\ agent' = [agent EXCEPT ![a].pc = "running", ![a].identity = identityFile[HostOf(a)]]
  /\ UNCHANGED <<regToken, nodeRow, attempt, registering, identityFile>>

SendRegistration(a) ==
  /\ agent[a].pc = "boot" /\ identityFile[HostOf(a)] = None
  /\ attempt < MaxRegistrations
  /\ attempt' = attempt + 1
  /\ \E via \in (IF a \in LocalAgents THEN {"local"} ELSE {t \in Tokens : regToken[t] # "none"}) :
       registering' = registering \cup
         {[n |-> attempt', via |-> via, pc |-> "check", existing |-> 0]}
  /\ agent' = [agent EXCEPT ![a].pc = "waiting", ![a].n = attempt']
  /\ UNCHANGED <<regToken, nodeRow, identityFile>>

(* The request timeout, a lost answer or a refusal: the agent tries again. *)
GiveUp(a) ==
  /\ agent[a].pc = "waiting"
  /\ agent' = [agent EXCEPT ![a].pc = "boot", ![a].n = 0]
  /\ UNCHANGED <<regToken, nodeRow, attempt, registering, identityFile>>

WriteIdentity(a) ==
  /\ agent[a].pc = "got"
  /\ identityFile' = [identityFile EXCEPT ![HostOf(a)] = agent[a].identity]
  /\ agent' = [agent EXCEPT ![a].pc = "running"]
  /\ UNCHANGED <<regToken, nodeRow, attempt, registering>>

-----------------------------------------------------------------------------
(* The registration routes.                                                *)

AnswerRegistration(h, node) ==
  agent' = [a \in Agents |-> IF agent[a].pc = "waiting" /\ agent[a].n = h.n
              THEN [pc |-> "got", n |-> 0, identity |-> [node |-> node, token |-> h.n]]
              ELSE agent[a]]
Refuse(h) ==
  agent' = [a \in Agents |-> IF agent[a].pc = "waiting" /\ agent[a].n = h.n
              THEN [agent[a] EXCEPT !.pc = "boot", !.n = 0] ELSE agent[a]]

(* Reads the token, or the node the host already has.                      *)
CheckRegistration(h) ==
  /\ h.pc = "check"
  /\ IF h.via \in Tokens /\ regToken[h.via] # "unused"
       THEN registering' = registering \ {h} /\ Refuse(h)
       ELSE /\ \E existing \in (IF h.via = "local" /\ \E i \in DOMAIN nodeRow : nodeRow[i].via = "local"
                                  THEN {i \in DOMAIN nodeRow : nodeRow[i].via = "local"} ELSE {0}) :
                 registering' = (registering \ {h}) \cup {[h EXCEPT !.pc = "write", !.existing = existing]}
            /\ UNCHANGED agent
  /\ UNCHANGED <<regToken, nodeRow, attempt, identityFile>>

Upsert(id, row) ==
  nodeRow' = [i \in DOMAIN nodeRow \cup {id} |-> IF i = id THEN row ELSE nodeRow[i]]

(* Faulty variant of RegisterNode: the token was found unused, and is not  *)
(* asked again when it is consumed.                                        *)
RegisterNodeBlindly(h) ==
  /\ h.pc = "write" /\ h.via \in Tokens
  /\ regToken' = [regToken EXCEPT ![h.via] = "used"]
  /\ Upsert(h.n, [token |-> h.n, via |-> h.via])
  /\ AnswerRegistration(h, h.n)
  /\ registering' = registering \ {h}
  /\ UNCHANGED <<attempt, identityFile>>

(* The token is consumed and the node inserted in one transaction; a token *)
(* that expired after it was read is still consumed.                       *)
RegisterNode(h) ==
  /\ h.pc = "write" /\ h.via \in Tokens
  /\ IF regToken[h.via] = "used"
       THEN Refuse(h) /\ UNCHANGED <<regToken, nodeRow>>
       ELSE /\ regToken' = [regToken EXCEPT ![h.via] = "used"]
            /\ Upsert(h.n, [token |-> h.n, via |-> h.via])
            /\ AnswerRegistration(h, h.n)
  /\ registering' = registering \ {h}
  /\ UNCHANGED <<attempt, identityFile>>

(* The local node gets a new agent token with every registration.          *)
RegisterLocalNode(h) ==
  /\ h.pc = "write" /\ h.via = "local"
  /\ LET id == IF h.existing = 0 THEN h.n ELSE h.existing
     IN  Upsert(id, [token |-> h.n, via |-> "local"]) /\ AnswerRegistration(h, id)
  /\ registering' = registering \ {h}
  /\ UNCHANGED <<regToken, attempt, identityFile>>

RegistrationLost ==
  /\ registering # {} /\ registering' = {}
  /\ UNCHANGED <<regToken, nodeRow, attempt, agent, identityFile>>

EnrNext ==
  \/ \E t \in Tokens : CreateRegistrationToken(t) \/ ExpireToken(t)
  \/ \E a \in Agents : \/ StartAgent(a) \/ StopAgent(a) \/ LoadIdentity(a)
                       \/ SendRegistration(a) \/ GiveUp(a) \/ WriteIdentity(a)
  \/ \E h \in registering : CheckRegistration(h) \/ RegisterNode(h) \/ RegisterLocalNode(h)
  \/ RegistrationLost

-----------------------------------------------------------------------------
EnrTypeOK ==
  /\ regToken \in [Tokens -> {"none", "unused", "used", "expired"}]
  /\ DOMAIN nodeRow \subseteq Attempts
  /\ \A i \in DOMAIN nodeRow : nodeRow[i] \in [token : Attempts, via : Tokens \cup {"local"}]
  /\ attempt \in 0..MaxRegistrations /\ registering \subseteq Handler
  /\ agent \in [Agents -> AgentState]
  /\ identityFile \in [{"local", "remote"} -> Identity]

(* Whatever agents send, however often, and whenever they give up or die:  *)
(* a registration token yields one node, and an identity that a remote     *)
(* host has stored is one the API accepts ("It accepts only a single-use   *)
(* registration secret", nodes.routes.ts:267). A local identity is not     *)
(* that safe: a handler of an attempt given up earlier may still replace   *)
(* the agent token after the file was written.                             *)
Accepted(identity) ==
  identity.node \in DOMAIN nodeRow /\ nodeRow[identity.node].token = identity.token
EnrolledOnce ==
  /\ \A i, j \in DOMAIN nodeRow : nodeRow[i].via = nodeRow[j].via /\ nodeRow[i].via \in Tokens => i = j
  /\ identityFile["remote"] # None => Accepted(identityFile["remote"])
=============================================================================
