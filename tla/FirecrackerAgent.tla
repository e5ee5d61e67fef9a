--------------------------- MODULE FirecrackerAgent ---------------------------
(***************************************************************************)
(* The host agent that starts Firecracker machines for deploy steps        *)
(* (apps/builder/src/agent.ts).  Its memory of deployments is a directory  *)
(* of state files, one per deployment, and a Traefik file per instance     *)
(* name.  A deployment is cleaned up by the watcher of its machine and by  *)
(* DELETE, and the two may meet.                                           *)
(***************************************************************************)
CONSTANTS
  Vms,          \* deployments
  VmNames,      \* instance names
  NameOf,       \* the name of each deployment
  GuestIps,     \* the pool of addresses
  NoIp, NoVm

ASSUME FirecrackerAssumption ==
  NameOf \in [Vms -> VmNames] /\ NoIp \notin GuestIps /\ NoVm \notin Vms

VARIABLES
  vmFile,       \* state files: the address in each
  vmPid,        \* state files that hold the process of a machine
  vmRoute,      \* route files: the deployment in the header of each
  vmRunning,    \* machines that run
  vmWatched,    \* machines whose exit the agent awaits
  vmCall,       \* deploy, in progress
  vmTaken,      \* addresses that the allocation in progress has read
  vmCleaner,    \* cleanupDeployment in progress, of the watcher and of DELETE
  vmDisturbed   \* history: a restart of the agent, or DELETE before deploy ended

fcVars == <<vmFile, vmPid, vmRoute, vmRunning, vmWatched, vmCall, vmTaken, vmCleaner, vmDisturbed>>

Cleaners == {"watcher", "delete"}

FcTypeOK ==
  /\ vmFile \in [Vms -> GuestIps \cup {NoIp}]
  /\ vmPid \cup vmRunning \cup vmWatched \subseteq Vms
  /\ vmRoute \in [VmNames -> Vms \cup {NoVm}]
  /\ vmCall \in [Vms -> [pc : {"none", "reserve", "write", "pull", "record",
                               "route", "undo", "ended"},
                         ip : GuestIps \cup {NoIp}]]
  /\ vmTaken \subseteq GuestIps
  /\ vmCleaner \in [Vms -> [Cleaners -> {"none", "files", "state", "unlink", "route", "remove", "ended"}]]
  /\ vmDisturbed \in BOOLEAN

FcInit ==
  /\ vmFile = [d \in Vms |-> NoIp]
  /\ vmPid = {} /\ vmRunning = {} /\ vmWatched = {}
  /\ vmRoute = [n \in VmNames |-> NoVm]
  /\ vmCall = [d \in Vms |-> [pc |-> "none", ip |-> NoIp]]
  /\ vmTaken = {}
  /\ vmCleaner = [d \in Vms |-> [c \in Cleaners |-> "none"]]
  /\ vmDisturbed = FALSE

CallGoes(d, pc) == vmCall' = [vmCall EXCEPT ![d].pc = pc]
Forget(d) == vmFile' = [vmFile EXCEPT ![d] = NoIp] /\ vmPid' = vmPid \ {d}

-----------------------------------------------------------------------------
(* deploy                                                                  *)

PostDeployment(d) ==
  /\ vmCall[d].pc = "none"
  /\ CallGoes(d, "reserve")
  /\ UNCHANGED <<vmFile, vmPid, vmRoute, vmRunning, vmWatched, vmTaken, vmCleaner, vmDisturbed>>

Allocating == \E d \in Vms : vmCall[d].pc = "write"

(* Faulty variant of ReadUsed: nobody waits for the previous allocation.   *)
ReadUsedAtOnce(d) ==
  /\ vmCall[d].pc = "reserve"
  /\ vmTaken' = {vmFile[e] : e \in Vms} \ {NoIp}
  /\ \E ip \in GuestIps \ vmTaken' :
       vmCall' = [vmCall EXCEPT ![d] = [pc |-> "write", ip |-> ip]]
  /\ UNCHANGED <<vmFile, vmPid, vmRoute, vmRunning, vmWatched, vmCleaner, vmDisturbed>>

(* reserveGuestIp reads the state files; allocationTail has it wait for    *)
(* the allocation before it.  The first free address is as good as any.    *)
ReadUsed(d) ==
  /\ vmCall[d].pc = "reserve"
  /\ ~Allocating
  /\ vmTaken' = {vmFile[e] : e \in Vms} \ {NoIp}
  /\ \E ip \in GuestIps \ vmTaken' :
       vmCall' = [vmCall EXCEPT ![d] = [pc |-> "write", ip |-> ip]]
  /\ UNCHANGED <<vmFile, vmPid, vmRoute, vmRunning, vmWatched, vmCleaner, vmDisturbed>>

PoolExhausted(d) ==
  /\ vmCall[d].pc = "reserve"
  /\ ~Allocating
  /\ GuestIps \subseteq {vmFile[e] : e \in Vms}
  /\ CallGoes(d, "ended")
  /\ UNCHANGED <<vmFile, vmPid, vmRoute, vmRunning, vmWatched, vmTaken, vmCleaner, vmDisturbed>>

(* The first writeDeploymentState, without a process.                      *)
ReserveIp(d) ==
  /\ vmCall[d].pc = "write"
  /\ vmFile' = [vmFile EXCEPT ![d] = vmCall[d].ip]
  /\ vmTaken' = {}
  /\ CallGoes(d, "pull")
  /\ UNCHANGED <<vmPid, vmRoute, vmRunning, vmWatched, vmCleaner, vmDisturbed>>

(* The image is pulled, unpacked and made a root file system, and          *)
(* startFirecracker starts the machine.                                    *)
StartMachine(d) ==
  /\ vmCall[d].pc = "pull"
  /\ vmRunning' = vmRunning \cup {d}
  /\ CallGoes(d, "record")
  /\ UNCHANGED <<vmFile, vmPid, vmRoute, vmWatched, vmTaken, vmCleaner, vmDisturbed>>

(* writeDeploymentState again, with the process.                           *)
RecordMachine(d) ==
  /\ vmCall[d].pc = "record"
  /\ vmFile' = [vmFile EXCEPT ![d] = vmCall[d].ip]
  /\ vmPid' = vmPid \cup {d}
  /\ CallGoes(d, "route")
  /\ UNCHANGED <<vmRoute, vmRunning, vmWatched, vmTaken, vmCleaner, vmDisturbed>>

(* writeTraefikRoute, and from then on the exit of the machine is awaited. *)
WriteRoute(d) ==
  /\ vmCall[d].pc = "route"
  /\ vmRoute' = [vmRoute EXCEPT ![NameOf[d]] = d]
  /\ vmWatched' = vmWatched \cup {d}
  /\ CallGoes(d, "ended")
  /\ UNCHANGED <<vmFile, vmPid, vmRunning, vmTaken, vmCleaner, vmDisturbed>>

(* Any of it raises.  A machine that startFirecracker had returned is not  *)
(* killed.                                                                 *)
DeployRaises(d) ==
  /\ vmCall[d].pc \in {"pull", "record", "route"}
  /\ CallGoes(d, "undo")
  /\ UNCHANGED <<vmFile, vmPid, vmRoute, vmRunning, vmWatched, vmTaken, vmCleaner, vmDisturbed>>

(* The catch clause: cleanup, and the state file is removed.               *)
UndoDeploy(d) ==
  /\ vmCall[d].pc = "undo"
  /\ Forget(d)
  /\ CallGoes(d, "ended")
  /\ UNCHANGED <<vmRoute, vmRunning, vmWatched, vmTaken, vmCleaner, vmDisturbed>>

-----------------------------------------------------------------------------
(* The end of a machine                                                    *)

CleanerGoes(d, c, pc) == vmCleaner' = [vmCleaner EXCEPT ![d][c] = pc]

MachineExits(d) ==
  /\ d \in vmRunning
  /\ vmRunning' = vmRunning \ {d}
  /\ UNCHANGED <<vmFile, vmPid, vmRoute, vmWatched, vmCall, vmTaken, vmCleaner, vmDisturbed>>

(* child.exited starts a clean-up ...                                      *)
ExitNoticed(d) ==
  /\ d \in vmWatched \ vmRunning
  /\ vmWatched' = vmWatched \ {d}
  /\ CleanerGoes(d, "watcher", "files")
  /\ UNCHANGED <<vmFile, vmPid, vmRoute, vmRunning, vmCall, vmTaken, vmDisturbed>>

(* ... and DELETE another one, 250 ms after it has sent a signal to the    *)
(* process in the file, if there is one.                                   *)
DeleteDeployment(d) ==
  /\ vmFile[d] # NoIp
  /\ vmCleaner[d]["delete"] = "none"
  /\ CleanerGoes(d, "delete", "files")
  /\ vmRunning' \in {vmRunning, vmRunning \ (vmPid \cap {d})}
  /\ vmDisturbed' = (vmDisturbed \/ vmCall[d].pc # "ended")
  /\ UNCHANGED <<vmFile, vmPid, vmRoute, vmWatched, vmCall, vmTaken>>

(* cleanup, which also removes the machine's disk and network device.      *)
CleanFiles(d, c) ==
  /\ vmCleaner[d][c] = "files"
  /\ CleanerGoes(d, c, "state")
  /\ UNCHANGED <<vmFile, vmPid, vmRoute, vmRunning, vmWatched, vmCall, vmTaken, vmDisturbed>>

(* cleanupDeployment goes on only if the state file is there.              *)
ReadState(d, c) ==
  /\ vmCleaner[d][c] = "state"
  /\ CleanerGoes(d, c, IF vmFile[d] # NoIp THEN "unlink" ELSE "ended")
  /\ UNCHANGED <<vmFile, vmPid, vmRoute, vmRunning, vmWatched, vmCall, vmTaken, vmDisturbed>>

RemoveState(d, c) ==
  /\ vmCleaner[d][c] = "unlink"
  /\ Forget(d)
  /\ CleanerGoes(d, c, "route")
  /\ UNCHANGED <<vmRoute, vmRunning, vmWatched, vmCall, vmTaken, vmDisturbed>>

(* The route file is read, and removed if it is this deployment's.         *)
ReadRoute(d, c) ==
  /\ vmCleaner[d][c] = "route"
  /\ CleanerGoes(d, c, IF vmRoute[NameOf[d]] = d THEN "remove" ELSE "ended")
  /\ UNCHANGED <<vmFile, vmPid, vmRoute, vmRunning, vmWatched, vmCall, vmTaken, vmDisturbed>>

(* By now the file may be another deployment's.                            *)
RemoveRoute(d, c) ==
  /\ vmCleaner[d][c] = "remove"
  /\ vmRoute' = [vmRoute EXCEPT ![NameOf[d]] = NoVm]
  /\ CleanerGoes(d, c, "ended")
  /\ UNCHANGED <<vmFile, vmPid, vmRunning, vmWatched, vmCall, vmTaken, vmDisturbed>>

(* The agent starts anew: files and machines stay, nobody watches.         *)
RestartAgent ==
  /\ ~vmDisturbed
  /\ vmDisturbed' = TRUE
  /\ vmWatched' = {} /\ vmTaken' = {}
  /\ vmCall' = [d \in Vms |-> IF vmCall[d].pc = "none" THEN vmCall[d]
                              ELSE [vmCall[d] EXCEPT !.pc = "ended"]]
  /\ vmCleaner' = [d \in Vms |-> [c \in Cleaners |->
                     IF vmCleaner[d][c] = "none" THEN "none" ELSE "ended"]]
  /\ UNCHANGED <<vmFile, vmPid, vmRoute, vmRunning>>

FcNext ==
  \/ \E d \in Vms :
       \/ PostDeployment(d) \/ ReadUsed(d) \/ PoolExhausted(d) \/ ReserveIp(d) \/ StartMachine(d)
       \/ RecordMachine(d) \/ WriteRoute(d) \/ DeployRaises(d) \/ UndoDeploy(d)
       \/ MachineExits(d) \/ ExitNoticed(d) \/ DeleteDeployment(d)
       \/ \E c \in Cleaners :
            CleanFiles(d, c) \/ ReadState(d, c) \/ RemoveState(d, c) \/ ReadRoute(d, c) \/ RemoveRoute(d, c)
  \/ RestartAgent

-----------------------------------------------------------------------------
Cleaning(d) == \E c \in Cleaners : vmCleaner[d][c] \notin {"none", "ended"}

(* While nobody deletes a deployment in the making and the agent is not    *)
(* restarted: two deployments never have one address, however their        *)
(* allocations, failures and clean-ups interleave, and a route leads to a  *)
(* deployment that is on file, or is being cleaned up.                     *)
AddressesApart ==
  ~vmDisturbed =>
    /\ \A d, e \in Vms : d # e /\ vmFile[d] # NoIp => vmFile[d] # vmFile[e]
    /\ \A n \in VmNames : vmRoute[n] # NoVm => vmFile[vmRoute[n]] # NoIp \/ Cleaning(vmRoute[n])
=============================================================================
