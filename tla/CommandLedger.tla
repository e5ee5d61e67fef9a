---------------------------- MODULE CommandLedger ----------------------------
(***************************************************************************)
(* What the table of agent commands promises to the rest of the control    *)
(* plane, whatever agents, networks and restarts do: a command is issued   *)
(* once, is leased to the agent before it can succeed, and receives        *)
(* exactly one verdict, which is final.                                    *)
(***************************************************************************)
CONSTANT Commands

VARIABLE status

Open == {"pending", "delivered"}
Verdicts == {"succeeded", "failed"}

TypeOK == status \in [Commands -> {"none"} \cup Open \cup Verdicts]

Init == status = [c \in Commands |-> "none"]

(* All of S moves from one status to another in one database statement.    *)
Move(S, from, to) ==
  /\ \A c \in S : status[c] = from
  /\ status' = [c \in Commands |-> IF c \in S THEN to ELSE status[c]]

(* One transaction inserts the commands of S.                              *)
Issue(S) == Move(S, "none", "pending")

(* One poll of the agent leases the commands of S.                         *)
Lease(S) == Move(S, "pending", "delivered")

(* The agent's report decides a leased command.                            *)
Decide(c, verdict) == Move({c}, "delivered", verdict)

(* The deadline decides a command nobody reported on.                      *)
Expire(c) ==
  /\ status[c] \in Open
  /\ status' = [status EXCEPT ![c] = "failed"]

Next ==
  \/ \E S \in SUBSET Commands : Issue(S) \/ Lease(S)
  \/ \E c \in Commands : Expire(c) \/ (\E v \in Verdicts : Decide(c, v))

Spec == Init /\ [][Next]_status

(* Every issued command is eventually decided.                             *)
FairSpec == Spec /\ \A c \in Commands : WF_status(Expire(c))
=============================================================================
