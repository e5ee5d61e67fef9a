----------------------------- MODULE GameServerPage -----------------------------
(***************************************************************************)
(* The dashboard's page of game servers (app/(org)/[orgSlug]/game-servers/ *)
(* page.tsx): the cards with their buttons and the polling that keeps them *)
(* up to date, the access tab, and the file editor, whose operations are   *)
(* commands to a node agent that the page submits and then polls for.      *)
(*                                                                         *)
(* A text is known by where it was read: the server and the path.  What    *)
(* the user types leaves it a text of that file.                           *)
(*                                                                         *)
(* Simplifications: the console, the version catalogue and the notices,    *)
(* which only display and send what was entered, are left out; grants are  *)
(* known by how many changes were made to them; the agent may carry        *)
(* commands out in any order.                                              *)
(***************************************************************************)
EXTENDS Naturals

CONSTANTS
  Worlds,      \* game servers
  NoWorld,
  Paths,       \* files of a server
  NoPath,
  NoText,
  FileOps,     \* file operations that may be under way at once
  MaxGrants    \* bound: changes made to the grants of a server

ASSUME GameServerPageAssumption ==
  /\ Worlds # {} /\ NoWorld \notin Worlds /\ NoPath \notin Paths /\ NoText \notin Worlds \X Paths
  /\ MaxGrants \in Nat

VARIABLES
  worldStatus, \* of the servers in the database, "absent" without a row
  cards,       \* cached data of the servers query
  cardFetch,   \* fetch of it under way, with the answer
  creating,    \* create.mutate under way
  button,      \* action.mutate under way: start, stop or delete
  pendingDelete, \* the server that the dialog asks about
  estranged,   \* history: a status that the page had no reason to await, or a failure
  selected,    \* selectedServerId
  listing,     \* the server whose files are listed
  editor,      \* filePath and fileContent
  busy,        \* fileBusy
  fileOp,      \* runs of runFileCommand, with what the agent does for them
  world,       \* the files: the text that each holds
  crowded,     \* history: two file operations at the same time
  unread,      \* history: the read of a file failed
  grants,      \* of each server in the database
  grantCache,  \* cached data of the access query of each server
  grantFetch,  \* fetch of it under way, with the answer
  granting,    \* saveGrant and removeGrant under way
  strayed      \* history: left a server while its grants were being changed, or a failure

cardVars == <<worldStatus, cards, cardFetch, creating, button, pendingDelete, estranged>>
editVars == <<listing, editor, busy, fileOp, world, crowded, unread>>
grantVars == <<grants, grantCache, grantFetch, granting, strayed>>
gpVars == <<cardVars, selected, editVars, grantVars>>

Statuses == {"absent", "stopped", "provisioning", "running", "failed"}
Awaited == {"provisioning", "failed"}
Texts == (Worlds \X Paths) \cup {NoText}
GrantChanges == {"saveGrant", "removeGrant"}
Changing == \E c \in GrantChanges : granting[c].pc # "idle"

GpTypeOK ==
  /\ worldStatus \in [Worlds -> Statuses] /\ cards \in [Worlds -> Statuses]
  /\ cardFetch \in [pc : {"none", "sent", "answered"}, answer : [Worlds -> Statuses]]
  /\ creating \in [pc : {"idle", "sent", "done"}, server : Worlds]
  /\ button \in [pc : {"idle", "sent", "done"}, method : {"start", "stop", "delete"},
                 server : Worlds]
  /\ pendingDelete \in Worlds \cup {NoWorld}
  /\ selected \in Worlds \cup {NoWorld} /\ listing \in Worlds \cup {NoWorld}
  /\ editor \in [path : Paths \cup {NoPath}, text : Texts]
  /\ fileOp \in [FileOps -> [pc : {"idle", "waiting", "executed", "late"},
                             kind : {"list", "read", "write"}, server : Worlds,
                             path : Paths \cup {NoPath}, text : Texts]]
  /\ world \in [Worlds \X Paths -> Texts]
  /\ grants \in [Worlds -> 0..MaxGrants] /\ grantCache \in [Worlds -> 0..MaxGrants]
  /\ grantFetch \in [Worlds -> [pc : {"none", "sent", "answered"}, answer : 0..MaxGrants]]
  /\ granting \in [GrantChanges -> [pc : {"idle", "sent", "done"}, server : Worlds]]
  /\ {estranged, busy, crowded, unread, strayed} \subseteq BOOLEAN

AnyWorld == CHOOSE s \in Worlds : TRUE
NoCardFetch == [pc |-> "none", answer |-> [s \in Worlds |-> "absent"]]
NoMutation == [pc |-> "idle", server |-> AnyWorld]
NoButton == [pc |-> "idle", method |-> "start", server |-> AnyWorld]
NoGrantFetch == [pc |-> "none", answer |-> 0]
NoOp == [pc |-> "idle", kind |-> "list", server |-> AnyWorld, path |-> NoPath, text |-> NoText]
NoFile == [path |-> NoPath, text |-> NoText]

GpInit ==
  /\ worldStatus \in [Worlds -> {"absent", "stopped"}]
  /\ cards = worldStatus
  /\ cardFetch = NoCardFetch /\ creating = NoMutation /\ button = NoButton
  /\ pendingDelete = NoWorld /\ estranged = FALSE
  /\ selected = NoWorld /\ listing = NoWorld /\ editor = NoFile /\ busy = FALSE
  /\ fileOp = [o \in FileOps |-> NoOp]
  /\ world = [f \in Worlds \X Paths |-> f]
  /\ crowded = FALSE /\ unread = FALSE
  /\ grants = [s \in Worlds |-> 0] /\ grantCache = grants
  /\ grantFetch = [s \in Worlds |-> NoGrantFetch]
  /\ granting = [c \in GrantChanges |-> NoMutation] /\ strayed = FALSE

-----------------------------------------------------------------------------
(* Cards                                                                   *)

CreateServerForm(s) ==
  /\ creating.pc = "idle" /\ pendingDelete = NoWorld
  /\ cards[s] = "absent" /\ worldStatus[s] = "absent"
  /\ creating' = [pc |-> "sent", server |-> s]
  /\ UNCHANGED <<worldStatus, cards, cardFetch, button, pendingDelete, estranged, selected, editVars, grantVars>>

(* action.mutate: one at a time.                                           *)
Mutate(method, s) ==
  /\ button.pc = "idle"
  /\ button' = [pc |-> "sent", method |-> method, server |-> s]
  /\ UNCHANGED <<worldStatus, cards, cardFetch, creating, pendingDelete, estranged, selected, editVars, grantVars>>

Enabled(method, s) ==
  CASE method = "start" -> cards[s] \notin {"absent", "running"}
    [] method = "stop" -> cards[s] = "running"

TableButtons(s) ==
  \E method \in {"start", "stop"} :
    pendingDelete = NoWorld /\ Enabled(method, s) /\ Mutate(method, s)

(* The same buttons on a narrow screen.                                    *)
CardButtons(s) == TableButtons(s)

HeaderButtons == selected # NoWorld /\ TableButtons(selected)

DangerZone ==
  /\ selected # NoWorld /\ cards[selected] # "absent" /\ pendingDelete = NoWorld
  /\ pendingDelete' = selected
  /\ UNCHANGED <<worldStatus, cards, cardFetch, creating, button, estranged, selected, editVars, grantVars>>

DeleteDialog ==
  /\ pendingDelete # NoWorld
  /\ \/ Mutate("delete", pendingDelete)
     \/ /\ button.pc = "idle"
        /\ pendingDelete' = NoWorld
        /\ UNCHANGED <<worldStatus, cards, cardFetch, creating, button, estranged, selected, editVars, grantVars>>

(* The handlers, as far as a page sees them.                               *)
HandleCreate ==
  /\ creating.pc = "sent"
  /\ worldStatus' = [worldStatus EXCEPT ![creating.server] = "provisioning"]
  /\ creating' = [creating EXCEPT !.pc = "done"]
  /\ UNCHANGED <<cards, cardFetch, button, pendingDelete, estranged, selected, editVars, grantVars>>

Handle ==
  LET to == CASE button.method = "start" -> "provisioning"
              [] button.method = "stop" -> "stopped"
              [] OTHER -> "absent"
  IN  /\ button.pc = "sent" /\ worldStatus[button.server] # "absent"
      /\ worldStatus' = [worldStatus EXCEPT ![button.server] = to]
      /\ button' = [button EXCEPT !.pc = "done"]
      /\ UNCHANGED <<cards, cardFetch, creating, pendingDelete, estranged, selected, editVars, grantVars>>

(* refresh: it replaces a fetch under way.                                 *)
Refresh == cardFetch' = [NoCardFetch EXCEPT !.pc = "sent"]

Created ==
  /\ creating.pc = "done"
  /\ creating' = NoMutation /\ Refresh
  /\ UNCHANGED <<worldStatus, cards, button, pendingDelete, estranged, selected, editVars, grantVars>>

(* onSuccess of an action. The management of a deleted server is left.     *)
Closes ==
  LET deleted == button.method = "delete" IN
  /\ button' = NoButton
  /\ selected' = IF deleted /\ selected = button.server THEN NoWorld ELSE selected
  /\ strayed' = (strayed \/ (selected' # selected /\ Changing))
  /\ pendingDelete' = IF deleted THEN NoWorld ELSE pendingDelete

(* Faulty variant of Pressed: the list is not fetched again.               *)
PressedSilently ==
  /\ button.pc = "done" /\ Closes
  /\ UNCHANGED <<worldStatus, cards, cardFetch, creating, estranged, editVars, grants, grantCache, grantFetch, granting>>

Pressed ==
  /\ button.pc = "done" /\ Closes /\ Refresh
  /\ UNCHANGED <<worldStatus, cards, creating, estranged, editVars, grants, grantCache, grantFetch, granting>>

(* Refused, or the answer is lost: a message, nothing is fetched.          *)
PressFails ==
  /\ \/ button.pc # "idle" /\ button' = NoButton /\ UNCHANGED creating
     \/ creating.pc # "idle" /\ creating' = NoMutation /\ UNCHANGED button
  /\ estranged' = (estranged \/ button.pc = "done" \/ creating.pc = "done")
  /\ UNCHANGED <<worldStatus, cards, cardFetch, pendingDelete, selected, editVars, grantVars>>

Polling == \E s \in Worlds : cards[s] \in Awaited

(* refetchInterval, refetchOnWindowFocus or the refresh button.            *)
FetchCards ==
  /\ cardFetch.pc = "none"
  /\ cardFetch' = [cardFetch EXCEPT !.pc = "sent"]
  /\ UNCHANGED <<worldStatus, cards, creating, button, pendingDelete, estranged, selected, editVars, grantVars>>

AnswerCards ==
  /\ cardFetch.pc = "sent"
  /\ cardFetch' = [pc |-> "answered", answer |-> worldStatus]
  /\ UNCHANGED <<worldStatus, cards, creating, button, pendingDelete, estranged, selected, editVars, grantVars>>

ArriveCards ==
  /\ cardFetch.pc = "answered"
  /\ cards' = cardFetch.answer
  /\ cardFetch' = NoCardFetch
  /\ UNCHANGED <<worldStatus, creating, button, pendingDelete, estranged, selected, editVars, grantVars>>

(* With data that await something the interval fires again.                *)
CardsFail ==
  /\ cardFetch.pc # "none"
  /\ cardFetch' = NoCardFetch
  /\ estranged' = (estranged \/ ~Polling)
  /\ UNCHANGED <<worldStatus, cards, creating, button, pendingDelete, selected, editVars, grantVars>>

(* The agent's reports.                                                    *)
Report(s) ==
  /\ worldStatus[s] \in Awaited
  /\ \E to \in {"running", "failed"} \ {worldStatus[s]} : worldStatus' = [worldStatus EXCEPT ![s] = to]
  /\ UNCHANGED <<cards, cardFetch, creating, button, pendingDelete, estranged, selected, editVars, grantVars>>

(* A late report of a start, or another user.                              *)
StatusMoves(s) ==
  /\ worldStatus[s] = "stopped"
  /\ worldStatus' = [worldStatus EXCEPT ![s] = "running"]
  /\ estranged' = TRUE
  /\ UNCHANGED <<cards, cardFetch, creating, button, pendingDelete, selected, editVars, grantVars>>

-----------------------------------------------------------------------------
(* The file editor                                                         *)

(* Whether the access query of the server that is shown now is fetched     *)
(* depends on how old its data are.                                        *)
ShowGrants(s) ==
  /\ \/ grantFetch[s].pc = "none" /\ grantFetch' = [grantFetch EXCEPT ![s].pc = "sent"]
     \/ UNCHANGED grantFetch
  /\ strayed' = (strayed \/ Changing)
  /\ UNCHANGED <<grants, grantCache, granting>>

(* Faulty variant of openManagement: the file of the last server stays.    *)
openManagementKeeps(s) ==
  /\ cards[s] # "absent" /\ pendingDelete = NoWorld
  /\ selected' = s /\ listing' = NoWorld
  /\ ShowGrants(s)
  /\ UNCHANGED <<editor, busy, fileOp, world, crowded, unread, cardVars>>

openManagement(s) ==
  /\ cards[s] # "absent" /\ pendingDelete = NoWorld
  /\ selected' = s /\ listing' = NoWorld /\ editor' = NoFile
  /\ ShowGrants(s)
  /\ UNCHANGED <<busy, fileOp, world, crowded, unread, cardVars>>

CloseManagement ==
  /\ selected # NoWorld /\ pendingDelete = NoWorld
  /\ selected' = NoWorld
  /\ strayed' = (strayed \/ Changing)
  /\ UNCHANGED <<editVars, cardVars, grants, grantCache, grantFetch, granting>>

Managed == selected # NoWorld /\ cards[selected] # "absent" /\ pendingDelete = NoWorld

(* Submitted for the server that is selected at the click.                 *)
runFileCommand(o, kind, path, text) ==
  /\ Managed /\ fileOp[o].pc = "idle"
  /\ fileOp' = [fileOp EXCEPT ![o] = [pc |-> "waiting", kind |-> kind, server |-> selected,
                                      path |-> path, text |-> text]]
  /\ busy' = TRUE
  /\ crowded' = (crowded \/ \E other \in FileOps : fileOp[other].pc \in {"waiting", "executed"})
  /\ UNCHANGED <<selected, listing, world, unread, cardVars, grantVars>>

(* The button of the tab is enabled while an operation runs.               *)
loadFiles(o) == runFileCommand(o, "list", NoPath, NoText) /\ UNCHANGED editor

openFile(o, p) ==
  /\ listing # NoWorld /\ ~busy
  /\ editor' = [path |-> p, text |-> NoText]
  /\ runFileCommand(o, "read", p, NoText)

SaveFile(o) ==
  /\ editor.path # NoPath /\ ~busy
  /\ runFileCommand(o, "write", editor.path, editor.text)
  /\ UNCHANGED editor

Execute(o) ==
  LET op == fileOp[o] IN
  /\ op.pc \in {"waiting", "late"}
  /\ world' = IF op.kind = "write" THEN [world EXCEPT ![<<op.server, op.path>>] = op.text] ELSE world
  /\ fileOp' = [fileOp EXCEPT ![o] =
       IF op.pc = "late" THEN NoOp
       ELSE [op EXCEPT !.pc = "executed",
                       !.text = IF op.kind = "read" THEN world[<<op.server, op.path>>] ELSE NoText]]
  /\ UNCHANGED <<selected, listing, editor, busy, crowded, unread, cardVars, grantVars>>

(* A poll finds the command succeeded.  A saved file lists the folder.     *)
FileDone(o) ==
  LET op == fileOp[o] IN
  /\ op.pc = "executed"
  /\ listing' = IF op.kind = "list" THEN op.server ELSE listing
  /\ editor' = IF op.kind = "read" THEN [editor EXCEPT !.text = op.text] ELSE editor
  /\ busy' = (op.kind = "write")
  /\ fileOp' = [fileOp EXCEPT ![o] =
       IF op.kind = "write" THEN [NoOp EXCEPT !.pc = "waiting", !.server = op.server] ELSE NoOp]
  /\ UNCHANGED <<selected, world, crowded, unread, cardVars, grantVars>>

(* It failed, or 20 polls found it pending: it may be carried out later.   *)
FileFailed(o) ==
  LET op == fileOp[o] IN
  /\ op.pc \in {"waiting", "executed"}
  /\ fileOp' = [fileOp EXCEPT ![o] =
       IF op.kind = "write" /\ op.pc = "waiting" THEN [op EXCEPT !.pc = "late"] ELSE NoOp]
  /\ busy' = FALSE
  /\ unread' = (unread \/ op.kind = "read")
  /\ UNCHANGED <<selected, listing, editor, world, crowded, cardVars, grantVars>>

-----------------------------------------------------------------------------
(* The access tab                                                          *)

(* saveGrant and removeGrant, each of which waits for itself alone.        *)
ChangeGrants(c) ==
  /\ Managed /\ granting[c].pc = "idle"
  /\ granting' = [granting EXCEPT ![c] = [pc |-> "sent", server |-> selected]]
  /\ UNCHANGED <<cardVars, selected, editVars, grants, grantCache, grantFetch, strayed>>

StoreGrants(c) ==
  LET s == granting[c].server IN
  /\ granting[c].pc = "sent" /\ grants[s] < MaxGrants
  /\ grants' = [grants EXCEPT ![s] = @ + 1]
  /\ granting' = [granting EXCEPT ![c].pc = "done"]
  /\ UNCHANGED <<cardVars, selected, editVars, grantCache, grantFetch, strayed>>

(* Faulty variant of GrantsChanged: a fetch under way is thought to do.    *)
GrantsChangedJoins(c) ==
  /\ granting[c].pc = "done"
  /\ granting' = [granting EXCEPT ![c] = NoMutation]
  /\ grantFetch' = IF selected # NoWorld /\ grantFetch[selected].pc = "none"
                   THEN [grantFetch EXCEPT ![selected].pc = "sent"] ELSE grantFetch
  /\ UNCHANGED <<cardVars, selected, editVars, grants, grantCache, strayed>>

(* onSuccess: grants.refetch, of the server that is shown by now; it       *)
(* replaces a fetch under way.                                             *)
GrantsChanged(c) ==
  /\ granting[c].pc = "done"
  /\ granting' = [granting EXCEPT ![c] = NoMutation]
  /\ grantFetch' = IF selected # NoWorld
                   THEN [grantFetch EXCEPT ![selected] = [NoGrantFetch EXCEPT !.pc = "sent"]]
                   ELSE grantFetch
  /\ UNCHANGED <<cardVars, selected, editVars, grants, grantCache, strayed>>

GrantsFail(s) ==
  /\ \/ /\ \E c \in GrantChanges : /\ granting[c].pc # "idle" /\ granting[c].server = s
                                   /\ granting' = [granting EXCEPT ![c] = NoMutation]
        /\ UNCHANGED grantFetch
     \/ grantFetch[s].pc # "none" /\ grantFetch' = [grantFetch EXCEPT ![s] = NoGrantFetch]
                                  /\ UNCHANGED granting
  /\ strayed' = TRUE
  /\ UNCHANGED <<cardVars, selected, editVars, grants, grantCache>>

AnswerGrants(s) ==
  /\ grantFetch[s].pc = "sent"
  /\ grantFetch' = [grantFetch EXCEPT ![s] = [pc |-> "answered", answer |-> grants[s]]]
  /\ UNCHANGED <<cardVars, selected, editVars, grants, grantCache, granting, strayed>>

ArriveGrants(s) ==
  /\ grantFetch[s].pc = "answered"
  /\ grantCache' = [grantCache EXCEPT ![s] = grantFetch[s].answer]
  /\ grantFetch' = [grantFetch EXCEPT ![s] = NoGrantFetch]
  /\ UNCHANGED <<cardVars, selected, editVars, grants, granting, strayed>>

GpNext ==
  \/ \E s \in Worlds : \/ Report(s) \/ StatusMoves(s) \/ openManagement(s)
                       \/ CreateServerForm(s) \/ TableButtons(s) \/ CardButtons(s)
  \/ HeaderButtons \/ DangerZone \/ DeleteDialog \/ HandleCreate \/ Handle \/ Created \/ Pressed \/ PressFails \/ FetchCards \/ AnswerCards \/ ArriveCards \/ CardsFail
  \/ CloseManagement
  \/ \E c \in GrantChanges : ChangeGrants(c) \/ StoreGrants(c) \/ GrantsChanged(c)
  \/ \E s \in Worlds : GrantsFail(s) \/ AnswerGrants(s) \/ ArriveGrants(s)
  \/ \E o \in FileOps : \/ loadFiles(o) \/ SaveFile(o) \/ Execute(o) \/ FileDone(o) \/ FileFailed(o)
                        \/ \E p \in Paths : openFile(o, p)

-----------------------------------------------------------------------------
(* "Agent work is asynchronous. Keep the card state in sync" (page.tsx:    *)
(* 107): when nothing is under way, the cards show the statuses of the     *)
(* database or the page goes on polling, whatever the order of clicks,     *)
(* reports and answers.  A file never gets the text of another file or of  *)
(* another server, however the user moves between servers while operations *)
(* run, fail or are carried out late, as long as no two operations run at  *)
(* once and no read failed.  And the grants that the page keeps are the    *)
(* stored ones once nothing is under way, provided that the user stayed on *)
(* the server while they were changed.                                     *)
GameServerPageSound ==
  /\ ~estranged /\ creating.pc = "idle" /\ button.pc = "idle" /\ cardFetch.pc = "none" =>
       cards = worldStatus \/ Polling
  /\ ~crowded /\ ~unread => \A f \in Worlds \X Paths : world[f] = f
  /\ ~strayed /\ ~Changing =>
       \A s \in Worlds : grantFetch[s].pc = "none" => grantCache[s] = grants[s]
=============================================================================
