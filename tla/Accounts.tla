------------------------------- MODULE Accounts -------------------------------
(***************************************************************************)
(* The platform's accounts: the installation that creates the first        *)
(* administrator (features/setup/service.ts, setup.routes.ts), and what    *)
(* platform administrators do to accounts and organizations                *)
(* (analytics.routes.ts, admin-organizations.routes.ts, middleware/auth.ts *)
(* and features/auth/config.ts).                                           *)
(*                                                                         *)
(* The installation is a transaction that holds an advisory lock, but the  *)
(* calls to the authentication library inside it commit by themselves: the *)
(* transaction's own writes wait in its call until it commits.             *)
(*                                                                         *)
(* Simplifications: an account is known by its e-mail address, and has one *)
(* session and one organization at most; of the library's sign-in only the *)
(* test for a ban and the insert of the session are kept.                  *)
(***************************************************************************)
CONSTANTS
  Mails,         \* e-mail addresses
  Installers,    \* POST /install in progress at once
  NoMail

ASSUME AccountsAssumption == NoMail \notin Mails

VARIABLES
  accountRole,   \* role of every account, "absent" without one
  banned,
  mayFound,      \* canCreateOrganizations
  loginSession,  \* accounts that have a session
  signingIn,     \* accounts found not banned, whose session is not written yet
  founded,       \* organizations, by the account that created them
  installedBy,   \* the systemInstallation row: its administrator
  setupCall,     \* installations in progress
  banning,       \* PATCH users between its update and the end of the sessions
  promoted,      \* history: accounts that an administrator made administrator
  setupCut,      \* history: the API died in an installation
  banRaced       \* history: a ban met a sign-in

accVars == <<accountRole, banned, mayFound, loginSession, signingIn, founded, installedBy,
             setupCall, banning, promoted, setupCut, banRaced>>

AccTypeOK ==
  /\ accountRole \in [Mails -> {"absent", "none", "user", "admin"}]
  /\ banned \cup mayFound \cup loginSession \cup signingIn \cup founded \subseteq Mails
  /\ banning \cup promoted \subseteq Mails
  /\ installedBy \in Mails \cup {NoMail}
  /\ setupCall \in [Installers -> [mail : Mails \cup {NoMail},
       pc : {"idle", "lock", "signUp", "role", "organization", "insert", "commit", "undo"}]]
  /\ {setupCut, banRaced} \subseteq BOOLEAN

NoSetup == [pc |-> "idle", mail |-> NoMail]

AccInit ==
  /\ accountRole = [e \in Mails |-> "absent"]
  /\ banned = {} /\ mayFound = {} /\ loginSession = {} /\ signingIn = {} /\ founded = {}
  /\ installedBy = NoMail
  /\ setupCall = [c \in Installers |-> NoSetup]
  /\ banning = {} /\ promoted = {} /\ setupCut = FALSE /\ banRaced = FALSE

-----------------------------------------------------------------------------
(* installSystem                                                           *)

Administration == <<banned, mayFound, loginSession, signingIn, banning, promoted, banRaced>>
SetupGoes(c, pc) == setupCall' = [setupCall EXCEPT ![c].pc = pc]
SetupEnds(c) == setupCall' = [setupCall EXCEPT ![c] = NoSetup]
Locked == \E c \in Installers : setupCall[c].pc \notin {"idle", "lock"}

(* The setup token was right.                                              *)
PostInstall(c, e) ==
  /\ setupCall[c].pc = "idle"
  /\ setupCall' = [setupCall EXCEPT ![c] = [pc |-> "lock", mail |-> e]]
  /\ UNCHANGED <<accountRole, founded, installedBy, setupCut, Administration>>

(* The lock, and under it the look for an existing installation.           *)
TakeSetupLock(c) ==
  /\ setupCall[c].pc = "lock" /\ ~Locked
  /\ IF installedBy # NoMail THEN SetupEnds(c) ELSE SetupGoes(c, "signUp")
  /\ UNCHANGED <<accountRole, founded, installedBy, setupCut, Administration>>

(* signUpEmail refuses an address that has an account; it may also raise   *)
(* after the account was created, when the mail cannot be sent.            *)
SignUp(c) ==
  LET e == setupCall[c].mail IN
  /\ setupCall[c].pc = "signUp"
  /\ \/ /\ accountRole[e] = "absent"
        /\ accountRole' = [accountRole EXCEPT ![e] = "none"]
        /\ SetupGoes(c, "role") \/ SetupEnds(c)
     \/ SetupEnds(c) /\ UNCHANGED accountRole
  /\ UNCHANGED <<founded, installedBy, setupCut, Administration>>

MakeAdministrator(c) ==
  /\ setupCall[c].pc = "role"
  /\ \/ /\ accountRole' = [accountRole EXCEPT ![setupCall[c].mail] = "admin"]
        /\ SetupGoes(c, "organization")
     \/ SetupGoes(c, "undo") /\ UNCHANGED accountRole
  /\ UNCHANGED <<founded, installedBy, setupCut, Administration>>

CreateWorkspace(c) ==
  /\ setupCall[c].pc = "organization"
  /\ \/ founded' = founded \cup {setupCall[c].mail} /\ SetupGoes(c, "insert")
     \/ SetupGoes(c, "undo") /\ UNCHANGED founded
  /\ UNCHANGED <<accountRole, installedBy, setupCut, Administration>>

(* The savepoint with the insert, which refers to both.                    *)
InsertInstallation(c) ==
  LET e == setupCall[c].mail IN
  /\ setupCall[c].pc = "insert"
  /\ \/ accountRole[e] # "absent" /\ e \in founded /\ SetupGoes(c, "commit")
     \/ SetupGoes(c, "undo")
  /\ UNCHANGED <<accountRole, founded, installedBy, setupCut, Administration>>

CommitInstallation(c) ==
  /\ setupCall[c].pc = "commit"
  /\ installedBy' = setupCall[c].mail
  /\ SetupEnds(c)
  /\ UNCHANGED <<accountRole, founded, setupCut, Administration>>

(* An account goes with its sessions.                                      *)
RemoveAccount(e) ==
  /\ accountRole' = [accountRole EXCEPT ![e] = "absent"]
  /\ banned' = banned \ {e} /\ mayFound' = mayFound \ {e}
  /\ loginSession' = loginSession \ {e} /\ signingIn' = signingIn \ {e}
  /\ promoted' = promoted \ {e} /\ banning' = banning \ {e}

(* Faulty variant of UndoInstallation: only the organization is removed.   *)
UndoInstallationPartly(c) ==
  /\ setupCall[c].pc = "undo"
  /\ founded' = founded \ {setupCall[c].mail}
  /\ SetupEnds(c)
  /\ UNCHANGED <<accountRole, installedBy, setupCut, Administration>>

(* The catch clause and the commit of its deletes.                         *)
UndoInstallation(c) ==
  /\ setupCall[c].pc = "undo"
  /\ founded' = founded \ {setupCall[c].mail}
  /\ RemoveAccount(setupCall[c].mail)
  /\ SetupEnds(c)
  /\ UNCHANGED <<installedBy, setupCut, banRaced>>

(* The API dies: the transaction is rolled back and its lock released.     *)
SetupDies(c) ==
  /\ setupCall[c].pc # "idle"
  /\ SetupEnds(c)
  /\ setupCut' = TRUE
  /\ UNCHANGED <<accountRole, founded, installedBy, Administration>>

-----------------------------------------------------------------------------
(* Sessions, and the work of platform administrators                       *)

Setup == <<installedBy, setupCall, setupCut>>
AdminPresent(e) == e \in loginSession /\ accountRole[e] = "admin"

(* An account that company sign-on or an administrator created.            *)
AccountArrives(e) ==
  /\ accountRole[e] = "absent"
  /\ installedBy # NoMail
  /\ accountRole' = [accountRole EXCEPT ![e] = "user"]
  /\ UNCHANGED <<founded, Setup, Administration>>

BeginSignIn(e) ==
  /\ accountRole[e] # "absent" /\ e \notin banned /\ e \notin loginSession
  /\ signingIn' = signingIn \cup {e}
  /\ banRaced' = (banRaced \/ e \in banning)
  /\ UNCHANGED <<accountRole, banned, mayFound, loginSession, founded, banning, promoted, Setup>>

EndSignIn(e) ==
  /\ e \in signingIn
  /\ signingIn' = signingIn \ {e}
  /\ loginSession' = loginSession \cup {e}
  /\ UNCHANGED <<accountRole, banned, mayFound, founded, banning, promoted, banRaced, Setup>>

SignOut(e) ==
  /\ e \in loginSession
  /\ loginSession' = loginSession \ {e}
  /\ UNCHANGED <<accountRole, banned, mayFound, signingIn, founded, banning, promoted, banRaced, Setup>>

(* PATCH users: one update for what the request names ...                  *)
PatchRole(by, e, r) ==
  /\ AdminPresent(by) /\ accountRole[e] # "absent"
  /\ accountRole' = [accountRole EXCEPT ![e] = r]
  /\ promoted' = IF r = "admin" THEN promoted \cup {e} ELSE promoted
  /\ UNCHANGED <<banned, mayFound, loginSession, signingIn, founded, banning, banRaced, Setup>>

PatchFounding(by, e) ==
  /\ AdminPresent(by) /\ accountRole[e] # "absent"
  /\ mayFound' = IF e \in mayFound THEN mayFound \ {e} ELSE mayFound \cup {e}
  /\ UNCHANGED <<accountRole, banned, loginSession, signingIn, founded, banning, promoted, banRaced, Setup>>

PatchBan(by, e) ==
  /\ AdminPresent(by) /\ accountRole[e] # "absent" /\ e # by
  /\ banned' = banned \cup {e}
  /\ banning' = banning \cup {e}
  /\ banRaced' = (banRaced \/ e \in signingIn)
  /\ UNCHANGED <<accountRole, mayFound, loginSession, signingIn, founded, promoted, Setup>>

(* ... and after a ban the sessions are deleted, unless the API dies.      *)
EndSessions(e) ==
  /\ e \in banning
  /\ banning' = banning \ {e}
  /\ \/ loginSession' = loginSession \ {e} /\ UNCHANGED banRaced
     \/ banRaced' = TRUE /\ UNCHANGED loginSession
  /\ UNCHANGED <<accountRole, banned, mayFound, signingIn, founded, promoted, Setup>>

PatchUnban(by, e) ==
  /\ AdminPresent(by) /\ e \in banned
  /\ banned' = banned \ {e}
  /\ UNCHANGED <<accountRole, mayFound, loginSession, signingIn, founded, banning, promoted, banRaced, Setup>>

(* allowUserToCreateOrganization.                                          *)
FoundOrganization(e) ==
  /\ e \in loginSession /\ e \notin founded
  /\ accountRole[e] = "admin" \/ e \in mayFound
  /\ founded' = founded \cup {e}
  /\ UNCHANGED <<accountRole, Setup, Administration>>

(* The workspace of the installation is referred to, and stays; so is the  *)
(* one of an insert that is not committed yet: the delete waits for it.    *)
DeleteOrganization(by, e) ==
  /\ AdminPresent(by) /\ e \in founded /\ e # installedBy
  /\ \A c \in Installers : ~(setupCall[c].pc = "commit" /\ setupCall[c].mail = e)
  /\ founded' = founded \ {e}
  /\ UNCHANGED <<accountRole, Setup, Administration>>

AccNext ==
  \/ \E c \in Installers :
       \/ TakeSetupLock(c) \/ SignUp(c) \/ MakeAdministrator(c) \/ CreateWorkspace(c)
       \/ InsertInstallation(c) \/ CommitInstallation(c) \/ UndoInstallation(c) \/ SetupDies(c)
       \/ \E e \in Mails : PostInstall(c, e)
  \/ \E e \in Mails : \/ AccountArrives(e) \/ BeginSignIn(e) \/ EndSignIn(e) \/ SignOut(e)
                      \/ EndSessions(e) \/ FoundOrganization(e)
  \/ \E by, e \in Mails : \/ PatchFounding(by, e) \/ PatchBan(by, e) \/ PatchUnban(by, e)
                          \/ DeleteOrganization(by, e)
                          \/ \E r \in {"user", "admin"} : PatchRole(by, e, r)

-----------------------------------------------------------------------------
(* "Avoid leaving a usable bootstrap account behind if organization/setup  *)
(* persistence fails" (service.ts:98): unless the API dies in the middle,  *)
(* every administrator is the one of the installation, belongs to an       *)
(* installation in progress, or was appointed by an administrator, however *)
(* many installations are tried and fail.  A recorded installation has its *)
(* account and its workspace, and a banned user has no session once the    *)
(* ban is carried out, unless a sign-in was under way.                     *)
InstalledOnce ==
  /\ ~setupCut => \A e \in Mails : accountRole[e] = "admin" =>
       \/ e = installedBy \/ e \in promoted
       \/ \E c \in Installers : setupCall[c].mail = e /\ setupCall[c].pc \in {"organization", "insert", "commit", "undo"}
  /\ installedBy # NoMail => accountRole[installedBy] # "absent" /\ installedBy \in founded
  /\ ~banRaced => banned \cap loginSession \subseteq banning
=============================================================================
