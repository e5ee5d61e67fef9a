----------------------------- MODULE DashboardTls -----------------------------
(***************************************************************************)
(* The certificate of the dashboard: the page that uploads one             *)
(* (admin/settings/certificates/page.tsx), the handler that installs it    *)
(* (dashboard-tls.routes.ts, dashboard-certificates.ts) and Traefik, which *)
(* serves it.                                                              *)
(*                                                                         *)
(* An installation renames three files into place, one after the other:    *)
(* the certificate, its key and the dynamic configuration that names both. *)
(* Traefik watches the directory of the configuration only, and reads the  *)
(* two others when the configuration changes (deploy/traefik/traefik.yml). *)
(*                                                                         *)
(* Simplifications: a certificate and a key are the pair they belong to; a *)
(* certificate that cannot be parsed or is not valid now counts as one     *)
(* whose key does not match; Traefik is external.                          *)
(***************************************************************************)

CONSTANTS
  Pairs,       \* certificates with their keys
  Tabs,        \* open certificate pages
  NoPair       \* no file, no certificate

ASSUME DashboardTlsAssumption == NoPair \notin Pairs

VARIABLES
  crt, key,    \* dashboard.crt and dashboard.key
  config,      \* dashboard-certificate.json exists
  served,      \* what Traefik serves for the dashboard
  reload,      \* Traefik's reading of the files
  chosen,      \* per page: the two files selected
  upload,      \* per page: the mutation and its handler
  certStatus,  \* per page: the status shown
  fetching,    \* per page: the status query
  latest,      \* history: the page whose installation ended last
  mishap       \* history: installations overlapped, or one did not end

tlsVars == <<crt, key, config, served, reload, chosen, upload, certStatus, fetching, latest, mishap>>

File == Pairs \cup {NoPair}
Handling == {"certificate", "key", "config"}

TlsTypeOK ==
  /\ {crt, key, served} \subseteq File
  /\ config \in BOOLEAN
  /\ reload \in [pc : {"idle", "changed", "key"}, crt : File]
  /\ chosen \in [Tabs -> [crt : File, key : File]]
  /\ \A t \in Tabs : /\ upload[t].pc \in {"idle", "sent", "installed", "rejected"} \cup Handling
                     /\ {upload[t].crt, upload[t].key} \subseteq File
  /\ certStatus \in [Tabs -> File]
  /\ fetching \in [Tabs -> [pc : {"none", "sent", "answered"}, answer : File]]
  /\ latest \subseteq Tabs
  /\ mishap \in BOOLEAN

NoFiles == [crt |-> NoPair, key |-> NoPair]
NoUpload == [pc |-> "idle", crt |-> NoPair, key |-> NoPair]
NoQuery == [pc |-> "none", answer |-> NoPair]

TlsInit ==
  /\ crt = NoPair /\ key = NoPair /\ config = FALSE /\ served = NoPair
  /\ reload = [pc |-> "idle", crt |-> NoPair]
  /\ chosen = [t \in Tabs |-> NoFiles]
  /\ upload = [t \in Tabs |-> NoUpload]
  /\ certStatus = [t \in Tabs |-> NoPair]
  /\ fetching = [t \in Tabs |-> NoQuery]
  /\ latest = {}
  /\ mishap = FALSE

UploadMoves(t, pc) == upload' = [upload EXCEPT ![t].pc = pc]

-----------------------------------------------------------------------------
(* The page                                                                *)

ChooseFile(t) ==
  /\ \E p \in Pairs : chosen' \in {[chosen EXCEPT ![t].crt = p], [chosen EXCEPT ![t].key = p]}
  /\ UNCHANGED <<crt, key, config, served, reload, upload, certStatus, fetching, latest, mishap>>

(* The button is disabled while an upload is pending or a file is missing. *)
ClickInstall(t) ==
  /\ upload[t].pc = "idle"
  /\ chosen[t].crt # NoPair /\ chosen[t].key # NoPair
  /\ upload' = [upload EXCEPT ![t] = [pc |-> "sent", crt |-> chosen[t].crt, key |-> chosen[t].key]]
  /\ UNCHANGED <<crt, key, config, served, reload, chosen, certStatus, fetching, latest, mishap>>

UploadDone(t) ==
  /\ upload[t].pc = "installed"
  /\ chosen' = [chosen EXCEPT ![t] = NoFiles]
  /\ upload' = [upload EXCEPT ![t] = NoUpload]
  /\ fetching' = [fetching EXCEPT ![t] = [NoQuery EXCEPT !.pc = "sent"]]
  /\ UNCHANGED <<crt, key, config, served, reload, certStatus, latest, mishap>>

(* onError: the files stay selected and the status is not read again.      *)
UploadRefused(t) ==
  /\ upload[t].pc = "rejected"
  /\ upload' = [upload EXCEPT ![t] = NoUpload]
  /\ UNCHANGED <<crt, key, config, served, reload, chosen, certStatus, fetching, latest, mishap>>

(* The query is mounted, or the window gets the focus.                     *)
FetchStatus(t) ==
  /\ fetching[t].pc = "none"
  /\ fetching' = [fetching EXCEPT ![t].pc = "sent"]
  /\ UNCHANGED <<crt, key, config, served, reload, chosen, upload, certStatus, latest, mishap>>

(* getStatus parses the certificate and only looks whether a key exists.   *)
getStatus(t) ==
  /\ fetching[t].pc = "sent"
  /\ fetching' = [fetching EXCEPT ![t] =
       [pc |-> "answered", answer |-> IF key = NoPair THEN NoPair ELSE crt]]
  /\ UNCHANGED <<crt, key, config, served, reload, chosen, upload, certStatus, latest, mishap>>

ShowStatus(t) ==
  /\ fetching[t].pc = "answered"
  /\ certStatus' = [certStatus EXCEPT ![t] = fetching[t].answer]
  /\ fetching' = [fetching EXCEPT ![t] = NoQuery]
  /\ UNCHANGED <<crt, key, config, served, reload, chosen, upload, latest, mishap>>

-----------------------------------------------------------------------------
(* The handler                                                             *)

Installing == {t \in Tabs : upload[t].pc \in Handling}

validateCertificatePair(t) == upload[t].crt = upload[t].key

BeginInstall(t) ==
  /\ upload[t].pc = "sent"
  /\ validateCertificatePair(t)
  /\ UploadMoves(t, "certificate")
  /\ mishap' = (mishap \/ Installing # {})
  /\ UNCHANGED <<crt, key, config, served, reload, chosen, certStatus, fetching, latest>>

RefuseInstall(t) ==
  /\ upload[t].pc = "sent"
  /\ ~validateCertificatePair(t)
  /\ UploadMoves(t, "rejected")
  /\ UNCHANGED <<crt, key, config, served, reload, chosen, certStatus, fetching, latest, mishap>>

WriteCertificate(t) ==
  /\ upload[t].pc = "certificate"
  /\ crt' = upload[t].crt
  /\ UploadMoves(t, "key")
  /\ UNCHANGED <<key, config, served, reload, chosen, certStatus, fetching, latest, mishap>>

WriteKey(t) ==
  /\ upload[t].pc = "key"
  /\ key' = upload[t].key
  /\ UploadMoves(t, "config")
  /\ UNCHANGED <<crt, config, served, reload, chosen, certStatus, fetching, latest, mishap>>

(* The rename is what Traefik sees, whatever it was reading then.          *)
WriteConfig(t) ==
  /\ upload[t].pc = "config"
  /\ config' = TRUE
  /\ reload' = [pc |-> "changed", crt |-> NoPair]
  /\ UploadMoves(t, "installed")
  /\ latest' = {t}
  /\ UNCHANGED <<crt, key, served, chosen, certStatus, fetching, mishap>>

(* A file cannot be written: the answer says that the pair is invalid,     *)
(* also when the certificate has been replaced already.                    *)
WriteFails(t) ==
  /\ upload[t].pc \in Handling
  /\ UploadMoves(t, "rejected")
  /\ mishap' = TRUE
  /\ UNCHANGED <<crt, key, config, served, reload, chosen, certStatus, fetching, latest>>

(* The API process dies between two renames: the requests fail.            *)
TlsApiDies ==
  /\ Installing # {}
  /\ upload' = [t \in Tabs |-> IF t \in Installing THEN [upload[t] EXCEPT !.pc = "rejected"] ELSE upload[t]]
  /\ mishap' = TRUE
  /\ UNCHANGED <<crt, key, config, served, reload, chosen, certStatus, fetching, latest>>

-----------------------------------------------------------------------------
(* Traefik                                                                 *)

ReadCertificate ==
  /\ reload.pc = "changed"
  /\ reload' = [pc |-> "key", crt |-> crt]
  /\ UNCHANGED <<crt, key, config, served, chosen, upload, certStatus, fetching, latest, mishap>>

(* A pair that does not match is skipped: the default certificate is left. *)
ReadKey ==
  /\ reload.pc = "key"
  /\ served' = IF key = reload.crt THEN key ELSE NoPair
  /\ reload' = [pc |-> "idle", crt |-> NoPair]
  /\ UNCHANGED <<crt, key, config, chosen, upload, certStatus, fetching, latest, mishap>>

TraefikRestarts ==
  /\ config
  /\ served' = NoPair
  /\ reload' = [pc |-> "changed", crt |-> NoPair]
  /\ UNCHANGED <<crt, key, config, chosen, upload, certStatus, fetching, latest, mishap>>

TlsNext ==
  \/ \E t \in Tabs :
       \/ ChooseFile(t) \/ ClickInstall(t) \/ UploadDone(t) \/ UploadRefused(t)
       \/ FetchStatus(t) \/ getStatus(t) \/ ShowStatus(t)
       \/ BeginInstall(t) \/ RefuseInstall(t)
       \/ WriteCertificate(t) \/ WriteKey(t) \/ WriteConfig(t) \/ WriteFails(t)
  \/ TlsApiDies \/ ReadCertificate \/ ReadKey \/ TraefikRestarts

-----------------------------------------------------------------------------
(* Unless two installations overlapped or one did not end, whatever        *)
(* Traefik was reading while the files changed: once nobody installs and   *)
(* Traefik has read the configuration, the files are a pair that Traefik   *)
(* serves, and the page of the last installation shows it when its query   *)
(* has been answered (install, dashboard-certificates.ts:66).              *)
CertificateServed ==
  (~mishap /\ Installing = {} /\ reload.pc = "idle") =>
    /\ crt = key /\ served = crt
    /\ \A t \in latest : upload[t].pc = "idle" /\ fetching[t].pc = "none" => certStatus[t] = served
=============================================================================
