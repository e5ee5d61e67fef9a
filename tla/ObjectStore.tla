------------------------------ MODULE ObjectStore ------------------------------
(***************************************************************************)
(* The client of the object storage (packages/s3/src/blob-client.ts):      *)
(* uploads provision the bucket of a tenant on demand, remember for a      *)
(* minute that it exists, and share one check between callers.  The health *)
(* probe (apps/api/src/routes/health.routes.ts) provisions a bucket of its *)
(* own and then asks the storage itself.                                   *)
(*                                                                         *)
(* Simplifications: objects, their names and types are left out, as are    *)
(* reads, which change nothing; any request may fail, with or without      *)
(* effect; other API workers create buckets and an administrator removes   *)
(* them at any time.                                                       *)
(***************************************************************************)
EXTENDS Naturals, FiniteSets

CONSTANTS
  Buckets,       \* buckets of tenants
  HealthBucket,  \* "devion-health-check"
  BlobCalls,     \* calls that may be under way at once
  Nobody

ASSUME ObjectStoreAssumption ==
  HealthBucket \notin Buckets /\ Nobody \notin BlobCalls

VARIABLES
  bucketUp,      \* the buckets that exist
  knownBuckets,  \* entries that have not expired
  pendingChecks, \* of each bucket: the call that checks it
  blobCall,      \* the calls
  removed,       \* history: buckets that were removed
  missed,        \* history: buckets missed by an upload since they were removed
  missedAgain    \* history: missed by an upload that began alone after that

osVars == <<bucketUp, knownBuckets, pendingChecks, blobCall, removed, missed, missedAgain>>

AllBuckets == Buckets \cup {HealthBucket}
Checking == {"head", "create", "rehead", "checked"}
NoBlobCall == [pc |-> "idle", bucket |-> HealthBucket, after |-> FALSE]

OsTypeOK ==
  /\ {bucketUp, knownBuckets, removed, missed} \subseteq SUBSET AllBuckets
  /\ pendingChecks \in [AllBuckets -> BlobCalls \cup {Nobody}]
  /\ blobCall \in [BlobCalls -> [pc : Checking \cup {"idle", "waiting", "provisioned"},
                                 bucket : AllBuckets, after : BOOLEAN]]
  /\ missedAgain \in BOOLEAN

OsInit ==
  /\ bucketUp = {} /\ knownBuckets = {} /\ removed = {} /\ missed = {}
  /\ pendingChecks = [b \in AllBuckets |-> Nobody]
  /\ blobCall = [c \in BlobCalls |-> NoBlobCall]
  /\ missedAgain = FALSE

-----------------------------------------------------------------------------
BlobBusy(b) == \E c \in BlobCalls : blobCall[c].pc # "idle" /\ blobCall[c].bucket = b

(* The start of upload and of the probe: ensureBucketExists.               *)
ensureBucketExists(c, b) ==
  /\ blobCall[c].pc = "idle"
  /\ LET start(pc) == blobCall' = [blobCall EXCEPT ![c] =
                        [pc |-> pc, bucket |-> b, after |-> b \in missed /\ ~BlobBusy(b)]]
     IN  \/ b \in knownBuckets /\ start("provisioned") /\ UNCHANGED pendingChecks
         \/ /\ b \notin knownBuckets /\ pendingChecks[b] # Nobody
            /\ start("waiting") /\ UNCHANGED pendingChecks
         \/ /\ b \notin knownBuckets /\ pendingChecks[b] = Nobody
            /\ start("head") /\ pendingChecks' = [pendingChecks EXCEPT ![b] = c]
  /\ UNCHANGED <<bucketUp, knownBuckets, removed, missed, missedAgain>>

BlobGoto(c, pc) == blobCall' = [blobCall EXCEPT ![c].pc = pc]

HeadBucket(c) ==
  /\ blobCall[c].pc = "head"
  /\ BlobGoto(c, IF blobCall[c].bucket \in bucketUp THEN "checked" ELSE "create")
  /\ UNCHANGED <<bucketUp, knownBuckets, pendingChecks, removed, missed, missedAgain>>

(* A conflict means that another worker was faster.                        *)
CreateBucket(c) ==
  /\ blobCall[c].pc = "create"
  /\ BlobGoto(c, IF blobCall[c].bucket \in bucketUp THEN "rehead" ELSE "checked")
  /\ bucketUp' = bucketUp \cup {blobCall[c].bucket}
  /\ UNCHANGED <<knownBuckets, pendingChecks, removed, missed, missedAgain>>

(* isBucketConflict: its existence is confirmed.                           *)
ConfirmBucket(c) ==
  /\ blobCall[c].pc = "rehead" /\ blobCall[c].bucket \in bucketUp
  /\ BlobGoto(c, "checked")
  /\ UNCHANGED <<bucketUp, knownBuckets, pendingChecks, removed, missed, missedAgain>>

(* The check is over for its caller and for those that wait for it.        *)
SettleCheck(c, pc) ==
  LET b == blobCall[c].bucket
      sharing == {o \in BlobCalls : blobCall[o].pc = "waiting" /\ blobCall[o].bucket = b} \cup {c}
  IN  /\ pendingChecks' = [pendingChecks EXCEPT ![b] = Nobody]
      /\ blobCall' = [o \in BlobCalls |->
           IF o \notin sharing THEN blobCall[o]
           ELSE IF pc = "idle" THEN NoBlobCall ELSE [blobCall[o] EXCEPT !.pc = pc]]

Checked(c) ==
  /\ blobCall[c].pc = "checked"
  /\ knownBuckets' = knownBuckets \cup {blobCall[c].bucket}
  /\ SettleCheck(c, "provisioned")
  /\ UNCHANGED <<bucketUp, removed, missed, missedAgain>>

(* A request of the check fails; a CREATE may have been carried out.       *)
CheckFails(c) ==
  /\ blobCall[c].pc \in Checking \ {"checked"}
  /\ \/ UNCHANGED bucketUp
     \/ blobCall[c].pc = "create" /\ bucketUp' = bucketUp \cup {blobCall[c].bucket}
  /\ SettleCheck(c, "idle")
  /\ UNCHANGED <<knownBuckets, removed, missed, missedAgain>>

(* Faulty variant of UploadFails: the entry stays in the cache.            *)
UploadFailsCached(c) ==
  LET b == blobCall[c].bucket IN
  /\ blobCall[c].pc = "provisioned" /\ b \in Buckets
  /\ blobCall' = [blobCall EXCEPT ![c] = NoBlobCall]
  /\ missed' = IF b \in bucketUp THEN missed ELSE missed \cup {b}
  /\ missedAgain' = (missedAgain \/ (b \notin bucketUp /\ blobCall[c].after))
  /\ UNCHANGED <<bucketUp, pendingChecks, removed, knownBuckets>>

(* PUT fails, for want of the bucket or for another reason.                *)
UploadFails(c) ==
  LET b == blobCall[c].bucket IN
  /\ blobCall[c].pc = "provisioned" /\ b \in Buckets
  /\ blobCall' = [blobCall EXCEPT ![c] = NoBlobCall]
  /\ knownBuckets' = knownBuckets \ {b}
  /\ missed' = IF b \in bucketUp THEN missed ELSE missed \cup {b}
  /\ missedAgain' = (missedAgain \/ (b \notin bucketUp /\ blobCall[c].after))
  /\ UNCHANGED <<bucketUp, pendingChecks, removed>>

Uploaded(c) ==
  /\ blobCall[c].pc = "provisioned" /\ blobCall[c].bucket \in Buckets \cap bucketUp
  /\ blobCall' = [blobCall EXCEPT ![c] = NoBlobCall]
  /\ missed' = missed \ {blobCall[c].bucket}
  /\ UNCHANGED <<bucketUp, knownBuckets, pendingChecks, removed, missedAgain>>

(* The probe asks the storage; its answer changes nothing.                 *)
checkBucket(c) ==
  /\ blobCall[c].pc = "provisioned" /\ blobCall[c].bucket = HealthBucket
  /\ blobCall' = [blobCall EXCEPT ![c] = NoBlobCall]
  /\ UNCHANGED <<bucketUp, knownBuckets, pendingChecks, removed, missed, missedAgain>>

(* A minute passed, or the entry was the oldest of a thousand.             *)
ForgetBucket(b) ==
  /\ b \in knownBuckets
  /\ knownBuckets' = knownBuckets \ {b}
  /\ UNCHANGED <<bucketUp, pendingChecks, blobCall, removed, missed, missedAgain>>

OtherWorkerCreates(b) ==
  /\ b \notin bucketUp
  /\ bucketUp' = bucketUp \cup {b}
  /\ UNCHANGED <<knownBuckets, pendingChecks, blobCall, removed, missed, missedAgain>>

RemoveBucket(b) ==
  /\ b \in bucketUp
  /\ bucketUp' = bucketUp \ {b}
  /\ removed' = removed \cup {b} /\ missed' = missed \ {b}
  /\ blobCall' = [c \in BlobCalls |-> IF blobCall[c].bucket = b
                                      THEN [blobCall[c] EXCEPT !.after = FALSE] ELSE blobCall[c]]
  /\ UNCHANGED <<knownBuckets, pendingChecks, missedAgain>>

OsNext ==
  \/ \E b \in AllBuckets : ForgetBucket(b) \/ OtherWorkerCreates(b) \/ RemoveBucket(b)
  \/ \E c \in BlobCalls :
       \/ \E b \in AllBuckets : ensureBucketExists(c, b)
       \/ HeadBucket(c) \/ CreateBucket(c) \/ ConfirmBucket(c) \/ Checked(c) \/ CheckFails(c)
       \/ UploadFails(c) \/ Uploaded(c) \/ checkBucket(c)

-----------------------------------------------------------------------------
(* A call makes at most one check of a bucket at a time, whatever fails,   *)
(* and its waiters are always waiting for a call that goes on.  A bucket   *)
(* that nobody removed exists for as long as the client says so.  And an   *)
(* upload that misses a removed bucket is the last to do so: one that      *)
(* begins after it provisions the bucket again, although checks that were  *)
(* under way then refill the cache (blob-client.ts:183).                   *)
BucketsSound ==
  /\ \A b \in AllBuckets :
       LET on(pcs) == {c \in BlobCalls : blobCall[c].bucket = b /\ blobCall[c].pc \in pcs}
       IN  /\ on(Checking) = {pendingChecks[b]} \ {Nobody}
           /\ on({"waiting"}) # {} => on(Checking) # {}
  /\ knownBuckets \ removed \subseteq bucketUp
  /\ ~missedAgain
=============================================================================
