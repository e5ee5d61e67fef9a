---------------------------- MODULE PlatformProofs ----------------------------
(***************************************************************************)
(* Proofs about the parts of MCPlatform, for all values of the constants.  *)
(* Every part is proved on its own; a behaviour of the platform is one of  *)
(* each part, which may stutter.                                           *)
(***************************************************************************)
EXTENDS MCPlatform, SetInduction, SequenceTheorems

-----------------------------------------------------------------------------
(* Buckets: ObjectStore                                                    *)

BlobType == [pc : Checking \cup {"idle", "waiting", "provisioned"}, bucket : AllBuckets, after : BOOLEAN]

(* The check of a bucket is the one that pendingChecks names, and calls    *)
(* wait for it only while there is one.                                    *)
OneCheck ==
  /\ \A c \in BlobCalls : blobCall[c].pc \in Checking => pendingChecks[blobCall[c].bucket] = c
  /\ \A b \in AllBuckets : pendingChecks[b] # Nobody =>
       blobCall[pendingChecks[b]].pc \in Checking /\ blobCall[pendingChecks[b]].bucket = b
  /\ \A c \in BlobCalls : blobCall[c].pc = "waiting" => pendingChecks[blobCall[c].bucket] # Nobody

(* What a check has found, or the cache says, is so unless the bucket was  *)
(* removed.                                                                *)
FoundUp ==
  /\ \A c \in BlobCalls : blobCall[c].pc = "checked" => blobCall[c].bucket \in bucketUp \cup removed
  /\ knownBuckets \ removed \subseteq bucketUp

(* A stale entry of a missed bucket is kept by an upload that will miss it *)
(* too; and the first call that begins alone after a miss finds the bucket *)
(* or creates it.                                                          *)
MissedOnce ==
  /\ \A b \in (missed \cap knownBuckets) \ bucketUp :
       \E c \in BlobCalls : blobCall[c].pc = "provisioned" /\ blobCall[c].bucket = b
  /\ \A c \in BlobCalls : blobCall[c].after =>
       /\ blobCall[c].pc # "waiting"
       /\ blobCall[c].pc \in {"checked", "provisioned"} => blobCall[c].bucket \in bucketUp
  /\ missed \subseteq Buckets
  /\ ~missedAgain

OsInv == OsTypeOK /\ OneCheck /\ FoundUp /\ MissedOnce

USE ObjectStoreAssumption DEF AllBuckets, Checking, NoBlobCall, BlobGoto

LEMMA BucketsStart == OsInit => OsInv
<1> SUFFICES ASSUME OsInit PROVE OsInv
  OBVIOUS
<1>1. bucketUp = {} /\ knownBuckets = {} /\ removed = {} /\ missed = {} /\ missedAgain = FALSE
  BY DEF OsInit
<1>2. OsTypeOK
  BY <1>1 DEF OsInit, OsTypeOK
<1>3. OneCheck
  BY DEF OsInit, OneCheck
<1>4. FoundUp /\ MissedOnce
  BY <1>1 DEF OsInit, FoundUp, MissedOnce
<1> QED
  BY <1>2, <1>3, <1>4 DEF OsInv

LEMMA BucketsStep == OsInv /\ [OsNext]_osVars => OsInv'
<1> SUFFICES ASSUME OsInv, [OsNext]_osVars PROVE OsInv'
  OBVIOUS
<1> USE DEF OsInv
<1>1. ASSUME NEW c \in BlobCalls, NEW b \in AllBuckets, ensureBucketExists(c, b) PROVE OsInv'
  <2>1. blobCall' \in [BlobCalls -> BlobType] /\ pendingChecks' \in [AllBuckets -> BlobCalls \cup {Nobody}]
    <3> DEFINE after == b \in missed /\ ~BlobBusy(b)
    <3>1. after \in BOOLEAN
      OBVIOUS
    <3>2. PICK pc \in {"provisioned", "waiting", "head"} :
            /\ blobCall' = [blobCall EXCEPT ![c] = [pc |-> pc, bucket |-> b, after |-> after]]
            /\ pendingChecks' \in {pendingChecks, [pendingChecks EXCEPT ![b] = c]}
      BY <1>1 DEF ensureBucketExists
    <3> HIDE DEF after
    <3> QED
      BY <3>1, <3>2 DEF OsTypeOK, BlobType
  <2>2. OsTypeOK'
    BY <1>1, <2>1 DEF OsTypeOK, BlobType, ensureBucketExists
  <2>3. OneCheck'
    BY <1>1 DEF OsTypeOK, OneCheck, ensureBucketExists, BlobBusy
  <2>4. FoundUp' /\ MissedOnce'
    BY <1>1 DEF OsTypeOK, OneCheck, FoundUp, MissedOnce, ensureBucketExists, BlobBusy
  <2> QED
    BY <2>2, <2>3, <2>4
<1>2. ASSUME NEW c \in BlobCalls, HeadBucket(c) PROVE OsInv'
  <2>1. OsTypeOK'
    BY <1>2 DEF OsTypeOK, HeadBucket
  <2>2. OneCheck'
    BY <1>2 DEF OsTypeOK, OneCheck, HeadBucket
  <2>3. FoundUp' /\ MissedOnce'
    BY <1>2 DEF OsTypeOK, OneCheck, FoundUp, MissedOnce, HeadBucket
  <2> QED
    BY <2>1, <2>2, <2>3
<1>3. ASSUME NEW c \in BlobCalls, CreateBucket(c) PROVE OsInv'
  <2>1. OsTypeOK'
    BY <1>3 DEF OsTypeOK, CreateBucket
  <2>2. OneCheck'
    BY <1>3 DEF OsTypeOK, OneCheck, CreateBucket
  <2>3. FoundUp' /\ MissedOnce'
    BY <1>3 DEF OsTypeOK, OneCheck, FoundUp, MissedOnce, CreateBucket
  <2> QED
    BY <2>1, <2>2, <2>3
<1>4. ASSUME NEW c \in BlobCalls, ConfirmBucket(c) PROVE OsInv'
  <2>1. OsTypeOK'
    BY <1>4 DEF OsTypeOK, ConfirmBucket
  <2>2. OneCheck'
    BY <1>4 DEF OsTypeOK, OneCheck, ConfirmBucket
  <2>3. FoundUp' /\ MissedOnce'
    BY <1>4 DEF OsTypeOK, OneCheck, FoundUp, MissedOnce, ConfirmBucket
  <2> QED
    BY <2>1, <2>2, <2>3
<1>5. ASSUME NEW c \in BlobCalls, Checked(c) PROVE OsInv'
  <2>1. OsTypeOK'
    BY <1>5 DEF OsTypeOK, Checked, SettleCheck
  <2>2. OneCheck'
    BY <1>5 DEF OsTypeOK, OneCheck, Checked, SettleCheck
  <2>3. FoundUp' /\ MissedOnce'
    BY <1>5 DEF OsTypeOK, OneCheck, FoundUp, MissedOnce, Checked, SettleCheck
  <2> QED
    BY <2>1, <2>2, <2>3
<1>6. ASSUME NEW c \in BlobCalls, CheckFails(c) PROVE OsInv'
  <2>1. OsTypeOK'
    BY <1>6 DEF OsTypeOK, CheckFails, SettleCheck
  <2>2. OneCheck'
    BY <1>6 DEF OsTypeOK, OneCheck, CheckFails, SettleCheck
  <2>3. FoundUp' /\ MissedOnce'
    BY <1>6 DEF OsTypeOK, OneCheck, FoundUp, MissedOnce, CheckFails, SettleCheck
  <2> QED
    BY <2>1, <2>2, <2>3
<1>7. ASSUME NEW c \in BlobCalls, UploadFails(c) PROVE OsInv'
  <2>1. OsTypeOK'
    BY <1>7 DEF OsTypeOK, UploadFails
  <2>2. OneCheck'
    BY <1>7 DEF OsTypeOK, OneCheck, UploadFails
  <2>3. FoundUp' /\ MissedOnce'
    BY <1>7 DEF OsTypeOK, OneCheck, FoundUp, MissedOnce, UploadFails
  <2> QED
    BY <2>1, <2>2, <2>3
<1>8. ASSUME NEW c \in BlobCalls, Uploaded(c) PROVE OsInv'
  <2>1. OsTypeOK'
    BY <1>8 DEF OsTypeOK, Uploaded
  <2>2. OneCheck'
    BY <1>8 DEF OsTypeOK, OneCheck, Uploaded
  <2>3. FoundUp' /\ MissedOnce'
    BY <1>8 DEF OsTypeOK, OneCheck, FoundUp, MissedOnce, Uploaded
  <2> QED
    BY <2>1, <2>2, <2>3
<1>9. ASSUME NEW c \in BlobCalls, checkBucket(c) PROVE OsInv'
  <2>1. OsTypeOK'
    BY <1>9 DEF OsTypeOK, checkBucket
  <2>2. OneCheck'
    BY <1>9 DEF OsTypeOK, OneCheck, checkBucket
  <2>3. FoundUp' /\ MissedOnce'
    BY <1>9 DEF OsTypeOK, OneCheck, FoundUp, MissedOnce, checkBucket
  <2> QED
    BY <2>1, <2>2, <2>3
<1>10. ASSUME NEW b \in AllBuckets, ForgetBucket(b) PROVE OsInv'
  <2>1. OsTypeOK'
    BY <1>10 DEF OsTypeOK, ForgetBucket
  <2>2. OneCheck'
    BY <1>10 DEF OsTypeOK, OneCheck, ForgetBucket
  <2>3. FoundUp' /\ MissedOnce'
    BY <1>10 DEF OsTypeOK, OneCheck, FoundUp, MissedOnce, ForgetBucket
  <2> QED
    BY <2>1, <2>2, <2>3
<1>11. ASSUME NEW b \in AllBuckets, OtherWorkerCreates(b) PROVE OsInv'
  <2>1. OsTypeOK'
    BY <1>11 DEF OsTypeOK, OtherWorkerCreates
  <2>2. OneCheck'
    BY <1>11 DEF OsTypeOK, OneCheck, OtherWorkerCreates
  <2>3. FoundUp' /\ MissedOnce'
    BY <1>11 DEF OsTypeOK, OneCheck, FoundUp, MissedOnce, OtherWorkerCreates
  <2> QED
    BY <2>1, <2>2, <2>3
<1>12. ASSUME NEW b \in AllBuckets, RemoveBucket(b) PROVE OsInv'
  <2>1. blobCall' \in [BlobCalls -> BlobType]
    <3>1. ASSUME NEW c \in BlobCalls PROVE [blobCall[c] EXCEPT !.after = FALSE] \in BlobType /\ blobCall[c] \in BlobType
      BY DEF OsTypeOK, BlobType
    <3> QED
      BY <1>12, <3>1 DEF RemoveBucket
  <2>2. OsTypeOK'
    BY <1>12, <2>1 DEF OsTypeOK, BlobType, RemoveBucket
  <2>3. OneCheck'
    BY <1>12 DEF OsTypeOK, OneCheck, RemoveBucket
  <2>4. FoundUp' /\ MissedOnce'
    BY <1>12 DEF OsTypeOK, FoundUp, MissedOnce, RemoveBucket
  <2> QED
    BY <2>2, <2>3, <2>4
<1>13. CASE UNCHANGED osVars
  BY <1>13 DEF osVars, OsTypeOK, OneCheck, FoundUp, MissedOnce
<1> QED
  BY <1>1, <1>2, <1>3, <1>4, <1>5, <1>6, <1>7, <1>8, <1>9, <1>10, <1>11, <1>12, <1>13 DEF OsNext

LEMMA BucketsImplied == OsInv => BucketsSound
BY DEF OsInv, OsTypeOK, OneCheck, FoundUp, MissedOnce, BucketsSound

HIDE ObjectStoreAssumption DEF AllBuckets, Checking, NoBlobCall, BlobGoto

-----------------------------------------------------------------------------
(* Request limits: RateLimit                                               *)

HitType == [pc : {"idle", "asked", "unset", "counted"}, chain : Seq(LimitKeys), began : 0..MaxClock,
            count : Nat, window : {0} \cup Windows, until : Nat]

LimitShape ==
  /\ store \in {"postgres", "redis", "memory"} /\ clock \in 0..MaxClock
  /\ counter \in [LimitKeys -> [count : Nat, resetAt : 0..NoReset]]
  /\ window \in [LimitKeys -> {0} \cup Windows]
  /\ hit \in [Hits -> HitType]
  /\ counted \in [LimitKeys -> [Windows -> Nat]] /\ passed \in [LimitKeys -> [Windows -> Nat]]
  /\ aliased \in BOOLEAN /\ cut \in BOOLEAN

(* Requests that a limiter has counted but not yet decided.                *)
Raised(h) == hit[h].pc \in {"unset", "counted"}

Requesting ==
  \A h \in Hits :
    /\ hit[h].pc # "idle" => hit[h].chain # <<>>
    /\ hit[h].began <= clock
    /\ Raised(h) => /\ hit[h].window \in Windows /\ hit[h].began < hit[h].until
                    /\ hit[h].count <= counted[Key(h)][hit[h].window]
    /\ hit[h].pc = "unset" => store = "redis"

(* They will pass if their count is within the limit.                      *)
Passing(k, w) == {h \in Hits : Raised(h) /\ Key(h) = k /\ hit[h].window = w /\ hit[h].count <= MaxHits}
Within(n) == IF n < MaxHits THEN n ELSE MaxHits

(* Every window numbers its requests from 1 on: as many have passed or     *)
(* will pass as have been counted, up to the limit; fewer, where some saw  *)
(* the number of another or ended before they were decided.                *)
Tallied(k, w) ==
  /\ IsFiniteSet(Passing(k, w))
  /\ passed[k][w] + Cardinality(Passing(k, w)) <= Within(counted[k][w])
  /\ ~aliased /\ ~cut => passed[k][w] + Cardinality(Passing(k, w)) = Within(counted[k][w])
Tally ==
  \A k \in LimitKeys :
    /\ counter[k].count # 0 =>
         window[k] \in Windows /\ counter[k].count = counted[k][window[k]]
    /\ \A w \in Windows : w > window[k] => counted[k][w] = 0
    /\ \A w \in Windows : Tallied(k, w)

(* Windows end, except where the expiry is still to be set.                *)
Ending ==
  /\ store = "redis" => \A k \in LimitKeys : counter[k].count # 0 => counter[k].resetAt > clock
  /\ ~cut => \A k \in LimitKeys :
       \/ counter[k].resetAt <= clock + WindowMs
       \/ \E h \in Hits : hit[h].pc = "unset" /\ Key(h) = k

RlInv == LimitShape /\ Requesting /\ Tally /\ Ending

LEMMA KeyType ==
  ASSUME LimitShape, Requesting, NEW h \in Hits, hit[h].pc # "idle"
  PROVE  Key(h) \in LimitKeys
BY DEF LimitShape, Requesting, Key, HitType

LEMMA NoHitType == NoHit \in HitType /\ NoHit.pc = "idle" /\ NoHit.began = 0
BY RateLimitAssumption DEF NoHit, HitType

(* A request that comes to a limiter.                                      *)
LEMMA AskedType ==
  ASSUME LimitShape, NEW ch \in Seq(LimitKeys), NEW r, r = [NoHit EXCEPT !.pc = "asked", !.chain = ch, !.began = clock]
  PROVE  r \in HitType /\ r.pc = "asked" /\ r.chain = ch /\ r.began = clock
BY DEF NoHit, HitType, LimitShape

LEMMA LimitsStart == RlInit => RlInv
<1> SUFFICES ASSUME RlInit PROVE RlInv
  OBVIOUS
<1>1. LimitShape
  <2>1. 0 \in 0..MaxClock /\ 0 \in 0..NoReset
    BY RateLimitAssumption DEF NoReset, WindowMs
  <2>2. /\ counter \in [LimitKeys -> [count : Nat, resetAt : 0..NoReset]]
        /\ counted \in [LimitKeys -> [Windows -> Nat]] /\ passed \in [LimitKeys -> [Windows -> Nat]]
    BY <2>1 DEF RlInit
  <2> QED
    BY <2>1, <2>2, NoHitType DEF RlInit, LimitShape
<1>2. Requesting /\ Ending
  BY RateLimitAssumption, NoHitType DEF RlInit, Requesting, Raised, Ending, WindowMs
<1>3. Tally
  <2> SUFFICES ASSUME NEW k \in LimitKeys, NEW w \in Windows PROVE Tallied(k, w)
    BY DEF RlInit, Tally
  <2>1. Passing(k, w) = {}
    BY NoHitType DEF RlInit, Passing, Raised
  <2>2. passed[k][w] = 0 /\ counted[k][w] = 0
    BY DEF RlInit
  <2> QED
    BY <2>1, <2>2, FS_EmptySet, RateLimitAssumption DEF Tallied, Within
<1> QED
  BY <1>1, <1>2, <1>3 DEF RlInv

(* Steps that neither count nor decide leave the tallies alone.            *)
LEMMA TallyStays ==
  ASSUME RlInv, UNCHANGED <<counted, passed, window>>, aliased => aliased', cut => cut',
         \A k \in LimitKeys : counter'[k].count \in {0, counter[k].count},
         \A k \in LimitKeys, w \in Windows : Passing(k, w)' = Passing(k, w)
  PROVE  Tally'
<1> SUFFICES ASSUME NEW k \in LimitKeys PROVE
      /\ counter'[k].count # 0 => window'[k] \in Windows /\ counter'[k].count = counted'[k][window'[k]]
      /\ \A w \in Windows : w > window'[k] => counted'[k][w] = 0
      /\ \A w \in Windows : Tallied(k, w)'
  BY DEF Tally, Windows
<1>1. ASSUME NEW w \in Windows PROVE Tallied(k, w)'
  BY DEF RlInv, Tally, Tallied, Within
<1> QED
  BY <1>1 DEF RlInv, Tally

(* A request is counted in its window.                                     *)
LEMMA TallyRaised ==
  ASSUME RlInv, LimitShape', NEW h \in Hits, NEW k \in LimitKeys, NEW opens \in BOOLEAN,
         NEW v \in Windows, NEW n \in Nat,
         hit[h].pc = "asked", Key(h) = k,
         opens \/ counter[k].count # 0,
         v = IF opens THEN window[k] + 1 ELSE window[k],
         n = IF opens THEN 1 ELSE counter[k].count + 1,
         window' = [window EXCEPT ![k] = v],
         counter'[k].count = n,
         \A j \in LimitKeys \ {k} : counter'[j] = counter[j],
         counted' = [counted EXCEPT ![k][v] = @ + 1],
         Raised(h)', Key(h)' = k, hit'[h].window = v, hit'[h].count = n,
         aliased => aliased', UNCHANGED <<passed, cut>>,
         \A o \in Hits \ {h} : \/ hit'[o] = hit[o]
                               \/ /\ hit[o].pc = "counted" /\ hit[o].count <= hit'[o].count /\ aliased'
                                  /\ hit'[o] = [hit[o] EXCEPT !.count = hit'[o].count]
  PROVE  Tally'
<1>0. /\ counted \in [LimitKeys -> [Windows -> Nat]] /\ window \in [LimitKeys -> Nat] /\ v \in Nat
      /\ Windows \subseteq Nat /\ MaxHits \in Nat \ {0}
  <2>1. Windows \subseteq Nat /\ MaxHits \in Nat \ {0}
    BY RateLimitAssumption DEF Windows
  <2>2. window \in [LimitKeys -> {0} \cup Windows]
    BY DEF RlInv, LimitShape
  <2>3. window \in [LimitKeys -> Nat]
    BY <2>1, <2>2
  <2> QED
    BY <2>1, <2>3 DEF RlInv, LimitShape
<1>1. counted[k][v] = n - 1 /\ counted'[k][v] = n /\ n >= 1
  <2>1. counted'[k][v] = counted[k][v] + 1
    BY <1>0
  <2>2. CASE opens
    <3>1. v > window[k] /\ n = 1
      BY <1>0, <2>2
    <3>2. counted[k][v] = 0
      BY <3>1 DEF RlInv, Tally
    <3> QED
      BY <2>1, <3>1, <3>2
  <2>3. CASE ~opens
    <3>1. counter[k].count = counted[k][v]
      BY <2>3 DEF RlInv, Tally
    <3>2. counted[k][v] \in Nat
      BY <1>0
    <3> QED
      BY <2>1, <2>3, <3>1, <3>2
  <2> QED
    BY <2>2, <2>3
<1>2. /\ \A j \in LimitKeys, w \in Windows : j # k \/ w # v => counted'[j][w] = counted[j][w]
      /\ \A j \in LimitKeys \ {k} : window'[j] = window[j]
      /\ window'[k] = v /\ v >= window[k]
  BY <1>0
<1>3. ~Raised(h)
  BY DEF Raised
<1>35. ASSUME NEW o \in Hits \ {h}, NEW j \in LimitKeys, NEW w \in Windows
      PROVE  /\ o \in Passing(j, w)' => o \in Passing(j, w)
             /\ ~aliased' /\ o \in Passing(j, w) => o \in Passing(j, w)'
  <2>1. CASE hit'[o] = hit[o]
    BY <2>1 DEF Passing, Raised, Key
  <2>2. CASE /\ hit[o].pc = "counted" /\ hit[o].count <= hit'[o].count /\ aliased'
             /\ hit'[o] = [hit[o] EXCEPT !.count = hit'[o].count]
    <3>1. hit[o] \in HitType /\ hit'[o] \in HitType
      BY DEF RlInv, LimitShape
    <3>2. hit'[o].pc = hit[o].pc /\ hit'[o].chain = hit[o].chain /\ hit'[o].window = hit[o].window
      BY <2>2, <3>1 DEF HitType
    <3>3. hit[o].count \in Nat /\ hit'[o].count \in Nat
      BY <3>1 DEF HitType
    <3> QED
      BY <1>0, <2>2, <3>2, <3>3 DEF Passing, Raised, Key
  <2> QED
    BY <2>1, <2>2
<1>4. ASSUME NEW j \in LimitKeys, NEW w \in Windows, j # k \/ w # v
      PROVE  /\ Passing(j, w)' \subseteq Passing(j, w)
             /\ ~aliased' => Passing(j, w)' = Passing(j, w)
  <2>1. h \notin Passing(j, w) /\ h \notin Passing(j, w)'
    BY <1>3, <1>4 DEF Passing
  <2>2. ASSUME NEW o \in Hits \ {h}
        PROVE  /\ o \in Passing(j, w)' => o \in Passing(j, w)
               /\ ~aliased' /\ o \in Passing(j, w) => o \in Passing(j, w)'
    BY <1>35 DEF Passing
  <2> QED
    BY <2>1, <2>2 DEF Passing
<1>5. /\ Passing(k, v)' \subseteq Passing(k, v) \cup {h}
      /\ n > MaxHits => Passing(k, v)' \subseteq Passing(k, v)
      /\ ~aliased' /\ n > MaxHits => Passing(k, v)' = Passing(k, v)
      /\ ~aliased' /\ n <= MaxHits => Passing(k, v)' = Passing(k, v) \cup {h}
      /\ h \notin Passing(k, v)
  <2>1. h \notin Passing(k, v) /\ (h \in Passing(k, v)' <=> n <= MaxHits)
    BY <1>3 DEF Passing
  <2>2. ASSUME NEW o \in Hits \ {h}
        PROVE  /\ o \in Passing(k, v)' => o \in Passing(k, v)
               /\ ~aliased' /\ o \in Passing(k, v) => o \in Passing(k, v)'
    BY <1>35 DEF Passing
  <2> QED
    BY <2>1, <2>2, RateLimitAssumption DEF Passing
<1>6. ASSUME NEW j \in LimitKeys, NEW w \in Windows, j # k \/ w # v
      PROVE  Tallied(j, w)'
  <2>1. Tallied(j, w) /\ passed[j][w] \in Nat
    BY DEF RlInv, Tally, LimitShape
  <2>2. /\ IsFiniteSet(Passing(j, w)') /\ Cardinality(Passing(j, w)) \in Nat
        /\ Cardinality(Passing(j, w)') \in Nat /\ Cardinality(Passing(j, w)') <= Cardinality(Passing(j, w))
    BY <1>4, <1>6, <2>1, FS_Subset, FS_CardinalityType DEF Tallied
  <2>3. Within(counted'[j][w]) = Within(counted[j][w]) /\ Within(counted[j][w]) \in Nat
    BY <1>0, <1>2, <1>6 DEF Within
  <2> QED
    BY <1>4, <1>6, <2>1, <2>2, <2>3 DEF Tallied, Within
<1>7. Tallied(k, v)'
  <2>1. Tallied(k, v) /\ passed[k][v] \in Nat
    BY DEF RlInv, Tally, LimitShape
  <2>2. /\ Cardinality(Passing(k, v)) \in Nat
        /\ IsFiniteSet(Passing(k, v) \cup {h})
        /\ Cardinality(Passing(k, v) \cup {h}) = Cardinality(Passing(k, v)) + 1
    BY <1>5, <2>1, FS_AddElement, FS_CardinalityType DEF Tallied
  <2>3. CASE n <= MaxHits
    <3>1. Within(counted'[k][v]) = Within(counted[k][v]) + 1 /\ Within(counted[k][v]) \in Nat
      BY <1>1, <2>3, RateLimitAssumption DEF Within
    <3>2. /\ IsFiniteSet(Passing(k, v)') /\ Cardinality(Passing(k, v)') \in Nat
          /\ Cardinality(Passing(k, v)') <= Cardinality(Passing(k, v)) + 1
      BY <1>5, <2>2, FS_Subset, FS_CardinalityType
    <3> QED
      BY <1>5, <2>1, <2>2, <2>3, <3>1, <3>2 DEF Tallied, Within
  <2>4. CASE n > MaxHits
    <3>1. Within(counted'[k][v]) = Within(counted[k][v]) /\ Within(counted[k][v]) \in Nat
      BY <1>1, <2>4, RateLimitAssumption DEF Within
    <3>2. /\ IsFiniteSet(Passing(k, v)') /\ Cardinality(Passing(k, v)') \in Nat
          /\ Cardinality(Passing(k, v)') <= Cardinality(Passing(k, v))
      BY <1>5, <2>1, <2>4, FS_Subset, FS_CardinalityType DEF Tallied
    <3> QED
      BY <1>5, <2>1, <2>2, <2>4, <3>1, <3>2 DEF Tallied, Within
  <2> QED
    BY <2>3, <2>4, RateLimitAssumption
<1>8. ASSUME NEW j \in LimitKeys, counter'[j].count # 0
      PROVE  window'[j] \in Windows /\ counter'[j].count = counted'[j][window'[j]]
  BY <1>1, <1>2, <1>8 DEF RlInv, Tally
<1>9. ASSUME NEW j \in LimitKeys, NEW w \in Windows, w > window'[j]
      PROVE  counted'[j][w] = 0
  <2>1. w > window[j] /\ counted'[j][w] = counted[j][w]
    <3>1. CASE j = k
      <4>1. w \in Nat /\ w > v /\ window[k] \in Nat
        BY <1>0, <1>2, <1>9, <3>1
      <4> QED
        BY <1>0, <1>2, <3>1, <4>1
    <3>2. CASE j # k
      BY <1>2, <1>9, <3>2
    <3> QED
      BY <3>1, <3>2
  <2> QED
    BY <2>1 DEF RlInv, Tally
<1> QED
  BY <1>6, <1>7, <1>8, <1>9 DEF Tally, Windows

(* The next number of a window that goes on, and the first of a new one.   *)
LEMMA CountIs ==
  ASSUME LimitShape, Tally, NEW k \in LimitKeys, NEW opens \in BOOLEAN,
         NEW v, v = IF opens THEN window[k] + 1 ELSE window[k], v \in Windows,
         opens \/ counter[k].count # 0
  PROVE  counted[k][v] + 1 = IF opens THEN 1 ELSE counter[k].count + 1
<1>1. window[k] \in Nat /\ counted[k][v] \in Nat
  BY RateLimitAssumption DEF LimitShape, Windows
<1>2. CASE opens
  <2>1. v > window[k]
    BY <1>1, <1>2
  <2> QED
    BY <1>2, <2>1 DEF Tally
<1>3. CASE ~opens
  BY <1>3 DEF Tally
<1> QED
  BY <1>2, <1>3

(* A request that is counted leaves the numbers of the others within.      *)
LEMMA CountsGrow ==
  ASSUME LimitShape, Requesting, NEW k \in LimitKeys, NEW v \in Windows,
         counted' = [counted EXCEPT ![k][v] = @ + 1]
  PROVE  \A o \in Hits : Raised(o) => hit[o].count <= counted'[Key(o)][hit[o].window]
<1> SUFFICES ASSUME NEW o \in Hits, Raised(o) PROVE hit[o].count <= counted'[Key(o)][hit[o].window]
  OBVIOUS
<1>1. Key(o) \in LimitKeys /\ hit[o].window \in Windows /\ hit[o].count <= counted[Key(o)][hit[o].window]
  BY KeyType DEF Requesting, Raised
<1>2. hit[o].count \in Nat /\ counted[Key(o)][hit[o].window] \in Nat
  BY <1>1 DEF LimitShape, HitType
<1>3. counted'[Key(o)][hit[o].window] >= counted[Key(o)][hit[o].window]
  BY <1>1, <1>2 DEF LimitShape
<1> QED
  BY <1>1, <1>2, <1>3 DEF LimitShape

(* The stores raise a counter in the same way.                             *)
LEMMA RaiseKeeps ==
  ASSUME RlInv, NEW h \in Hits, NEW opens \in BOOLEAN, NEW resetAt \in 0..NoReset,
         NEW to \in {"unset", "counted"},
         hit[h].pc = "asked", Raise(h, opens, resetAt, to),
         opens \/ counter[Key(h)].count # 0,
         hit[h].began < resetAt, to = "unset" => store = "redis",
         UNCHANGED <<store, clock, passed, aliased, cut>>
  PROVE  LimitShape' /\ Requesting' /\ Tally'
<1> DEFINE k == Key(h)
           v == IF opens THEN window[k] + 1 ELSE window[k]
           n == IF opens THEN 1 ELSE counter[k].count + 1
           r == [hit[h] EXCEPT !.pc = to, !.count = n, !.window = v, !.until = resetAt]
<1>1. k \in LimitKeys
  BY KeyType DEF RlInv
<1>2. v \in Windows
  BY DEF Raise
<1>3. n \in Nat
  BY <1>1 DEF RlInv, LimitShape
<1>4. hit[h] \in HitType /\ resetAt \in Nat
  BY DEF RlInv, LimitShape
<1>5. /\ r \in HitType /\ r.pc = to /\ r.chain = hit[h].chain /\ r.began = hit[h].began
      /\ r.count = n /\ r.window = v /\ r.until = resetAt
  BY <1>2, <1>3, <1>4 DEF HitType
<1>6. hit' = [hit EXCEPT ![h] = r]
  BY <1>4 DEF Raise, RlInv, LimitShape, HitType
<1>7. /\ window' = [window EXCEPT ![k] = v]
      /\ counter' = [counter EXCEPT ![k] = [count |-> n, resetAt |-> resetAt]]
      /\ counted' = [counted EXCEPT ![k][v] = @ + 1]
  BY DEF Raise
<1> HIDE DEF r
<1>8. hit' \in [Hits -> HitType] /\ hit'[h] = r /\ \A o \in Hits \ {h} : hit'[o] = hit[o]
  BY <1>5, <1>6 DEF RlInv, LimitShape
<1>9. LimitShape'
  <2>1. window' \in [LimitKeys -> {0} \cup Windows]
    BY <1>2, <1>7 DEF RlInv, LimitShape
  <2>2. counter' \in [LimitKeys -> [count : Nat, resetAt : 0..NoReset]]
    BY <1>3, <1>7 DEF RlInv, LimitShape
  <2>3. counted' \in [LimitKeys -> [Windows -> Nat]]
    BY <1>1, <1>2, <1>7 DEF RlInv, LimitShape
  <2> QED
    BY <1>8, <2>1, <2>2, <2>3 DEF RlInv, LimitShape
<1>10. Requesting'
  <2>1. n <= counted'[k][v]
    BY <1>1, <1>2, <1>7, CountIs DEF RlInv, LimitShape
  <2>2. \A o \in Hits \ {h} : Raised(o) => hit[o].count <= counted'[Key(o)][hit[o].window]
    BY <1>1, <1>2, <1>7, CountsGrow DEF RlInv, Requesting, Raised
  <2> QED
    BY <1>2, <1>5, <1>8, <2>1, <2>2 DEF RlInv, Requesting, Raised, Key
<1>11. /\ Raised(h)' /\ Key(h)' = k /\ hit'[h].window = v /\ hit'[h].count = n
       /\ counter'[k].count = n /\ \A j \in LimitKeys \ {k} : counter'[j] = counter[j]
  BY <1>1, <1>5, <1>7, <1>8 DEF Raised, Key, RlInv, LimitShape
<1>12. Tally'
  BY <1>1, <1>2, <1>3, <1>7, <1>8, <1>9, <1>11, TallyRaised
<1> QED
  BY <1>9, <1>10, <1>12

(* Where PEXPIRE is not used every window ends in time.                    *)
LEMMA EndingAtOnce ==
  ASSUME RlInv, LimitShape', store # "redis", UNCHANGED <<store, clock, cut>>,
         \A k \in LimitKeys : counter'[k].resetAt <= counter[k].resetAt \/ counter'[k].resetAt <= clock + WindowMs
  PROVE  Ending'
<1>1. ASSUME ~cut, NEW k \in LimitKeys PROVE counter'[k].resetAt <= clock + WindowMs
  <2>1. counter[k].resetAt <= clock + WindowMs
    BY <1>1 DEF RlInv, Ending, Requesting
  <2>2. counter[k].resetAt \in Nat /\ counter'[k].resetAt \in Nat /\ clock \in Nat /\ WindowMs \in Nat
    BY DEF RlInv, LimitShape, WindowMs
  <2> QED
    BY <2>1, <2>2
<1> QED
  BY <1>1 DEF Ending

LEMMA PostgresKeeps ==
  ASSUME RlInv, NEW h \in Hits, PostgresIncrement(h)
  PROVE  RlInv'
<1> DEFINE k == Key(h)
           opens == counter[k].count = 0 \/ counter[k].resetAt <= hit[h].began
           resetAt == IF opens THEN hit[h].began + WindowMs ELSE counter[k].resetAt
<1>1. k \in LimitKeys /\ opens \in BOOLEAN
  BY KeyType DEF RlInv, PostgresIncrement
<1>2. /\ hit[h].began \in 0..MaxClock /\ counter[k].resetAt \in 0..NoReset
      /\ hit[h].began <= clock /\ clock \in 0..MaxClock
  BY <1>1 DEF RlInv, LimitShape, HitType, Requesting
<1>3. resetAt \in 0..NoReset /\ hit[h].began < resetAt
  BY <1>2, RateLimitAssumption DEF NoReset, WindowMs
<1>4. resetAt <= counter[k].resetAt \/ resetAt <= clock + WindowMs
  BY <1>2 DEF WindowMs
<1>5. Raise(h, opens, resetAt, "counted") /\ hit[h].pc = "asked" /\ store = "postgres"
      /\ UNCHANGED <<store, clock, passed, aliased, cut>>
  BY DEF PostgresIncrement
<1>6. opens \/ counter[k].count # 0
  OBVIOUS
<1>7. counter' = [counter EXCEPT ![k] = [count |-> IF opens THEN 1 ELSE counter[k].count + 1, resetAt |-> resetAt]]
  BY <1>5 DEF Raise
<1> HIDE DEF opens, resetAt
<1>8. LimitShape' /\ Requesting' /\ Tally'
  BY <1>1, <1>3, <1>5, <1>6, RaiseKeeps
<1>9. Ending'
  <2>1. ASSUME NEW j \in LimitKeys
        PROVE  counter'[j].resetAt <= counter[j].resetAt \/ counter'[j].resetAt <= clock + WindowMs
    <3>1. counter[j].resetAt \in Nat
      BY DEF RlInv, LimitShape
    <3> QED
      BY <1>4, <1>7, <3>1 DEF RlInv, LimitShape
  <2> QED
    BY <1>5, <1>8, <2>1, EndingAtOnce
<1> QED
  BY <1>8, <1>9 DEF RlInv

LEMMA RedisIncrKeeps ==
  ASSUME RlInv, NEW h \in Hits, RedisIncr(h)
  PROVE  RlInv'
<1> DEFINE k == Key(h)
           opens == counter[k].count = 0
           resetAt == IF opens THEN NoReset ELSE counter[k].resetAt
           to == IF opens THEN "unset" ELSE "counted"
<1>1. k \in LimitKeys /\ opens \in BOOLEAN /\ to \in {"unset", "counted"}
  BY KeyType DEF RlInv, RedisIncr
<1>2. /\ hit[h].began \in 0..MaxClock /\ counter[k].resetAt \in 0..NoReset
      /\ hit[h].began <= clock /\ clock \in 0..MaxClock
  BY <1>1 DEF RlInv, LimitShape, HitType, Requesting
<1>3. store = "redis" /\ hit[h].pc = "asked" /\ Raise(h, opens, resetAt, to)
      /\ UNCHANGED <<store, clock, passed, aliased, cut>>
  BY DEF RedisIncr
<1>4. resetAt \in 0..NoReset /\ resetAt > clock
  BY <1>1, <1>2, <1>3, RateLimitAssumption DEF NoReset, WindowMs, RlInv, Ending
<1>5. hit[h].began < resetAt
  BY <1>2, <1>4
<1>6. opens \/ counter[k].count # 0
  OBVIOUS
<1>7. /\ counter' = [counter EXCEPT ![k] = [count |-> IF opens THEN 1 ELSE counter[k].count + 1, resetAt |-> resetAt]]
      /\ hit'[h].pc = to /\ hit'[h].chain = hit[h].chain /\ \A o \in Hits \ {h} : hit'[o] = hit[o]
  BY <1>3 DEF Raise, RlInv, LimitShape, HitType
<1>8. opens => to = "unset"
  OBVIOUS
<1>9. ~opens => resetAt = counter[k].resetAt
  OBVIOUS
<1> HIDE DEF opens, resetAt, to
<1>10. LimitShape' /\ Requesting' /\ Tally'
  BY <1>1, <1>3, <1>4, <1>5, <1>6, RaiseKeeps
<1>11. Ending'
  <2>1. ASSUME NEW j \in LimitKeys, counter'[j].count # 0 PROVE counter'[j].resetAt > clock
    BY <1>3, <1>4, <1>7, <2>1 DEF RlInv, LimitShape, Ending
  <2>2. ASSUME ~cut, NEW j \in LimitKeys
        PROVE  \/ counter'[j].resetAt <= clock + WindowMs
               \/ \E o \in Hits : hit'[o].pc = "unset" /\ Key(o)' = j
    <3>1. CASE j = k /\ opens
      BY <1>7, <1>8, <3>1 DEF Key
    <3>2. CASE ~(j = k /\ opens)
      <4>1. counter'[j].resetAt = counter[j].resetAt
        BY <1>1, <1>7, <1>9, <3>2 DEF RlInv, LimitShape
      <4>2. \/ counter[j].resetAt <= clock + WindowMs
            \/ \E o \in Hits \ {h} : hit[o].pc = "unset" /\ Key(o) = j
        BY <1>3, <2>2 DEF RlInv, Ending
      <4> QED
        BY <1>7, <4>1, <4>2 DEF Key
    <3> QED
      BY <3>1, <3>2
  <2> QED
    BY <1>3, <2>1, <2>2 DEF Ending
<1> QED
  BY <1>10, <1>11 DEF RlInv

LEMMA MemoryKeeps ==
  ASSUME RlInv, NEW h \in Hits, MemoryIncrement(h)
  PROVE  RlInv'
<1> DEFINE k == Key(h)
           opens == counter[k].count = 0 \/ counter[k].resetAt <= clock
           w == IF opens THEN window[k] + 1 ELSE window[k]
           holding == {o \in Hits \ {h} : hit[o].pc = "counted" /\ Key(o) = k /\ hit[o].window = w}
           n == IF opens THEN 1 ELSE counter[k].count + 1
           resetAt == IF opens THEN clock + WindowMs ELSE counter[k].resetAt
<1>1. /\ store = "memory" /\ hit[h].pc = "asked" /\ w \in Windows
      /\ window' = [window EXCEPT ![k] = w]
      /\ counted' = [counted EXCEPT ![k][w] = @ + 1]
      /\ aliased' = (aliased \/ holding # {})
      /\ UNCHANGED <<store, clock, passed, cut>>
  BY DEF MemoryIncrement
<1>2. k \in LimitKeys /\ opens \in BOOLEAN
  BY <1>1, KeyType DEF RlInv
<1>3. /\ hit[h].began \in 0..MaxClock /\ counter[k].resetAt \in 0..NoReset /\ counter[k].count \in Nat
      /\ hit[h].began <= clock /\ clock \in 0..MaxClock /\ n \in Nat
  BY <1>2 DEF RlInv, LimitShape, HitType, Requesting
<1>4. resetAt \in 0..NoReset /\ hit[h].began < resetAt
  BY <1>3, RateLimitAssumption DEF NoReset, WindowMs
<1>5. resetAt <= counter[k].resetAt \/ resetAt <= clock + WindowMs
  BY <1>3 DEF WindowMs
<1>6. counter' = [counter EXCEPT ![k] = [count |-> n, resetAt |-> resetAt]]
  BY <1>2 DEF MemoryIncrement, RlInv, LimitShape
<1>7. opens \/ counter[k].count # 0
  OBVIOUS
<1>8. counter'[k].resetAt = resetAt /\ counter'[k].count = n /\ \A j \in LimitKeys \ {k} : counter'[j] = counter[j]
  BY <1>2, <1>6 DEF RlInv, LimitShape
<1>9. \A o \in holding : hit[o].pc = "counted" /\ Key(o) = k /\ hit[o].window = w
  OBVIOUS
<1>10. hit' = [o \in Hits |->
           IF o = h THEN [hit[o] EXCEPT !.pc = "counted", !.count = n, !.window = w, !.until = counter'[k].resetAt]
           ELSE IF o \in holding THEN [hit[o] EXCEPT !.count = n] ELSE hit[o]]
  BY DEF MemoryIncrement
<1>11. holding \subseteq Hits /\ h \notin holding
  OBVIOUS
<1>12. ~opens => n = counter[k].count + 1
  OBVIOUS
<1>13. w = IF opens THEN window[k] + 1 ELSE window[k]
  OBVIOUS
<1>14. n = IF opens THEN 1 ELSE counter[k].count + 1
  OBVIOUS
<1> HIDE DEF opens, w, holding, n, resetAt
<1>15. /\ hit'[h] \in HitType /\ hit'[h].pc = "counted" /\ hit'[h].chain = hit[h].chain
       /\ hit'[h].began = hit[h].began /\ hit'[h].count = n /\ hit'[h].window = w /\ hit'[h].until = resetAt
  <2>1. hit[h] \in HitType /\ resetAt \in Nat
    BY <1>4 DEF RlInv, LimitShape
  <2> DEFINE r == [hit[h] EXCEPT !.pc = "counted", !.count = n, !.window = w, !.until = resetAt]
  <2>2. /\ r \in HitType /\ r.pc = "counted" /\ r.chain = hit[h].chain /\ r.began = hit[h].began
        /\ r.count = n /\ r.window = w /\ r.until = resetAt
    BY <1>1, <1>3, <2>1 DEF HitType
  <2>3. hit'[h] = r
    BY <1>8, <1>10
  <2> HIDE DEF r
  <2> QED
    BY <2>2, <2>3
<1>16. ASSUME NEW o \in Hits \ {h}
       PROVE  /\ hit'[o] \in HitType /\ hit'[o].pc = hit[o].pc /\ hit'[o].chain = hit[o].chain
              /\ hit'[o].began = hit[o].began /\ hit'[o].window = hit[o].window /\ hit'[o].until = hit[o].until
              /\ o \notin holding => hit'[o] = hit[o]
              /\ o \in holding => hit'[o] = [hit[o] EXCEPT !.count = n] /\ hit'[o].count = n
  <2>1. hit[o] \in HitType
    BY DEF RlInv, LimitShape
  <2> DEFINE r == [hit[o] EXCEPT !.count = n]
  <2>2. /\ r \in HitType /\ r.pc = hit[o].pc /\ r.chain = hit[o].chain /\ r.began = hit[o].began
        /\ r.count = n /\ r.window = hit[o].window /\ r.until = hit[o].until
    BY <1>3, <2>1 DEF HitType
  <2>3. hit'[o] = IF o \in holding THEN r ELSE hit[o]
    BY <1>10
  <2> HIDE DEF r
  <2>4. CASE o \in holding
    <3>1. hit'[o] = r
      BY <2>3, <2>4
    <3> QED
      BY <2>2, <2>4, <3>1 DEF r
  <2>5. CASE o \notin holding
    BY <2>1, <2>3, <2>5
  <2> QED
    BY <2>4, <2>5
<1>17. LimitShape'
  <2>1. hit' \in [Hits -> HitType]
    BY <1>10, <1>15, <1>16
  <2>2. window' \in [LimitKeys -> {0} \cup Windows]
    BY <1>1 DEF RlInv, LimitShape
  <2>3. counter' \in [LimitKeys -> [count : Nat, resetAt : 0..NoReset]]
    BY <1>3, <1>4, <1>6 DEF RlInv, LimitShape
  <2>4. counted' \in [LimitKeys -> [Windows -> Nat]]
    BY <1>1, <1>2 DEF RlInv, LimitShape
  <2>5. aliased' \in BOOLEAN
    BY <1>1
  <2> QED
    BY <1>1, <2>1, <2>2, <2>3, <2>4, <2>5 DEF RlInv, LimitShape
<1>18. n = counted[k][w] + 1 /\ n = counted'[k][w] /\ counted[k][w] \in Nat
  BY <1>1, <1>2, <1>7, <1>13, <1>14, CountIs DEF RlInv, LimitShape
<1>19. \A o \in holding : hit[o].count <= n
  <2> SUFFICES ASSUME NEW o \in holding PROVE hit[o].count <= n
    OBVIOUS
  <2>1. hit[o].count <= counted[k][w]
    BY <1>9, <1>11 DEF RlInv, Requesting, Raised
  <2>2. hit[o].count \in Nat
    BY <1>11 DEF RlInv, LimitShape, HitType
  <2> QED
    BY <1>18, <2>1, <2>2
<1>20. Requesting'
  <2> SUFFICES ASSUME NEW o \in Hits PROVE
        /\ hit'[o].pc # "idle" => hit'[o].chain # <<>>
        /\ hit'[o].began <= clock'
        /\ Raised(o)' => /\ hit'[o].window \in Windows /\ hit'[o].began < hit'[o].until
                         /\ hit'[o].count <= counted'[Key(o)'][hit'[o].window]
        /\ hit'[o].pc = "unset" => store' = "redis"
    BY DEF Requesting, Windows
  <2>1. CASE o = h
    BY <1>1, <1>3, <1>4, <1>15, <1>18, <2>1 DEF RlInv, Requesting, Raised, Key
  <2>2. CASE o # h
    <3>1. Raised(o)' => hit'[o].count <= counted'[Key(o)'][hit'[o].window]
      <4>1. CASE o \in holding
        <5>1. Key(o) = k /\ hit[o].window = w /\ Key(o)' = Key(o)
          BY <1>9, <1>16, <2>2, <4>1 DEF Key
        <5>2. hit'[o].count = n /\ hit'[o].window = w
          BY <1>16, <2>2, <4>1, <5>1
        <5>3. n <= n
          BY <1>3
        <5> QED
          BY <1>18, <5>1, <5>2, <5>3
      <4>2. CASE o \notin holding
        BY <1>1, <1>2, <1>16, <2>2, <4>2, CountsGrow DEF RlInv, Raised, Key
      <4> QED
        BY <4>1, <4>2
    <3> QED
      BY <1>1, <1>16, <2>2, <3>1 DEF RlInv, Requesting, Raised
  <2> QED
    BY <2>1, <2>2
<1>21. Tally'
  <2>1. ASSUME NEW o \in Hits \ {h}
        PROVE  \/ hit'[o] = hit[o]
               \/ /\ hit[o].pc = "counted" /\ hit[o].count <= hit'[o].count /\ aliased'
                  /\ hit'[o] = [hit[o] EXCEPT !.count = hit'[o].count]
    BY <1>1, <1>9, <1>16, <1>19
  <2>2. Raised(h)' /\ Key(h)' = k
    BY <1>15 DEF Raised, Key
  <2>3. aliased => aliased'
    BY <1>1
  <2> QED
    BY <1>1, <1>2, <1>3, <1>7, <1>8, <1>13, <1>14, <1>15, <1>17, <2>1, <2>2, <2>3, TallyRaised
<1>22. Ending'
  <2>1. ASSUME NEW j \in LimitKeys
        PROVE  counter'[j].resetAt <= counter[j].resetAt \/ counter'[j].resetAt <= clock + WindowMs
    <3>1. counter[j].resetAt \in Nat
      BY DEF RlInv, LimitShape
    <3> QED
      BY <1>5, <1>8, <3>1
  <2> QED
    BY <1>1, <1>17, <2>1, EndingAtOnce
<1> QED
  BY <1>17, <1>20, <1>21, <1>22 DEF RlInv

(* Steps of one request that is not counted anew.                          *)
LEMMA OthersPass ==
  ASSUME RlInv, NEW h \in Hits, \A o \in Hits \ {h} : hit'[o] = hit[o], NEW k \in LimitKeys, NEW w \in Windows
  PROVE  Passing(k, w)' \ {h} = Passing(k, w) \ {h}
BY DEF Passing, Raised, Key

LEMMA HitKeeps ==
  ASSUME RlInv, NEW h \in Hits, NEW ch \in Chains, Hit(h, ch)
  PROVE  RlInv'
<1> DEFINE r == [NoHit EXCEPT !.pc = "asked", !.chain = ch, !.began = clock]
<1>1. r \in HitType /\ r.pc = "asked" /\ r.chain = ch /\ r.began = clock /\ ch # <<>>
  BY AskedType, RateLimitAssumption DEF RlInv
<1>2. hit' = [hit EXCEPT ![h] = r] /\ hit[h].pc = "idle"
  BY DEF Hit
<1>3. UNCHANGED <<store, clock, counter, window, counted, passed, aliased, cut>>
  BY DEF Hit
<1> HIDE DEF r
<1>4. LimitShape' /\ hit'[h] = r /\ \A o \in Hits \ {h} : hit'[o] = hit[o]
  BY <1>1, <1>2, <1>3 DEF RlInv, LimitShape
<1>5. Requesting'
  <2>1. clock <= clock
    BY DEF RlInv, LimitShape
  <2> QED
    BY <1>1, <1>3, <1>4, <2>1 DEF RlInv, Requesting, Raised, Key
<1>6. Tally'
  <2>1. ASSUME NEW k \in LimitKeys, NEW w \in Windows PROVE Passing(k, w)' = Passing(k, w)
    BY <1>1, <1>2, <1>4, OthersPass DEF Passing, Raised
  <2> QED
    BY <1>3, <2>1, TallyStays DEF RlInv, LimitShape
<1>7. Ending'
  BY <1>1, <1>2, <1>3, <1>4 DEF RlInv, Ending, Key
<1> QED
  BY <1>4, <1>5, <1>6, <1>7 DEF RlInv

LEMMA PexpireKeeps ==
  ASSUME RlInv, NEW h \in Hits, RedisPexpire(h)
  PROVE  RlInv'
<1> DEFINE k == Key(h)
           r == [hit[h] EXCEPT !.pc = "counted"]
<1>1. k \in LimitKeys /\ hit[h].pc = "unset" /\ store = "redis"
  BY KeyType DEF RlInv, RedisPexpire, Requesting
<1>2. /\ r \in HitType /\ r.pc = "counted" /\ r.chain = hit[h].chain /\ r.began = hit[h].began
      /\ r.count = hit[h].count /\ r.window = hit[h].window /\ r.until = hit[h].until
  BY DEF RlInv, LimitShape, HitType
<1>3. hit' = [hit EXCEPT ![h] = r]
  BY DEF RedisPexpire
<1>4. /\ counter' = [counter EXCEPT ![k].resetAt = clock + WindowMs]
      /\ UNCHANGED <<store, clock, window, counted, passed, aliased, cut>>
  BY DEF RedisPexpire
<1> HIDE DEF r
<1>5. clock + WindowMs \in 0..NoReset /\ clock \in Nat /\ WindowMs = 2
  BY RateLimitAssumption DEF RlInv, LimitShape, NoReset, WindowMs
<1>6. /\ counter' \in [LimitKeys -> [count : Nat, resetAt : 0..NoReset]]
      /\ counter'[k].count = counter[k].count /\ counter'[k].resetAt = clock + WindowMs
      /\ \A j \in LimitKeys \ {k} : counter'[j] = counter[j]
  BY <1>1, <1>4, <1>5 DEF RlInv, LimitShape
<1>7. LimitShape' /\ hit'[h] = r /\ \A o \in Hits \ {h} : hit'[o] = hit[o]
  BY <1>2, <1>3, <1>4, <1>6 DEF RlInv, LimitShape
<1>8. Requesting'
  BY <1>1, <1>2, <1>4, <1>7 DEF RlInv, Requesting, Raised, Key
<1>9. Tally'
  <2>1. ASSUME NEW j \in LimitKeys, NEW w \in Windows PROVE Passing(j, w)' = Passing(j, w)
    <3>1. h \in Passing(j, w)' <=> h \in Passing(j, w)
      BY <1>1, <1>2, <1>7 DEF Passing, Raised, Key
    <3>2. Passing(j, w)' \ {h} = Passing(j, w) \ {h}
      BY <1>7, OthersPass
    <3> QED
      BY <3>1, <3>2
  <2>2. \A j \in LimitKeys : counter'[j].count \in {0, counter[j].count}
    BY <1>6
  <2> QED
    BY <1>4, <2>1, <2>2, TallyStays
<1>10. Ending'
  <2>1. clock + WindowMs > clock /\ clock + WindowMs <= clock + WindowMs
    BY <1>5
  <2>2. ASSUME NEW j \in LimitKeys, counter'[j].count # 0 PROVE counter'[j].resetAt > clock
    BY <1>1, <1>6, <2>1, <2>2 DEF RlInv, Ending
  <2>3. ASSUME ~cut, NEW j \in LimitKeys, counter'[j].resetAt > clock + WindowMs
        PROVE  \E o \in Hits : hit'[o].pc = "unset" /\ Key(o)' = j
    <3>1. j # k /\ counter[j].resetAt > clock + WindowMs
      BY <1>6, <2>1, <2>3, <1>5
    <3>2. PICK o \in Hits : hit[o].pc = "unset" /\ Key(o) = j
      BY <1>5, <2>3, <3>1 DEF RlInv, Ending, LimitShape
    <3>3. o # h
      BY <3>1, <3>2
    <3> QED
      BY <1>7, <3>2, <3>3 DEF Key
  <2>4. \A j \in LimitKeys : counter'[j].resetAt \in Nat
    BY <1>6
  <2> QED
    BY <1>4, <1>5, <2>2, <2>3, <2>4 DEF Ending
<1> QED
  BY <1>7, <1>8, <1>9, <1>10 DEF RlInv

LEMMA CutKeeps ==
  ASSUME RlInv, NEW h \in Hits, RedisCut(h)
  PROVE  RlInv'
<1>1. /\ hit[h].pc = "unset" /\ hit' = [hit EXCEPT ![h] = NoHit] /\ cut'
      /\ UNCHANGED <<store, clock, counter, window, counted, passed, aliased>>
  BY DEF RedisCut
<1>2. LimitShape'
  BY <1>1, NoHitType DEF RlInv, LimitShape, RedisCut
<1>3. hit'[h] = NoHit /\ \A o \in Hits \ {h} : hit'[o] = hit[o]
  BY <1>1 DEF RlInv, LimitShape
<1>4. Requesting'
  BY <1>1, <1>3, NoHitType DEF RlInv, Requesting, Raised, Key, LimitShape
<1>5. ASSUME NEW k \in LimitKeys, NEW w \in Windows PROVE Tallied(k, w)'
  <2>1. Passing(k, w)' \subseteq Passing(k, w)
    <3>1. h \notin Passing(k, w)'
      BY <1>3, NoHitType DEF Passing, Raised
    <3> QED
      BY <1>3, <3>1, OthersPass
  <2>2. Tallied(k, w) /\ passed[k][w] \in Nat
    BY DEF RlInv, Tally, LimitShape
  <2>3. /\ IsFiniteSet(Passing(k, w)') /\ Cardinality(Passing(k, w)) \in Nat
        /\ Cardinality(Passing(k, w)') \in Nat /\ Cardinality(Passing(k, w)') <= Cardinality(Passing(k, w))
    BY <2>1, <2>2, FS_Subset, FS_CardinalityType DEF Tallied
  <2>4. Within(counted[k][w]) \in Nat
    BY RateLimitAssumption DEF Within, RlInv, LimitShape
  <2> QED
    BY <1>1, <2>2, <2>3, <2>4 DEF Tallied, Within
<1>6. Tally'
  BY <1>1, <1>5 DEF RlInv, Tally
<1>7. Ending'
  BY <1>1 DEF RlInv, Ending
<1> QED
  BY <1>2, <1>4, <1>6, <1>7 DEF RlInv

LEMMA DecideKeeps ==
  ASSUME RlInv, NEW h \in Hits, Decide(h)
  PROVE  RlInv'
<1> DEFINE k == Key(h)
           v == hit[h].window
           passes == hit[h].count <= MaxHits
           again == [NoHit EXCEPT !.pc = "asked", !.chain = Tail(hit[h].chain), !.began = clock]
           r == IF passes /\ Len(hit[h].chain) # 1 THEN again ELSE NoHit
<1>1. /\ hit[h].pc = "counted" /\ UNCHANGED <<store, clock, counter, window, counted, aliased, cut>>
  BY DEF Decide
<1>2. /\ k \in LimitKeys /\ v \in Windows /\ Raised(h) /\ hit[h].count \in Nat /\ MaxHits \in Nat
      /\ hit[h].chain \in Seq(LimitKeys) /\ hit[h].chain # <<>>
  BY <1>1, KeyType, RateLimitAssumption DEF RlInv, LimitShape, HitType, Requesting, Raised
<1>3. /\ passes => passed' = [passed EXCEPT ![k][v] = @ + 1]
      /\ ~passes => passed' = passed
      /\ hit' = [hit EXCEPT ![h] = r]
  <2>1. hit \in [Hits -> HitType] /\ passes \in BOOLEAN
    BY <1>2 DEF RlInv, LimitShape
  <2>2. passes <=> ~(hit[h].count > MaxHits)
    BY <1>2
  <2>3. CASE passes
    <3>1. hit' = [hit EXCEPT ![h] = IF Len(hit[h].chain) = 1 THEN NoHit ELSE again]
      BY <2>1, <2>2, <2>3 DEF Decide
    <3>2. passed' = [passed EXCEPT ![k][v] = @ + 1]
      BY <2>2, <2>3 DEF Decide
    <3> QED
      BY <2>3, <3>1, <3>2
  <2>4. CASE ~passes
    BY <2>2, <2>4 DEF Decide
  <2> QED
    BY <2>1, <2>3, <2>4
<1>4. /\ r \in HitType /\ r.pc \in {"idle", "asked"} /\ r.began <= clock
      /\ r.pc # "idle" => r.chain # <<>>
  <2>1. clock \in Nat /\ NoHit.began <= clock /\ clock <= clock
    BY NoHitType, RateLimitAssumption DEF RlInv, LimitShape
  <2>2. Tail(hit[h].chain) \in Seq(LimitKeys) /\ (Len(hit[h].chain) # 1 => Tail(hit[h].chain) # <<>>)
    <3> DEFINE ch == hit[h].chain
    <3>1. ch \in Seq(LimitKeys) /\ ch # <<>>
      BY <1>2
    <3> HIDE DEF ch
    <3>2. Tail(ch) \in Seq(LimitKeys) /\ Len(Tail(ch)) = Len(ch) - 1 /\ Len(ch) \in Nat
      BY <3>1, HeadTailProperties
    <3>3. Len(<<>>) = 0
      OBVIOUS
    <3>4. Len(ch) # 1 => Len(Tail(ch)) # 0
      BY <3>2
    <3> QED
      BY <3>2, <3>3, <3>4 DEF ch
  <2>3. again \in HitType /\ again.pc = "asked" /\ again.chain = Tail(hit[h].chain) /\ again.began = clock
    BY <2>2, AskedType DEF RlInv
  <2> HIDE DEF again
  <2> QED
    BY <2>1, <2>2, <2>3, NoHitType
<1> HIDE DEF r
<1>5. passed' \in [LimitKeys -> [Windows -> Nat]]
  <2>1. passed \in [LimitKeys -> [Windows -> Nat]]
    BY DEF RlInv, LimitShape
  <2>2. k \in LimitKeys /\ v \in Windows
    BY <1>2
  <2> HIDE DEF passes, k, v
  <2>3. CASE passes
    <3>1. passed' = [passed EXCEPT ![k][v] = @ + 1]
      BY <1>3, <2>3
    <3> QED
      BY <2>1, <2>2, <3>1
  <2>4. CASE ~passes
    BY <1>3, <2>1, <2>4
  <2> QED
    BY <2>3, <2>4
<1>6. LimitShape' /\ hit'[h] = r /\ \A o \in Hits \ {h} : hit'[o] = hit[o]
  BY <1>1, <1>3, <1>4, <1>5 DEF RlInv, LimitShape
<1>7. Requesting'
  BY <1>1, <1>4, <1>6 DEF RlInv, Requesting, Raised, Key
<1>8. ~Raised(h)'
  BY <1>4, <1>6 DEF Raised
<1>9. ASSUME NEW j \in LimitKeys, NEW w \in Windows PROVE Tallied(j, w)'
  <2>1. Passing(j, w)' = Passing(j, w) \ {h}
    <3>1. h \notin Passing(j, w)'
      BY <1>8 DEF Passing
    <3> QED
      BY <1>6, <3>1, OthersPass
  <2>2. Tallied(j, w) /\ passed[j][w] \in Nat /\ passed'[j][w] \in Nat
    BY <1>5 DEF RlInv, Tally, LimitShape
  <2>3. Cardinality(Passing(j, w)) \in Nat
    BY <2>2, FS_CardinalityType DEF Tallied
  <2>4. CASE passes /\ j = k /\ w = v
    <3>1. h \in Passing(j, w)
      BY <1>2, <2>4 DEF Passing
    <3>2. IsFiniteSet(Passing(j, w)') /\ Cardinality(Passing(j, w)') = Cardinality(Passing(j, w)) - 1
      BY <2>1, <2>2, <3>1, FS_RemoveElement DEF Tallied
    <3>3. passed'[j][w] = passed[j][w] + 1
      BY <1>2, <1>3, <2>4 DEF RlInv, LimitShape
    <3> QED
      BY <1>1, <2>2, <2>3, <3>2, <3>3 DEF Tallied, Within
  <2>5. CASE ~(passes /\ j = k /\ w = v)
    <3>1. Passing(j, w)' = Passing(j, w)
      BY <2>1, <2>5 DEF Passing
    <3>2. passed'[j][w] = passed[j][w]
      BY <1>2, <1>3, <2>5 DEF RlInv, LimitShape
    <3> QED
      BY <1>1, <2>2, <3>1, <3>2 DEF Tallied, Within
  <2> QED
    BY <2>4, <2>5
<1>10. Tally'
  BY <1>1, <1>9 DEF RlInv, Tally, Windows
<1>11. Ending'
  BY <1>1, <1>6 DEF RlInv, Ending, Key
<1> QED
  BY <1>6, <1>7, <1>10, <1>11 DEF RlInv

LEMMA CleanupKeeps ==
  ASSUME RlInv, Cleanup
  PROVE  RlInv'
<1>1. /\ store = "memory" /\ UNCHANGED <<store, clock, window, hit, counted, passed, aliased, cut>>
      /\ \A k \in LimitKeys : counter'[k] = IF Expired(k) THEN [count |-> 0, resetAt |-> 0] ELSE counter[k]
  BY DEF Cleanup
<1>2. 0 \in 0..NoReset
  BY RateLimitAssumption DEF NoReset, WindowMs
<1>3. counter' \in [LimitKeys -> [count : Nat, resetAt : 0..NoReset]]
  BY <1>2 DEF Cleanup, RlInv, LimitShape
<1>4. LimitShape'
  BY <1>1, <1>3 DEF RlInv, LimitShape
<1>5. Requesting'
  BY <1>1 DEF RlInv, Requesting, Raised, Key
<1>6. Tally'
  <2>1. \A k \in LimitKeys : counter'[k].count \in {0, counter[k].count}
    BY <1>1
  <2>2. \A k \in LimitKeys, w \in Windows : Passing(k, w)' = Passing(k, w)
    BY <1>1 DEF Passing, Raised, Key
  <2> QED
    BY <1>1, <2>1, <2>2, TallyStays
<1>7. Ending'
  <2>1. ASSUME NEW j \in LimitKeys
        PROVE  counter'[j].resetAt <= counter[j].resetAt \/ counter'[j].resetAt <= clock + WindowMs
    <3>1. counter[j].resetAt \in Nat
      BY DEF RlInv, LimitShape
    <3> QED
      BY <1>1, <3>1
  <2> QED
    BY <1>1, <1>4, <2>1, EndingAtOnce
<1> QED
  BY <1>4, <1>5, <1>6, <1>7 DEF RlInv

LEMMA TickKeeps ==
  ASSUME RlInv, RlTick
  PROVE  RlInv'
<1>1. /\ UNCHANGED <<store, window, hit, counted, passed, aliased, cut>> /\ clock' = clock + 1
      /\ clock < MaxClock /\ clock \in 0..MaxClock /\ MaxClock \in Nat /\ clock' \in 0..MaxClock
  BY RateLimitAssumption DEF RlTick, RlInv, LimitShape
<1>2. \A k \in LimitKeys : counter'[k] = IF store = "redis" /\ counter[k].resetAt <= clock'
                                         THEN [count |-> 0, resetAt |-> 0] ELSE counter[k]
  BY DEF RlTick
<1>3. 0 \in 0..NoReset
  BY RateLimitAssumption DEF NoReset, WindowMs
<1>4. counter' \in [LimitKeys -> [count : Nat, resetAt : 0..NoReset]]
  BY <1>3 DEF RlTick, RlInv, LimitShape
<1>5. LimitShape'
  BY <1>1, <1>4 DEF RlInv, LimitShape
<1>6. Requesting'
  <2>1. \A h \in Hits : hit[h].began \in Nat
    BY DEF RlInv, LimitShape, HitType
  <2> QED
    BY <1>1, <2>1 DEF RlInv, Requesting, Raised, Key
<1>7. Tally'
  <2>1. \A k \in LimitKeys : counter'[k].count \in {0, counter[k].count}
    BY <1>2
  <2>2. \A k \in LimitKeys, w \in Windows : Passing(k, w)' = Passing(k, w)
    BY <1>1 DEF Passing, Raised, Key
  <2> QED
    BY <1>1, <2>1, <2>2, TallyStays
<1>8. Ending'
  <2>1. \A k \in LimitKeys : counter[k].resetAt \in Nat /\ clock \in Nat /\ WindowMs = 2
    BY <1>1 DEF RlInv, LimitShape, WindowMs
  <2>2. ASSUME store = "redis", NEW k \in LimitKeys, counter'[k].count # 0 PROVE counter'[k].resetAt > clock'
    BY <1>1, <1>2, <2>1, <2>2
  <2>3. ASSUME ~cut, NEW k \in LimitKeys
        PROVE  \/ counter'[k].resetAt <= clock' + WindowMs
               \/ \E h \in Hits : hit'[h].pc = "unset" /\ Key(h)' = k
    <3>1. counter'[k].resetAt <= counter[k].resetAt /\ counter'[k].resetAt \in Nat
      BY <1>2, <2>1
    <3>2. CASE counter[k].resetAt <= clock + WindowMs
      BY <1>1, <2>1, <3>1, <3>2
    <3>3. CASE \E h \in Hits : hit[h].pc = "unset" /\ Key(h) = k
      BY <1>1, <3>3 DEF Key
    <3> QED
      BY <2>3, <3>2, <3>3 DEF RlInv, Ending
  <2> QED
    BY <1>1, <2>2, <2>3 DEF Ending
<1> QED
  BY <1>5, <1>6, <1>7, <1>8 DEF RlInv

LEMMA LimitsStep == RlInv /\ [RlNext]_rlVars => RlInv'
<1> SUFFICES ASSUME RlInv, [RlNext]_rlVars PROVE RlInv'
  OBVIOUS
<1>1. CASE UNCHANGED rlVars
  <2> USE <1>1 DEF rlVars, RlInv
  <2>1. LimitShape' /\ Requesting' /\ Ending'
    BY DEF LimitShape, Requesting, Raised, Key, Ending
  <2>2. \A k \in LimitKeys, w \in Windows : Passing(k, w)' = Passing(k, w)
    BY DEF Passing, Raised, Key
  <2>3. Tally'
    BY <2>2, TallyStays
  <2> QED
    BY <2>1, <2>3
<1> QED
  BY <1>1, TickKeeps, CleanupKeeps, HitKeeps, PostgresKeeps, RedisIncrKeeps, PexpireKeeps,
     CutKeeps, MemoryKeeps, DecideKeeps
  DEF RlNext

LEMMA LimitsImplied == RlInv => RateLimitSound
<1> SUFFICES ASSUME RlInv PROVE RateLimitSound
  OBVIOUS
<1>1. ASSUME NEW k \in LimitKeys, NEW w \in Windows
      PROVE  /\ passed[k][w] <= MaxHits
             /\ (\A h \in Hits : hit[h].pc = "idle") /\ ~aliased /\ ~cut => passed[k][w] = Within(counted[k][w])
  <2>1. Tallied(k, w) /\ passed[k][w] \in Nat /\ counted[k][w] \in Nat /\ MaxHits \in Nat
    BY RateLimitAssumption DEF RlInv, Tally, LimitShape
  <2>2. Cardinality(Passing(k, w)) \in Nat
    BY <2>1, FS_CardinalityType DEF Tallied
  <2>3. (\A h \in Hits : hit[h].pc = "idle") => Cardinality(Passing(k, w)) = 0
    <3>1. (\A h \in Hits : hit[h].pc = "idle") => Passing(k, w) = {}
      BY DEF Passing, Raised
    <3> QED
      BY <3>1, FS_EmptySet
  <2> QED
    BY <2>1, <2>2, <2>3 DEF Tallied, Within
<1>2. \A h \in Hits : hit[h].pc = "counted" => hit[h].began < hit[h].until
  BY DEF RlInv, Requesting, Raised
<1>3. (\A h \in Hits : hit[h].pc = "idle") /\ ~cut => \A k \in LimitKeys : counter[k].resetAt <= clock + WindowMs
  BY DEF RlInv, Ending
<1> QED
  BY <1>1, <1>2, <1>3 DEF RateLimitSound, Within

-----------------------------------------------------------------------------
(* The stores of the platform keep their promises, whatever the limits,    *)
(* the chains of limiters, the requests, the buckets and the uploads: no   *)
(* limiter passes more than its maximum in a window or refuses anybody     *)
(* before (packages/core/src/firewall/rate-limit.ts); a bucket has one     *)
(* check at a time, exists while the client says so, and is provisioned    *)
(* anew after an upload has missed it (packages/s3/src/blob-client.ts).    *)
THEOREM StoresHold == PlatformSpec => []StoresSound
<1>1. PlatformInit => OsInv /\ RlInv
  BY BucketsStart, LimitsStart DEF PlatformInit
<1>2. (OsInv /\ RlInv) /\ [PlatformNext]_PlatformVars => (OsInv /\ RlInv)'
  <2> SUFFICES ASSUME OsInv, RlInv, [PlatformNext]_PlatformVars PROVE OsInv' /\ RlInv'
    OBVIOUS
  <2>1. [OsNext]_osVars /\ [RlNext]_rlVars
    BY DEF PlatformNext, PlatformVars
  <2> QED
    BY <2>1, BucketsStep, LimitsStep
<1>3. OsInv /\ RlInv => StoresSound
  BY BucketsImplied, LimitsImplied DEF StoresSound, Of
<1> QED
  BY <1>1, <1>2, <1>3, PTL DEF PlatformSpec
-----------------------------------------------------------------------------
(* Game servers: GameServers                                               *)

GsWorkload == [of : GameRevisions, desired : {"none", "running", "stopped"},
               actual : {"none", "pending", "running", "stopped", "failed", "unknown"}]
GsCommand == [start : CommandStatus, stop : CommandStatus, ask : CommandStatus]
GsShape ==
  /\ gameServer \in [kind : Kinds, status : GameStatus]
  /\ gameDesired \in [GameRevisions -> GameDesired]
  /\ gameWorkload \in [GameRows -> GsWorkload]
  /\ gameCommand \in [GameRows -> GsCommand]
  /\ gameContainer \subseteq GameRows
  /\ gameCall \in [GameCalls -> GameCallType]
  /\ gameRaced \in BOOLEAN /\ gameBypassed \in BOOLEAN

(* Outside races the handler of a request is alone, and no start is on its *)
(* way.                                                                    *)
OneAtATime ==
  \A c \in GameCalls : gameCall[c].pc \notin {"idle", "report"} =>
    ~StartOpen /\ \A d \in GameCalls \ {c} : gameCall[d].pc = "idle"

(* A start is for a wanted workload of a deployment that is to run, and a  *)
(* stop for one that is not wanted; a server that is deleted wants none,   *)
(* and a container that is not wanted has its stop.                        *)
StartsWanted ==
  \A w \in GameRows : Open(gameCommand[w].start) =>
    w \in WantedRows /\ gameDesired[gameWorkload[w].of] = "running"
StopsUnwanted ==
  /\ \A w \in WantedRows : gameCommand[w].stop = "none"
  /\ \A w \in gameContainer : \/ w \in WantedRows \/ Open(gameCommand[w].stop)
                              \/ gameCommand[w].stop = "failed"
DeletedUnwanted ==
  gameServer.kind # "managed" \/ (\E c \in GameCalls : CallAt(c, "delete")) => WantedRows = {}
WantedOnly == StartsWanted /\ StopsUnwanted /\ DeletedUnwanted

(* "running" is written after a wanted workload has started, and lasts     *)
(* until it is stopped, or a route of deployments is used.                 *)
Started(w) == gameCommand[w].start = "succeeded" /\ gameDesired[gameWorkload[w].of] = "running"
SomeStarted == \E w \in WantedRows : Started(w)
ToldStarted ==
  /\ gameServer.kind = "managed" /\ gameServer.status = "running" /\ ~gameBypassed =>
       SomeStarted \/ \E c \in GameCalls : gameCall[c].pc \in {"stopRows", "stopped"}
  /\ \A c \in GameCalls : CallAt(c, "report") /\ gameCall[c].outcome = "running" => SomeStarted
  /\ \A c \in GameCalls : gameCall[c].pc \in {"restartRows", "supersede"} => gameBypassed

GsInv == GsShape /\ (~gameRaced => OneAtATime /\ WantedOnly /\ ToldStarted)

LEMMA GamesStart == GsInit => GsInv
<1> SUFFICES ASSUME GsInit PROVE GsInv
  OBVIOUS
<1>1. GsShape
  BY GameServersAssumption DEF GsInit, GsShape, GsWorkload, GsCommand, Kinds, GameStatus, GameDesired, NoWorkload,
     NoCommands, NoGameCall, GameCallType, CommandStatus
<1>2. /\ WantedRows = {} /\ ~StartOpen /\ \A c \in GameCalls : gameCall[c].pc = "idle"
      /\ \A w \in GameRows : ~Open(gameCommand[w].start)
  BY DEF GsInit, WantedRows, StartOpen, Open, NoWorkload, NoCommands, NoGameCall
<1>3. OneAtATime /\ WantedOnly /\ ToldStarted
  BY <1>2 DEF GsInit, OneAtATime, WantedOnly, StartsWanted, StopsUnwanted, DeletedUnwanted, ToldStarted, GameBusy,
     CallAt
<1> QED
  BY <1>1, <1>3 DEF GsInv

LEMMA GamesStopped ==
  ASSUME GsShape, NEW rows \in SUBSET WantedRows, StopRows(rows)
  PROVE  /\ gameWorkload' \in [GameRows -> GsWorkload] /\ gameCommand' \in [GameRows -> GsCommand]
         /\ WantedRows' = WantedRows \ rows
         /\ \A w \in GameRows : /\ gameCommand'[w].start = gameCommand[w].start
                                /\ gameWorkload'[w].of = gameWorkload[w].of
         /\ \A w \in rows : gameCommand'[w].stop = "pending"
         /\ \A w \in GameRows \ rows : gameCommand'[w] = gameCommand[w]
<1>1. gameWorkload \in [GameRows -> GsWorkload] /\ gameCommand \in [GameRows -> GsCommand]
  BY DEF GsShape
<1>2. ASSUME NEW w \in GameRows
      PROVE  /\ [gameWorkload[w] EXCEPT !.desired = "stopped"] \in GsWorkload
             /\ [gameWorkload[w] EXCEPT !.desired = "stopped"].desired = "stopped"
             /\ [gameWorkload[w] EXCEPT !.desired = "stopped"].of = gameWorkload[w].of
             /\ [gameCommand[w] EXCEPT !.stop = "pending"] \in GsCommand
             /\ [gameCommand[w] EXCEPT !.stop = "pending"].start = gameCommand[w].start
             /\ [gameCommand[w] EXCEPT !.stop = "pending"].stop = "pending"
  BY <1>1 DEF GsWorkload, GsCommand, CommandStatus
<1>3. gameWorkload' \in [GameRows -> GsWorkload] /\ gameCommand' \in [GameRows -> GsCommand]
  BY <1>1, <1>2 DEF StopRows
<1>4. WantedRows' = WantedRows \ rows
  BY <1>2 DEF StopRows, WantedRows
<1> QED
  BY <1>2, <1>3, <1>4 DEF StopRows, WantedRows

(* What is stopped gets a stop, which keeps the rest as it was.            *)
LEMMA GamesRetired ==
  ASSUME GsShape, StopsUnwanted, NEW rows \in SUBSET WantedRows, StopRows(rows), UNCHANGED gameContainer
  PROVE  StopsUnwanted'
<1>1. /\ WantedRows' = WantedRows \ rows
      /\ \A w \in rows : gameCommand'[w].stop = "pending"
      /\ \A w \in GameRows \ rows : gameCommand'[w] = gameCommand[w]
      /\ WantedRows \subseteq GameRows /\ gameContainer \subseteq GameRows
  BY GamesStopped DEF WantedRows, GsShape
<1> QED
  BY <1>1 DEF StopsUnwanted, Open

(* A pass stops all of a deployment, or places its only workload.          *)
LEMMA GamesReconciled ==
  ASSUME GsShape, NEW r \in GameRevisions, ReconcileGame(r)
  PROVE  /\ gameWorkload' \in [GameRows -> GsWorkload] /\ gameCommand' \in [GameRows -> GsCommand]
         /\ gameServer.kind = "managed"
         /\ \/ gameDesired[r] # "running" /\ StopRows(RowsOf(r))
            \/ /\ gameDesired[r] = "running"
               /\ \E w \in GameRows \ WantedRows :
                    /\ WantedRows' = WantedRows \cup {w} /\ gameWorkload'[w].of = r
                    /\ gameCommand[w].stop = "none" /\ gameCommand'[w].stop = "none"
                    /\ \A v \in GameRows \ {w} : /\ gameCommand'[v] = gameCommand[v]
                                                 /\ gameWorkload'[v] = gameWorkload[v]
<1>1. CASE gameDesired[r] \in {"stopped", "superseded"} /\ StopRows(RowsOf(r))
  <2>1. RowsOf(r) \in SUBSET WantedRows
    BY DEF RowsOf
  <2> QED
    BY <1>1, <2>1, GamesStopped DEF ReconcileGame
<1>2. ASSUME NEW w \in GameRows, gameDesired[r] = "running",
             gameWorkload[w] = NoWorkload, gameCommand[w] = NoCommands,
             gameWorkload' = [gameWorkload EXCEPT ![w] = [of |-> r, desired |-> "running", actual |-> "pending"]],
             gameCommand' = [gameCommand EXCEPT ![w].start = "pending"]
      PROVE  /\ gameWorkload' \in [GameRows -> GsWorkload] /\ gameCommand' \in [GameRows -> GsCommand]
             /\ w \notin WantedRows
             /\ WantedRows' = WantedRows \cup {w} /\ gameWorkload'[w].of = r
             /\ gameCommand[w].stop = "none" /\ gameCommand'[w].stop = "none"
             /\ \A v \in GameRows \ {w} : /\ gameCommand'[v] = gameCommand[v]
                                          /\ gameWorkload'[v] = gameWorkload[v]
  <2>1. gameWorkload \in [GameRows -> GsWorkload] /\ gameCommand \in [GameRows -> GsCommand]
    BY DEF GsShape
  <2>2. gameWorkload' \in [GameRows -> GsWorkload] /\ gameCommand' \in [GameRows -> GsCommand]
    BY <1>2, <2>1 DEF GsWorkload, GsCommand, CommandStatus
  <2>3. w \notin WantedRows /\ WantedRows' = WantedRows \cup {w}
    BY <1>2, <2>1 DEF WantedRows, NoWorkload
  <2> QED
    BY <1>2, <2>1, <2>2, <2>3 DEF NoCommands, GsCommand
<1> QED
  BY <1>1, <1>2 DEF ReconcileGame

(* A pass keeps what has started in a deployment that is to run.           *)
LEMMA GamesPassed ==
  ASSUME GsShape, WantedOnly, NEW r \in GameRevisions, ReconcileGame(r),
         ~\E c \in GameCalls : CallAt(c, "delete"), ~\E c \in GameCalls : CallAt(c, "delete")',
         UNCHANGED <<gameServer, gameDesired, gameContainer>>
  PROVE  WantedOnly' /\ (SomeStarted => SomeStarted')
<1>1. CASE gameDesired[r] # "running" /\ StopRows(RowsOf(r))
  <2>1. RowsOf(r) \in SUBSET WantedRows /\ WantedRows \subseteq GameRows
    BY DEF RowsOf, WantedRows
  <2>2. /\ WantedRows' = WantedRows \ RowsOf(r)
        /\ \A w \in GameRows : /\ gameCommand'[w].start = gameCommand[w].start
                               /\ gameWorkload'[w].of = gameWorkload[w].of
    BY <1>1, <2>1, GamesStopped
  <2>3. \A w \in RowsOf(r) : gameWorkload[w].of = r
    BY DEF RowsOf
  <2>4. StopsUnwanted'
    BY <1>1, <2>1, GamesRetired DEF WantedOnly
  <2>5. StartsWanted'
    BY <1>1, <2>1, <2>2, <2>3 DEF WantedOnly, StartsWanted
  <2>6. DeletedUnwanted'
    BY <2>2, GamesReconciled DEF DeletedUnwanted
  <2>7. SomeStarted => SomeStarted'
    BY <1>1, <2>1, <2>2, <2>3 DEF SomeStarted, Started
  <2> QED
    BY <2>4, <2>5, <2>6, <2>7 DEF WantedOnly
<1>2. ASSUME gameDesired[r] = "running", NEW w \in GameRows \ WantedRows,
             WantedRows' = WantedRows \cup {w}, gameWorkload'[w].of = r,
             gameCommand[w].stop = "none", gameCommand'[w].stop = "none",
             \A v \in GameRows \ {w} : /\ gameCommand'[v] = gameCommand[v]
                                       /\ gameWorkload'[v] = gameWorkload[v]
      PROVE  WantedOnly' /\ (SomeStarted => SomeStarted')
  <2>1. WantedRows \subseteq GameRows /\ gameContainer \subseteq GameRows
    BY DEF WantedRows, GsShape
  <2>2. StopsUnwanted'
    BY <1>2, <2>1 DEF WantedOnly, StopsUnwanted
  <2>3. StartsWanted'
    BY <1>2, <2>1 DEF WantedOnly, StartsWanted
  <2>4. DeletedUnwanted'
    BY GamesReconciled DEF DeletedUnwanted
  <2>5. SomeStarted => SomeStarted'
    BY <1>2, <2>1 DEF SomeStarted, Started
  <2> QED
    BY <2>2, <2>3, <2>4, <2>5 DEF WantedOnly
<1> QED
  BY <1>1, <1>2, GamesReconciled

(* Reports change what is known of a workload, not what is wanted.         *)
LEMMA GamesReported ==
  ASSUME GsShape, NEW w \in GameRows, NEW actual \in {"running", "stopped", "failed", "unknown"},
         SetActual(w, actual)
  PROVE  /\ gameWorkload' \in [GameRows -> GsWorkload] /\ WantedRows' = WantedRows
         /\ \A v \in GameRows : gameWorkload'[v].of = gameWorkload[v].of
<1>1. gameWorkload \in [GameRows -> GsWorkload]
  BY DEF GsShape
<1>2. CASE gameWorkload[w] = NoWorkload
  BY <1>1, <1>2 DEF SetActual, WantedRows
<1>3. CASE gameWorkload[w] # NoWorkload
  <2> DEFINE r == [gameWorkload[w] EXCEPT !.actual = actual]
  <2>1. r \in GsWorkload /\ r.desired = gameWorkload[w].desired /\ r.of = gameWorkload[w].of
    BY <1>1 DEF GsWorkload
  <2>2. gameWorkload' = [gameWorkload EXCEPT ![w] = r]
    BY <1>3 DEF SetActual
  <2> HIDE DEF r
  <2> QED
    BY <1>1, <2>1, <2>2 DEF WantedRows
<1> QED
  BY <1>2, <1>3

LEMMA GamesCommanded ==
  ASSUME GsShape, NEW w \in GameRows, NEW type \in {"start", "stop", "ask"}, NEW status \in CommandStatus,
         gameCommand' = [gameCommand EXCEPT ![w][type] = status]
  PROVE  /\ gameCommand' \in [GameRows -> GsCommand]
         /\ \A v \in GameRows \ {w} : gameCommand'[v] = gameCommand[v]
         /\ gameCommand'[w].start = IF type = "start" THEN status ELSE gameCommand[w].start
         /\ gameCommand'[w].stop = IF type = "stop" THEN status ELSE gameCommand[w].stop
<1>1. gameCommand \in [GameRows -> GsCommand]
  BY DEF GsShape
<1> DEFINE r == [gameCommand[w] EXCEPT ![type] = status]
<1>2. /\ r \in GsCommand
      /\ r.start = IF type = "start" THEN status ELSE gameCommand[w].start
      /\ r.stop = IF type = "stop" THEN status ELSE gameCommand[w].stop
  BY <1>1 DEF GsCommand
<1>3. gameCommand' = [gameCommand EXCEPT ![w] = r]
  OBVIOUS
<1> HIDE DEF r
<1> QED
  BY <1>1, <1>2, <1>3

(* A request that meets nobody.                                            *)
LEMMA GamesAsked ==
  ASSUME GsShape, NEW c \in GameCalls, NEW r \in GameRevisions,
         NEW pc \in {"stopRows", "starting", "reconcile", "delete", "restartRows", "supersede"},
         GameRequest(c, pc, r)
  PROVE  /\ gameCall' \in [GameCalls -> GameCallType] /\ gameRaced' \in BOOLEAN
         /\ ~gameRaced' =>
              /\ ~gameRaced /\ ~StartOpen
              /\ gameCall'[c].pc = pc
              /\ \A d \in GameCalls : gameCall[d].pc = "idle"
              /\ \A d \in GameCalls \ {c} : gameCall'[d].pc = "idle"
<1>1. gameCall' \in [GameCalls -> GameCallType] /\ gameRaced' \in BOOLEAN
  BY DEF GsShape, GameRequest, GameCallType
<1>2. ASSUME ~gameRaced' PROVE ~gameRaced /\ ~StartOpen /\ ~GameBusy
  BY <1>2 DEF GameRequest
<1>3. gameCall'[c].pc = pc /\ \A d \in GameCalls \ {c} : gameCall'[d] = gameCall[d]
  BY DEF GsShape, GameRequest
<1> QED
  BY <1>1, <1>2, <1>3 DEF GameBusy

(* Such a request keeps the invariant if it stops no workload, and no more *)
(* than the desired state of deployments without a pending start.          *)
LEMMA GamesRequested ==
  ASSUME GsInv, NEW c \in GameCalls, NEW r \in GameRevisions,
         NEW pc \in {"stopRows", "starting", "reconcile", "delete", "restartRows", "supersede"},
         GameRequest(c, pc, r), UNCHANGED <<gameWorkload, gameCommand, gameContainer>>,
         gameServer' \in [kind : Kinds, status : GameStatus], gameBypassed' \in BOOLEAN,
         gameDesired' \in [GameRevisions -> GameDesired],
         gameServer'.kind # "managed" \/ pc = "delete" => WantedRows = {},
         pc \in {"restartRows", "supersede"} => gameBypassed',
         \/ gameBypassed' \/ gameServer'.status # "running" \/ pc = "stopRows"
         \/ /\ UNCHANGED <<gameServer, gameBypassed>>
            /\ \A q \in GameRevisions : gameDesired[q] = "running" => gameDesired'[q] = "running"
  PROVE  GsInv'
<1>1. GsShape'
  BY GamesAsked DEF GsInv, GsShape
<1> SUFFICES ASSUME ~gameRaced' PROVE OneAtATime' /\ WantedOnly' /\ ToldStarted'
  BY <1>1 DEF GsInv
<1>2. /\ GsShape /\ OneAtATime /\ WantedOnly /\ ToldStarted /\ ~StartOpen
      /\ gameCall'[c].pc = pc
      /\ \A d \in GameCalls : gameCall[d].pc = "idle"
      /\ \A d \in GameCalls \ {c} : gameCall'[d].pc = "idle"
  BY GamesAsked DEF GsInv
<1>3. WantedRows' = WantedRows /\ StartOpen' = StartOpen /\ WantedRows \subseteq GameRows
  BY DEF WantedRows, StartOpen
<1>4. OneAtATime'
  BY <1>2, <1>3 DEF OneAtATime
<1>5. StartsWanted'
  BY <1>2 DEF StartsWanted, StartOpen
<1>6. StopsUnwanted'
  BY <1>2, <1>3 DEF WantedOnly, StopsUnwanted
<1>7. DeletedUnwanted'
  BY <1>2, <1>3 DEF DeletedUnwanted, CallAt
<1>8. ToldStarted'
  <2>1. ASSUME \A q \in GameRevisions : gameDesired[q] = "running" => gameDesired'[q] = "running"
        PROVE  SomeStarted => SomeStarted'
    <3>1. \A w \in WantedRows : gameWorkload[w].of \in GameRevisions
      BY <1>2, <1>3 DEF GsShape, GsWorkload
    <3> QED
      BY <1>3, <2>1, <3>1 DEF SomeStarted, Started
  <2>2. \A d \in GameCalls : gameCall'[d].pc # "report"
    BY <1>2
  <2>3. \A d \in GameCalls : gameCall'[d].pc \in {"restartRows", "supersede"} => gameBypassed'
    BY <1>2
  <2>4. gameServer'.kind = "managed" /\ gameServer'.status = "running" /\ ~gameBypassed' =>
          SomeStarted' \/ \E d \in GameCalls : gameCall'[d].pc \in {"stopRows", "stopped"}
    BY <1>2, <2>1 DEF ToldStarted
  <2> QED
    BY <2>2, <2>3, <2>4 DEF ToldStarted, CallAt
<1> QED
  BY <1>4, <1>5, <1>6, <1>7, <1>8 DEF WantedOnly

(* A handler that ends or goes on, with the rows as they are.              *)
LEMMA GamesWentOn ==
  ASSUME GsInv, NEW c \in GameCalls, NEW pc \in {"idle", "reconcile"},
         gameCall[c].pc # "idle", gameCall[c].pc = "report" => pc = "idle",
         gameCall' \in [GameCalls -> GameCallType], gameCall'[c].pc = pc,
         \A d \in GameCalls \ {c} : gameCall'[d] = gameCall[d],
         UNCHANGED <<gameWorkload, gameCommand, gameDesired, gameContainer, gameRaced>>,
         gameServer' \in [kind : Kinds, status : GameStatus], gameBypassed' \in BOOLEAN,
         gameServer'.kind = gameServer.kind,
         gameServer'.status = "running" => (CallAt(c, "report") /\ gameCall[c].outcome = "running")
                                           \/ gameServer.kind # "managed"
  PROVE  GsInv'
<1>1. GsShape'
  BY DEF GsInv, GsShape
<1> SUFFICES ASSUME ~gameRaced' PROVE OneAtATime' /\ WantedOnly' /\ ToldStarted'
  BY <1>1 DEF GsInv
<1>2. /\ OneAtATime /\ WantedOnly /\ ToldStarted
      /\ gameCall[c].pc # "report" => ~StartOpen /\ \A d \in GameCalls \ {c} : gameCall[d].pc = "idle"
      /\ \A d \in GameCalls \ {c} : gameCall[d].pc \in {"idle", "report"}
  BY DEF GsInv, OneAtATime
<1>3. WantedRows' = WantedRows /\ StartOpen' = StartOpen /\ (SomeStarted => SomeStarted')
  BY DEF WantedRows, StartOpen, SomeStarted, Started
<1>4. OneAtATime'
  BY <1>2, <1>3 DEF OneAtATime
<1>5. StartsWanted' /\ StopsUnwanted'
  BY <1>2, <1>3 DEF WantedOnly, StartsWanted, StopsUnwanted
<1>6. DeletedUnwanted'
  BY <1>2, <1>3 DEF WantedOnly, DeletedUnwanted, CallAt
<1>7. ToldStarted'
  BY <1>2, <1>3 DEF ToldStarted, CallAt
<1> QED
  BY <1>4, <1>5, <1>6, <1>7 DEF WantedOnly

(* A handler that stops workloads, those of deployments that are not to    *)
(* run any more or while the status is not relied on.                      *)
LEMMA GamesHalted ==
  ASSUME GsInv, NEW c \in GameCalls, gameCall[c].pc \in {"stopRows", "restartRows", "supersede"},
         NEW rows \in SUBSET WantedRows, StopRows(rows),
         gameCall[c].pc = "stopRows" => gameCall'[c].pc = "stopped",
         gameCall[c].pc # "stopRows" => gameCall'[c].pc = "reconcile",
         gameCall' \in [GameCalls -> GameCallType],
         \A d \in GameCalls \ {c} : gameCall'[d] = gameCall[d],
         gameDesired' \in [GameRevisions -> GameDesired],
         UNCHANGED <<gameServer, gameContainer, gameRaced, gameBypassed>>
  PROVE  GsInv'
<1>0. /\ gameWorkload' \in [GameRows -> GsWorkload] /\ gameCommand' \in [GameRows -> GsCommand]
      /\ WantedRows' = WantedRows \ rows
      /\ \A w \in GameRows : gameCommand'[w].start = gameCommand[w].start
  BY GamesStopped DEF GsInv
<1>1. GsShape'
  BY <1>0 DEF GsInv, GsShape
<1> SUFFICES ASSUME ~gameRaced' PROVE OneAtATime' /\ WantedOnly' /\ ToldStarted'
  BY <1>1 DEF GsInv
<1>2. /\ OneAtATime /\ WantedOnly /\ ToldStarted
      /\ \A d \in GameCalls \ {c} : gameCall[d].pc = "idle" /\ gameCall'[d].pc = "idle"
      /\ ~StartOpen
  BY DEF GsInv, OneAtATime
<1>3. StartOpen' = StartOpen
  BY <1>0 DEF StartOpen
<1>4. OneAtATime'
  BY <1>2, <1>3 DEF OneAtATime
<1>5. StartsWanted'
  BY <1>2, <1>3 DEF StartsWanted, StartOpen
<1>6. StopsUnwanted'
  BY <1>2, GamesRetired DEF GsInv, WantedOnly
<1>7. DeletedUnwanted'
  BY <1>0, <1>2 DEF WantedOnly, DeletedUnwanted, CallAt
<1>8. ToldStarted'
  BY <1>2 DEF ToldStarted, CallAt
<1> QED
  BY <1>4, <1>5, <1>6, <1>7, <1>8 DEF WantedOnly

LEMMA GamesStep == GsInv /\ [GsNext]_gsVars => GsInv'
<1> SUFFICES ASSUME GsInv, [GsNext]_gsVars PROVE GsInv'
  OBVIOUS
<1>0. GsShape
  BY DEF GsInv
<1>a. OwnRevision \in GameRevisions
  BY GameServersAssumption
<1>b. \A c \in GameCalls : gameCall[c].of \in GameRevisions
  BY <1>0 DEF GsShape, GameCallType
<1>c. ASSUME NEW c \in GameCalls, NEW pc \in {"reconcile", "stopped"}, GoOn(c, pc)
      PROVE  /\ gameCall' \in [GameCalls -> GameCallType] /\ gameCall'[c].pc = pc
             /\ \A d \in GameCalls \ {c} : gameCall'[d] = gameCall[d]
  BY <1>0, <1>c DEF GsShape, GameCallType, GoOn
<1>d. ASSUME NEW c \in GameCalls, EndGame(c)
      PROVE  /\ gameCall' \in [GameCalls -> GameCallType] /\ gameCall'[c].pc = "idle"
             /\ \A d \in GameCalls \ {c} : gameCall'[d] = gameCall[d]
  BY <1>0, <1>a, <1>d DEF GsShape, GameCallType, EndGame, NoGameCall
<1>e. ASSUME NEW status \in GameStatus, SetGameStatus(status)
      PROVE  /\ gameServer' \in [kind : Kinds, status : GameStatus] /\ gameServer'.kind = gameServer.kind
             /\ gameServer.kind = "managed" => gameServer'.status = status
             /\ gameBypassed' = FALSE
  BY <1>0, <1>e DEF GsShape, SetGameStatus, Kinds
<1>f. ASSUME NEW r \in GameRevisions, NEW desired \in GameDesired,
             gameDesired' = [gameDesired EXCEPT ![r] = desired]
      PROVE  /\ gameDesired' \in [GameRevisions -> GameDesired]
             /\ desired = "running" =>
                  \A q \in GameRevisions : gameDesired[q] = "running" => gameDesired'[q] = "running"
  BY <1>0, <1>f DEF GsShape
<1>1. ASSUME NEW c \in GameCalls, CreateServer(c) PROVE GsInv'
  <2>1. gameRaced' \/ WantedRows = {}
    BY <1>1 DEF CreateServer, GameRequest, GsInv, WantedOnly, DeletedUnwanted
  <2>2. gameDesired' \in [GameRevisions -> GameDesired]
    BY <1>1, <1>a, <1>f DEF CreateServer, GameDesired
  <2>3. /\ gameServer' \in [kind : Kinds, status : GameStatus] /\ gameServer'.kind = "managed"
        /\ gameServer'.status # "running" /\ gameBypassed' \in BOOLEAN
    BY <1>1 DEF CreateServer, Kinds, GameStatus
  <2> QED
    BY <1>1, <1>a, <2>2, <2>3, GamesRequested DEF CreateServer
<1>2. ASSUME NEW c \in GameCalls, StopServer(c) PROVE GsInv'
  <2>1. gameDesired' \in [GameRevisions -> GameDesired]
    BY <1>0, <1>2 DEF StopServer, GsShape, GameDesired
  <2> QED
    BY <1>0, <1>2, <1>a, <2>1, GamesRequested DEF StopServer, GsShape
<1>3. ASSUME NEW c \in GameCalls, StopServerRows(c) PROVE GsInv'
  BY <1>0, <1>3, <1>c, GamesHalted DEF StopServerRows, CallAt, GsShape
<1>4. ASSUME NEW c \in GameCalls, ServerStopped(c) PROVE GsInv'
  <2>1. "stopped" \in GameStatus
    BY DEF GameStatus
  <2> QED
    BY <1>4, <1>d, <1>e, <2>1, GamesWentOn DEF ServerStopped, CallAt
<1>5. ASSUME NEW c \in GameCalls, StartServer(c) PROVE GsInv'
  <2>1. "running" \in GameDesired
    BY DEF GameDesired
  <2> QED
    BY <1>0, <1>5, <1>a, <1>f, <2>1, GamesRequested DEF StartServer, GsShape
<1>6. ASSUME NEW c \in GameCalls, ServerStarting(c) PROVE GsInv'
  <2>1. "provisioning" \in GameStatus
    BY DEF GameStatus
  <2> QED
    BY <1>6, <1>c, <1>e, <2>1, GamesWentOn DEF ServerStarting, CallAt
<1>7. ASSUME NEW c \in GameCalls, ReconcileServer(c) PROVE GsInv'
  <2>1. /\ gameCall' \in [GameCalls -> GameCallType] /\ gameCall'[c].pc = "idle"
        /\ \A d \in GameCalls \ {c} : gameCall'[d] = gameCall[d]
    BY <1>7, <1>d DEF ReconcileServer
  <2>2. CASE UNCHANGED <<gameWorkload, gameCommand>>
    <3>1. GsShape'
      BY <1>0, <1>7, <2>1, <2>2 DEF ReconcileServer, GsShape
    <3>2. ASSUME ~gameRaced' PROVE OneAtATime' /\ WantedOnly' /\ ToldStarted'
      <4>1. /\ OneAtATime /\ WantedOnly /\ ToldStarted /\ gameCall[c].pc = "reconcile"
            /\ \A d \in GameCalls : gameCall'[d].pc = "idle"
        BY <1>7, <2>1, <3>2 DEF ReconcileServer, CallAt, GsInv, OneAtATime
      <4>2. \A d \in GameCalls \ {c} : gameCall[d].pc = "idle"
        BY <4>1 DEF OneAtATime
      <4>3. WantedRows' = WantedRows /\ (SomeStarted => SomeStarted')
        BY <1>7, <2>2 DEF ReconcileServer, WantedRows, SomeStarted, Started
      <4> QED
        BY <1>7, <2>2, <4>1, <4>2, <4>3
        DEF ReconcileServer, OneAtATime, GameBusy, WantedOnly, StartsWanted, StopsUnwanted, DeletedUnwanted,
            ToldStarted, CallAt
    <3> QED
      BY <3>1, <3>2 DEF GsInv
  <2>3. CASE ReconcileGame(gameCall[c].of)
    <3>1. GsShape'
      BY <1>0, <1>7, <1>b, <2>1, <2>3, GamesReconciled DEF ReconcileServer, GsShape
    <3>2. ASSUME ~gameRaced' PROVE OneAtATime' /\ WantedOnly' /\ ToldStarted'
      <4>1. /\ OneAtATime /\ WantedOnly /\ ToldStarted /\ gameCall[c].pc = "reconcile"
            /\ \A d \in GameCalls : gameCall'[d].pc = "idle"
        BY <1>7, <2>1, <3>2 DEF ReconcileServer, CallAt, GsInv, OneAtATime
      <4>2. \A d \in GameCalls \ {c} : gameCall[d].pc = "idle"
        BY <4>1 DEF OneAtATime
      <4>3. WantedOnly' /\ (SomeStarted => SomeStarted')
        BY <1>0, <1>7, <1>b, <2>3, <4>1, <4>2, GamesPassed DEF ReconcileServer, CallAt
      <4> QED
        BY <1>7, <4>1, <4>2, <4>3 DEF ReconcileServer, OneAtATime, GameBusy, ToldStarted, CallAt
    <3> QED
      BY <3>1, <3>2 DEF GsInv
  <2> QED
    BY <1>7, <2>2, <2>3 DEF ReconcileServer
<1>8. ASSUME NEW c \in GameCalls, DeleteServer(c) PROVE GsInv'
  BY <1>0, <1>8, <1>a, GamesRequested DEF DeleteServer, GsShape
<1>9. ASSUME NEW c \in GameCalls, ServerDeleted(c) PROVE GsInv'
  <2>1. NoWorkload \in GsWorkload /\ "none" \in GameDesired
    BY <1>a DEF NoWorkload, GsWorkload, GameDesired
  <2>2. /\ gameServer' \in [kind : Kinds, status : GameStatus] /\ gameServer'.kind = "none"
    BY <1>0, <1>9 DEF ServerDeleted, GsShape, Kinds
  <2>3. GsShape'
    BY <1>0, <1>9, <1>d, <2>1, <2>2 DEF ServerDeleted, GsShape
  <2>4. ASSUME ~gameRaced' PROVE OneAtATime' /\ WantedOnly' /\ ToldStarted'
    <3>1. /\ OneAtATime /\ WantedOnly /\ ToldStarted /\ WantedRows = {} /\ ~StartOpen
          /\ \A d \in GameCalls : gameCall'[d].pc = "idle"
      BY <1>9, <1>d, <2>4 DEF ServerDeleted, CallAt, GsInv, OneAtATime, GameBusy, WantedOnly, DeletedUnwanted
    <3>2. WantedRows' = {} /\ StartOpen' = StartOpen
      BY <1>9 DEF ServerDeleted, WantedRows, NoWorkload, StartOpen
    <3> QED
      BY <1>9, <2>2, <3>1, <3>2
      DEF ServerDeleted, OneAtATime, GameBusy, WantedOnly, StartsWanted, StopsUnwanted, DeletedUnwanted,
          ToldStarted, CallAt, StartOpen
  <2> QED
    BY <2>3, <2>4 DEF GsInv
<1>10. ASSUME NEW c \in GameCalls, StartReported(c) PROVE GsInv'
  <2>1. gameCall[c].outcome \in GameStatus /\ gameCall[c].outcome \in {"running", "failed"}
    BY <1>0 DEF GsShape, GameCallType, GameStatus
  <2>2. gameServer'.status = "running" => gameCall[c].outcome = "running" \/ gameServer.kind # "managed"
    BY <1>10, <1>e, <2>1 DEF StartReported
  <2> QED
    BY <1>10, <1>d, <1>e, <2>1, <2>2, GamesWentOn DEF StartReported, CallAt
<1>11. ASSUME NEW c \in GameCalls, NEW w \in GameRows, NEW outcome \in {"running", "failed"}, GameStarted(c, w, outcome) PROVE GsInv'
  <2> DEFINE status == IF outcome = "running" THEN "succeeded" ELSE "failed"
  <2>1. status \in CommandStatus /\ (status = "succeeded" <=> outcome = "running")
    BY DEF CommandStatus
  <2>2. /\ gameCommand' = [gameCommand EXCEPT ![w]["start"] = status]
        /\ UNCHANGED <<gameServer, gameDesired, gameRaced, gameBypassed>>
    BY <1>11 DEF GameStarted
  <2> HIDE DEF status
  <2>3. /\ gameCommand' \in [GameRows -> GsCommand]
        /\ \A v \in GameRows \ {w} : gameCommand'[v] = gameCommand[v]
        /\ gameCommand'[w].start = status /\ gameCommand'[w].stop = gameCommand[w].stop
    BY <1>0, <2>1, <2>2, GamesCommanded
  <2>4. /\ gameWorkload' \in [GameRows -> GsWorkload] /\ WantedRows' = WantedRows
        /\ \A v \in GameRows : gameWorkload'[v].of = gameWorkload[v].of
    BY <1>0, <1>11, GamesReported DEF GameStarted
  <2>5. /\ gameCall' \in [GameCalls -> GameCallType]
        /\ \A d \in GameCalls \ {c} : gameCall'[d] = gameCall[d]
        /\ \/ gameCall'[c] = gameCall[c] /\ gameWorkload[w] = NoWorkload
           \/ gameCall'[c].pc = "report" /\ gameCall'[c].outcome = outcome
        /\ gameCall[c].pc = "idle"
    BY <1>0, <1>11, <1>a DEF GameStarted, GsShape, GameCallType, NoGameCall, CallAt
  <2>6. gameContainer' \subseteq gameContainer \cup {w}
    BY <1>11 DEF GameStarted
  <2>7. GsShape'
    BY <1>0, <2>2, <2>3, <2>4, <2>5, <2>6 DEF GsShape
  <2>8. ASSUME ~gameRaced' PROVE OneAtATime' /\ WantedOnly' /\ ToldStarted'
    <3>1. OneAtATime /\ WantedOnly /\ ToldStarted /\ Open(gameCommand[w].start)
      BY <1>11, <2>2, <2>8 DEF GsInv, GameStarted, Open
    <3>2. w \in WantedRows /\ gameDesired[gameWorkload[w].of] = "running" /\ StartOpen
      BY <3>1 DEF WantedOnly, StartsWanted, StartOpen
    <3>3. /\ \A d \in GameCalls : gameCall[d].pc \in {"idle", "report"}
          /\ \A d \in GameCalls : gameCall'[d].pc \in {"idle", "report"}
      BY <2>5, <3>1, <3>2 DEF OneAtATime
    <3>4. OneAtATime'
      BY <3>3 DEF OneAtATime
    <3>5. ~Open(status)
      BY DEF status, Open
    <3>6. StartsWanted'
      BY <2>2, <2>3, <2>4, <3>1, <3>5 DEF WantedOnly, StartsWanted
    <3>7. WantedRows \subseteq GameRows /\ gameContainer \subseteq GameRows
      BY <1>0 DEF WantedRows, GsShape
    <3>8. StopsUnwanted'
      BY <2>3, <2>4, <2>6, <3>1, <3>2, <3>7 DEF WantedOnly, StopsUnwanted
    <3>9. DeletedUnwanted'
      BY <2>2, <2>4, <3>1, <3>3 DEF WantedOnly, DeletedUnwanted, CallAt
    <3>10. outcome = "running" => Started(w)'
      BY <2>1, <2>2, <2>3, <2>4, <3>2 DEF Started
    <3>11. ASSUME NEW v \in WantedRows, Started(v) PROVE SomeStarted'
      <4>1. v # w /\ v \in GameRows
        BY <3>1, <3>7, <3>11 DEF Started, Open
      <4> QED
        BY <2>2, <2>3, <2>4, <3>11, <4>1 DEF SomeStarted, Started
    <3>12. (SomeStarted => SomeStarted') /\ (outcome = "running" => SomeStarted')
      BY <2>4, <3>2, <3>10, <3>11 DEF SomeStarted
    <3>13. ToldStarted'
      BY <2>2, <2>5, <3>1, <3>3, <3>12 DEF ToldStarted, CallAt
    <3> QED
      BY <3>4, <3>6, <3>8, <3>9, <3>13 DEF WantedOnly
  <2> QED
    BY <2>7, <2>8 DEF GsInv
<1>12. ASSUME GameTick PROVE GsInv'
  <2>1. PICK r \in GameRevisions : ReconcileGame(r)
    BY <1>12 DEF GameTick
  <2>2. GsShape'
    BY <1>0, <1>12, <2>1, GamesReconciled DEF GameTick, GsShape
  <2>3. ASSUME ~gameRaced' PROVE OneAtATime' /\ WantedOnly' /\ ToldStarted'
    <3>1. /\ ~gameRaced /\ OneAtATime /\ WantedOnly /\ ToldStarted
          /\ \A d \in GameCalls : gameCall[d].pc = "idle" /\ gameCall'[d].pc = "idle"
      BY <1>12, <2>3 DEF GameTick, GameBusy, GsInv
    <3>2. WantedOnly' /\ (SomeStarted => SomeStarted')
      BY <1>0, <1>12, <2>1, <3>1, GamesPassed DEF GameTick, CallAt
    <3> QED
      BY <1>12, <3>1, <3>2 DEF GameTick, OneAtATime, GameBusy, ToldStarted, CallAt
  <2> QED
    BY <2>2, <2>3 DEF GsInv
<1>13. ASSUME NEW w \in GameRows, NEW type \in {"start", "stop", "ask"}, NEW status \in CommandStatus,
              gameCommand' = [gameCommand EXCEPT ![w][type] = status],
              Open(gameCommand[w][type]) \/ type = "ask",
              status \in {"delivered", "failed", "succeeded", "pending"},
              type = "start" => status # "succeeded",
              type = "start" /\ Open(status) => Open(gameCommand[w].start),
              type = "stop" => Open(status) \/ status = "failed" \/ w \notin gameContainer',
              gameContainer' \subseteq gameContainer, gameContainer \ gameContainer' \subseteq {w},
              gameWorkload' \in [GameRows -> GsWorkload], WantedRows' = WantedRows,
              \A v \in GameRows : gameWorkload'[v].of = gameWorkload[v].of,
              UNCHANGED <<gameServer, gameDesired, gameCall, gameRaced, gameBypassed>>
       PROVE  GsInv'
  <2>1. /\ gameCommand' \in [GameRows -> GsCommand]
        /\ \A v \in GameRows \ {w} : gameCommand'[v] = gameCommand[v]
        /\ gameCommand'[w].start = IF type = "start" THEN status ELSE gameCommand[w].start
        /\ gameCommand'[w].stop = IF type = "stop" THEN status ELSE gameCommand[w].stop
    <3> DEFINE r == [gameCommand[w] EXCEPT ![type] = status]
    <3>1. gameCommand \in [GameRows -> GsCommand]
      BY <1>0 DEF GsShape
    <3>2. /\ r \in GsCommand
          /\ r.start = IF type = "start" THEN status ELSE gameCommand[w].start
          /\ r.stop = IF type = "stop" THEN status ELSE gameCommand[w].stop
      BY <3>1 DEF GsCommand
    <3>3. gameCommand' = [gameCommand EXCEPT ![w] = r]
      BY <1>13
    <3> HIDE DEF r
    <3> QED
      BY <3>1, <3>2, <3>3
  <2>2. GsShape'
    BY <1>0, <1>13, <2>1 DEF GsShape
  <2>3. ASSUME ~gameRaced' PROVE OneAtATime' /\ WantedOnly' /\ ToldStarted'
    <3>1. OneAtATime /\ WantedOnly /\ ToldStarted
      BY <1>13, <2>3 DEF GsInv
    <3>2. \A v \in GameRows : Open(gameCommand'[v].start) => Open(gameCommand[v].start)
      BY <1>13, <2>1
    <3>3. OneAtATime'
      BY <1>13, <3>1, <3>2 DEF OneAtATime, GameBusy, StartOpen
    <3>4. StartsWanted'
      BY <1>13, <3>1, <3>2 DEF WantedOnly, StartsWanted
    <3>5. WantedRows \subseteq GameRows /\ gameContainer \subseteq GameRows
      BY <1>0 DEF WantedRows, GsShape
    <3>6. type = "stop" => w \notin WantedRows
      BY <1>13, <3>1 DEF WantedOnly, StopsUnwanted, Open
    <3>7. StopsUnwanted'
      BY <1>13, <2>1, <3>1, <3>5, <3>6 DEF WantedOnly, StopsUnwanted, Open
    <3>8. DeletedUnwanted'
      BY <1>13, <3>1 DEF WantedOnly, DeletedUnwanted, CallAt
    <3>9. SomeStarted => SomeStarted'
      <4>1. \A v \in GameRows : gameCommand[v].start = "succeeded" => gameCommand'[v].start = "succeeded"
        BY <1>13, <2>1 DEF Open
      <4> QED
        BY <1>13, <3>5, <4>1 DEF SomeStarted, Started
    <3>10. ToldStarted'
      BY <1>13, <3>1, <3>9 DEF ToldStarted, CallAt
    <3> QED
      BY <3>3, <3>4, <3>7, <3>8, <3>10 DEF WantedOnly
  <2> QED
    BY <2>2, <2>3 DEF GsInv
<1>g. ASSUME UNCHANGED gameWorkload
      PROVE  /\ gameWorkload' \in [GameRows -> GsWorkload] /\ WantedRows' = WantedRows
             /\ \A v \in GameRows : gameWorkload'[v].of = gameWorkload[v].of
  BY <1>0, <1>g DEF GsShape, WantedRows
<1>14. ASSUME NEW w \in GameRows, GameStopped(w) PROVE GsInv'
  <2>1. PICK status \in {"succeeded", "failed"}, actual \in {"stopped", "failed"} :
          /\ gameCommand' = [gameCommand EXCEPT ![w]["stop"] = status]
          /\ status = "succeeded" => gameContainer' = gameContainer \ {w}
          /\ status = "failed" => UNCHANGED gameContainer
          /\ SetActual(w, actual)
    BY <1>14 DEF GameStopped
  <2>2. /\ gameWorkload' \in [GameRows -> GsWorkload] /\ WantedRows' = WantedRows
        /\ \A v \in GameRows : gameWorkload'[v].of = gameWorkload[v].of
    BY <1>0, <2>1, GamesReported
  <2>3. Open(gameCommand[w]["stop"]) /\ status \in CommandStatus
    BY <1>14 DEF GameStopped, Open, CommandStatus
  <2> QED
    BY <1>13, <1>14, <2>1, <2>2, <2>3 DEF GameStopped
<1>15. ASSUME NEW w \in GameRows, AskServer(w) \/ Answered(w) PROVE GsInv'
  <2>1. PICK status \in {"pending", "succeeded", "failed"} :
          gameCommand' = [gameCommand EXCEPT ![w]["ask"] = status]
    BY <1>15 DEF AskServer, Answered
  <2>2. status \in CommandStatus
    BY DEF CommandStatus
  <2> QED
    BY <1>13, <1>15, <1>g, <2>1, <2>2 DEF AskServer, Answered
<1>16. ASSUME NEW w \in GameRows, NEW type \in {"start", "stop", "ask"}, DeliverGame(w, type) PROVE GsInv'
  <2>1. Open(gameCommand[w][type]) /\ Open("delivered") /\ "delivered" \in CommandStatus
    BY <1>16 DEF DeliverGame, Open, CommandStatus
  <2> QED
    BY <1>13, <1>16, <1>g, <2>1 DEF DeliverGame
<1>17. ASSUME NEW w \in GameRows, NEW type \in {"start", "stop"}, GameExpired(w, type) PROVE GsInv'
  <2>1. /\ gameWorkload' \in [GameRows -> GsWorkload] /\ WantedRows' = WantedRows
        /\ \A v \in GameRows : gameWorkload'[v].of = gameWorkload[v].of
    BY <1>0, <1>17, GamesReported DEF GameExpired
  <2>2. ~Open("failed") /\ "failed" \in CommandStatus
    BY DEF Open, CommandStatus
  <2> QED
    BY <1>13, <1>17, <2>1, <2>2 DEF GameExpired
<1>18. ASSUME NEW c \in GameCalls, NEW r \in GameRevisions,
              DeploymentStart(c, r) \/ DeploymentStop(c, r) \/ DeploymentRestart(c, r) \/ NewRevision(c, r)
       PROVE  GsInv'
  <2>1. PICK pc \in {"reconcile", "restartRows", "supersede"} : Bypass(c, pc, r)
    BY <1>18 DEF DeploymentStart, DeploymentStop, DeploymentRestart, NewRevision
  <2>2. gameDesired' \in [GameRevisions -> GameDesired]
    BY <1>0, <1>18 DEF DeploymentStart, DeploymentStop, DeploymentRestart, NewRevision, GsShape, GameDesired
  <2> QED
    BY <1>0, <2>1, <2>2, GamesRequested DEF Bypass, GsShape
<1>19. ASSUME NEW c \in GameCalls, RestartRows(c) PROVE GsInv'
  <2>1. RowsOf(gameCall[c].of) \in SUBSET WantedRows
    BY DEF RowsOf
  <2> QED
    BY <1>0, <1>19, <1>c, <2>1, GamesHalted DEF RestartRows, CallAt, GsShape
<1>20. ASSUME NEW c \in GameCalls, SupersedeRevisions(c) PROVE GsInv'
  <2>1. gameDesired' \in [GameRevisions -> GameDesired]
    BY <1>0, <1>20 DEF SupersedeRevisions, GsShape, GameDesired
  <2>2. \E rows \in SUBSET WantedRows : StopRows(rows)
    BY <1>20 DEF SupersedeRevisions
  <2> QED
    BY <1>20, <1>c, <2>1, <2>2, GamesHalted DEF SupersedeRevisions, CallAt
<1>21. CASE UNCHANGED gsVars
  BY <1>21 DEF gsVars, GsInv, GsShape, OneAtATime, WantedOnly, StartsWanted, StopsUnwanted, DeletedUnwanted,
     ToldStarted, SomeStarted, Started, WantedRows, StartOpen, GameBusy, CallAt
<1> QED
  BY <1>1, <1>2, <1>3, <1>4, <1>5, <1>6, <1>7, <1>8, <1>9, <1>10, <1>11, <1>12, <1>14,
     <1>15, <1>16, <1>17, <1>18, <1>19, <1>20, <1>21 DEF GsNext

LEMMA GamesImplied == GsInv => ServerToldTruly
BY DEF GsInv, WantedOnly, StopsUnwanted, DeletedUnwanted, ToldStarted, SomeStarted, Started, ServerToldTruly,
   GameBusy

-----------------------------------------------------------------------------
(* Grants: GameServers                                                     *)

(* Outside races one request is past its check, and what it found then     *)
(* still holds.                                                            *)
GaInv ==
  /\ \A g \in DOMAIN grant : grant[g] \in GrantRow
  /\ grantRequests \subseteq GrantRequest
  /\ ~grantRaced =>
       /\ \A q, r \in grantRequests : q = r
       /\ \A r \in grantRequests : r.op = "insert" => GrantsOf(r.subject) = {}
       /\ \A g, h \in DOMAIN grant : grant[g].subject = grant[h].subject => g = h

LEMMA GrantsStart == GaInit => GaInv
<1> SUFFICES ASSUME GaInit PROVE GaInv
  OBVIOUS
<1>1. (CHOOSE p \in Players : TRUE) \in Players
  BY GameServersAssumption
<1> QED
  BY <1>1 DEF GaInit, GaInv, GrantRow, GameRoles

LEMMA GrantsStep == GaInv /\ [GaNext]_gaVars => GaInv'
<1> SUFFICES ASSUME GaInv, [GaNext]_gaVars PROVE GaInv'
  OBVIOUS
<1>1. ASSUME NEW subject \in Players \cup Crews, NEW r \in GameRoles, PutGrant(subject, r) PROVE GaInv'
  <2>1. PICK request \in GrantRequest :
          /\ request.op = "insert" => GrantsOf(request.subject) = {}
          /\ grantRequests' = grantRequests \cup {request}
    BY <1>1 DEF PutGrant
  <2>2. UNCHANGED grant /\ grantRaced' = (grantRaced \/ grantRequests # {})
    BY <1>1 DEF PutGrant
  <2> QED
    BY <2>1, <2>2 DEF GaInv, GrantsOf
<1>2. ASSUME NEW request \in grantRequests, GrantWritten(request) PROVE GaInv'
  <2>1. /\ request \in GrantRequest /\ grantRequests' = grantRequests \ {request} /\ UNCHANGED grantRaced
        /\ ~grantRaced => grantRequests' = {}
    BY <1>2 DEF GrantWritten, GaInv
  <2>2. CASE /\ request.op = "update"
             /\ grant' = IF request.id \in DOMAIN grant
                         THEN [grant EXCEPT ![request.id].role = request.role] ELSE grant
    <3>1. CASE request.id \in DOMAIN grant
      <4> DEFINE row == [grant[request.id] EXCEPT !.role = request.role]
      <4>1. request.role \in GameRoles
        BY <2>1 DEF GrantRequest
      <4>2. row \in GrantRow /\ row.subject = grant[request.id].subject
        BY <3>1, <4>1 DEF GaInv, GrantRow
      <4>3. grant' = [grant EXCEPT ![request.id] = row]
        BY <2>2, <3>1
      <4> HIDE DEF row
      <4>4. DOMAIN grant' = DOMAIN grant /\ \A g \in DOMAIN grant : grant'[g].subject = grant[g].subject /\ grant'[g] \in GrantRow
        BY <4>2, <4>3 DEF GaInv
      <4> QED
        BY <2>1, <4>4 DEF GaInv
    <3>2. CASE request.id \notin DOMAIN grant
      BY <2>1, <2>2, <3>2 DEF GaInv
    <3> QED
      BY <3>1, <3>2
  <2>3. ASSUME NEW id \in GrantIds \ DOMAIN grant, request.op = "insert",
               grant' = [g \in DOMAIN grant \cup {id} |-> IF g = id
                           THEN [subject |-> request.subject, role |-> request.role] ELSE grant[g]]
        PROVE  GaInv'
    <3> DEFINE row == [subject |-> request.subject, role |-> request.role]
    <3>1. row \in GrantRow /\ row.subject = request.subject
      BY <2>1, <2>3 DEF GrantRequest, GrantRow
    <3> HIDE DEF row
    <3>2. grant' = [g \in DOMAIN grant \cup {id} |-> IF g = id THEN row ELSE grant[g]]
      BY <2>3 DEF row
    <3>3. ~grantRaced => \A g \in DOMAIN grant : grant[g].subject # request.subject
      BY <2>1, <2>3 DEF GaInv, GrantsOf
    <3> QED
      BY <2>1, <3>1, <3>2, <3>3 DEF GaInv
  <2> QED
    BY <1>2, <2>2, <2>3 DEF GrantWritten
<1>3. ASSUME NEW id \in GrantIds, DeleteGrant(id) PROVE GaInv'
  BY <1>3 DEF DeleteGrant, GaInv, GrantsOf
<1>4. CASE UNCHANGED gaVars
  BY <1>4 DEF gaVars, GaInv, GrantsOf
<1> QED
  BY <1>1, <1>2, <1>3, <1>4 DEF GaNext

LEMMA GrantsImplied == GaInv => OneGrantEach
<1> SUFFICES ASSUME GaInv, ~grantRaced, NEW subject \in Players \cup Crews PROVE Cardinality(GrantsOf(subject)) <= 1
  BY DEF OneGrantEach
<1>1. \A g, h \in GrantsOf(subject) : g = h
  BY DEF GaInv, GrantsOf
<1>2. CASE GrantsOf(subject) = {}
  BY <1>2, FS_EmptySet
<1>3. CASE GrantsOf(subject) # {}
  <2>1. PICK g \in GrantsOf(subject) : TRUE
    BY <1>3
  <2>2. GrantsOf(subject) = {g}
    BY <1>1, <2>1
  <2> QED
    BY <2>2, FS_Singleton
<1> QED
  BY <1>2, <1>3

(* A game server is shown as it is, and a player has one grant, unless     *)
(* requests overlap (game-servers.routes.ts), whatever the number of       *)
(* workloads, handlers, players and grants.                                *)
THEOREM GamesHold == PlatformSpec => []GameSound
<1>1. PlatformInit => GsInv /\ GaInv
  BY GamesStart, GrantsStart DEF PlatformInit
<1>2. (GsInv /\ GaInv) /\ [PlatformNext]_PlatformVars => (GsInv /\ GaInv)'
  <2> SUFFICES ASSUME GsInv, GaInv, [PlatformNext]_PlatformVars PROVE GsInv' /\ GaInv'
    OBVIOUS
  <2>1. [GsNext]_gsVars /\ [GaNext]_gaVars
    BY DEF PlatformNext, PlatformVars
  <2> QED
    BY <2>1, GamesStep, GrantsStep
<1>3. GsInv /\ GaInv => GameSound
  BY GamesImplied, GrantsImplied DEF GameSound, Of
<1> QED
  BY <1>1, <1>2, <1>3, PTL DEF PlatformSpec

-----------------------------------------------------------------------------
(* Enrolment: Enrollment                                                   *)

(* Every attempt has a number of its own, which its handler has not used.  *)
AttemptsApart ==
  /\ \A h \in registering : h.n <= attempt /\ h.n \notin DOMAIN nodeRow
  /\ \A g, h \in registering : g.n = h.n => g = h
  /\ \A i \in DOMAIN nodeRow : i <= attempt
  /\ \A a \in Agents : agent[a].pc = "waiting" => agent[a].n <= attempt

(* A node that came by a token used the token up.                          *)
TokensUsed ==
  /\ \A i \in DOMAIN nodeRow : nodeRow[i].via \in Tokens => regToken[nodeRow[i].via] = "used"
  /\ \A i, j \in DOMAIN nodeRow : nodeRow[i].via = nodeRow[j].via /\ nodeRow[i].via \in Tokens => i = j

(* Nodes of remote hosts are never written again, so that what a remote    *)
(* agent was told stays accepted.                                          *)
ByToken(identity) == Accepted(identity) /\ nodeRow[identity.node].via \in Tokens
RemotesAccepted ==
  /\ \A h \in registering : h.via = "local" /\ h.existing # 0 =>
       h.existing \in DOMAIN nodeRow /\ nodeRow[h.existing].via = "local"
  /\ \A a \in Agents \ LocalAgents :
       /\ agent[a].pc = "waiting" => \A h \in registering : h.n = agent[a].n => h.via \in Tokens
       /\ agent[a].pc = "got" => ByToken(agent[a].identity)
  /\ identityFile["remote"] # None => ByToken(identityFile["remote"])

EnrInv == EnrTypeOK /\ AttemptsApart /\ TokensUsed /\ RemotesAccepted

LEMMA NoneType == None \in Identity /\ Off \in AgentState /\ Off.pc = "off"
BY EnrollmentAssumption DEF None, Identity, Off, AgentState

LEMMA EnrolmentStart == EnrInit => EnrInv
<1> SUFFICES ASSUME EnrInit PROVE EnrInv
  OBVIOUS
<1>1. DOMAIN nodeRow = {} /\ registering = {} /\ attempt = 0 /\ \A a \in Agents : agent[a].pc = "off"
  BY NoneType DEF EnrInit
<1>2. EnrTypeOK
  BY <1>1, NoneType, EnrollmentAssumption DEF EnrInit, EnrTypeOK
<1>3. AttemptsApart /\ TokensUsed /\ RemotesAccepted
  BY <1>1 DEF EnrInit, AttemptsApart, TokensUsed, RemotesAccepted
<1> QED
  BY <1>2, <1>3 DEF EnrInv

(* Who gets an answer.                                                     *)
LEMMA AnswerReaches ==
  ASSUME EnrTypeOK, NEW h \in Handler, NEW node \in Attempts, AnswerRegistration(h, node)
  PROVE  /\ agent' \in [Agents -> AgentState]
         /\ \A a \in Agents : \/ agent'[a] = agent[a]
                              \/ /\ agent[a].pc = "waiting" /\ agent[a].n = h.n /\ agent'[a].pc = "got"
                                 /\ agent'[a].identity = [node |-> node, token |-> h.n]
<1> DEFINE told == [pc |-> "got", n |-> 0, identity |-> [node |-> node, token |-> h.n]]
<1>1. h.n \in Attempts /\ Attempts \subseteq 0..MaxRegistrations /\ 0 \in 0..MaxRegistrations
  BY EnrollmentAssumption DEF Handler, Attempts
<1>2. told \in AgentState /\ told.pc = "got" /\ told.identity = [node |-> node, token |-> h.n]
  BY <1>1 DEF AgentState, Identity
<1>3. agent' = [a \in Agents |-> IF agent[a].pc = "waiting" /\ agent[a].n = h.n THEN told ELSE agent[a]]
  BY DEF AnswerRegistration
<1> HIDE DEF told
<1> QED
  BY <1>2, <1>3 DEF EnrTypeOK

LEMMA Refused ==
  ASSUME EnrTypeOK, NEW h, Refuse(h)
  PROVE  /\ agent' \in [Agents -> AgentState]
         /\ \A a \in Agents : agent'[a] = agent[a] \/ agent'[a].pc = "boot"
<1>1. ASSUME NEW a \in Agents
      PROVE  [agent[a] EXCEPT !.pc = "boot", !.n = 0] \in AgentState /\ [agent[a] EXCEPT !.pc = "boot", !.n = 0].pc = "boot"
  <2>1. agent[a] \in AgentState /\ 0 \in 0..MaxRegistrations
    BY EnrollmentAssumption DEF EnrTypeOK
  <2> QED
    BY <2>1 DEF AgentState
<1> QED
  BY <1>1 DEF EnrTypeOK, Refuse

LEMMA EnrolmentStep == EnrInv /\ [EnrNext]_enrVars => EnrInv'
<1> SUFFICES ASSUME EnrInv, [EnrNext]_enrVars PROVE EnrInv'
  OBVIOUS
<1> USE DEF EnrInv
<1>1. ASSUME NEW t \in Tokens, CreateRegistrationToken(t) \/ ExpireToken(t) PROVE EnrInv'
  <2>1. /\ regToken[t] # "used" /\ \A s \in Tokens \ {t} : regToken'[s] = regToken[s]
        /\ regToken' \in [Tokens -> {"none", "unused", "used", "expired"}]
        /\ UNCHANGED <<nodeRow, attempt, registering, agent, identityFile>>
    BY <1>1 DEF CreateRegistrationToken, ExpireToken, EnrTypeOK
  <2>2. EnrTypeOK' /\ AttemptsApart' /\ RemotesAccepted'
    BY <2>1 DEF EnrTypeOK, AttemptsApart, RemotesAccepted, ByToken, Accepted
  <2>3. TokensUsed'
    BY <2>1 DEF TokensUsed
  <2> QED
    BY <2>2, <2>3
<1>2. ASSUME NEW a \in Agents, StartAgent(a) \/ StopAgent(a) \/ LoadIdentity(a) \/ GiveUp(a) PROVE EnrInv'
  <2>1. /\ agent' \in [Agents -> AgentState] /\ agent'[a].pc \notin {"waiting", "got"}
        /\ \A b \in Agents \ {a} : agent'[b] = agent[b]
        /\ UNCHANGED <<regToken, nodeRow, attempt, registering, identityFile>>
    <3>1. agent \in [Agents -> AgentState] /\ 0 \in 0..MaxRegistrations
      BY EnrollmentAssumption DEF EnrTypeOK
    <3>2. identityFile[HostOf(a)] \in Identity
      BY DEF EnrTypeOK, HostOf
    <3>3. CASE StartAgent(a)
      BY <3>1, <3>3 DEF StartAgent, AgentState
    <3>4. CASE StopAgent(a)
      BY <3>1, <3>4, NoneType DEF StopAgent
    <3>5. CASE LoadIdentity(a)
      BY <3>1, <3>2, <3>5 DEF LoadIdentity, AgentState
    <3>6. CASE GiveUp(a)
      BY <3>1, <3>6 DEF GiveUp, AgentState
    <3> QED
      BY <1>2, <3>3, <3>4, <3>5, <3>6
  <2>2. EnrTypeOK'
    BY <2>1 DEF EnrTypeOK
  <2>3. AttemptsApart' /\ TokensUsed' /\ RemotesAccepted'
    BY <2>1 DEF AttemptsApart, TokensUsed, RemotesAccepted, ByToken, Accepted
  <2> QED
    BY <2>2, <2>3
<1>3. ASSUME NEW a \in Agents, SendRegistration(a) PROVE EnrInv'
  <2> DEFINE n == attempt + 1
  <2>1. n \in Attempts /\ attempt' = n /\ n \in 0..MaxRegistrations /\ n > attempt /\ attempt \in Nat
    BY <1>3, EnrollmentAssumption DEF SendRegistration, EnrTypeOK, Attempts
  <2>2. PICK h \in Handler : /\ registering' = registering \cup {h} /\ h.n = n /\ h.existing = 0
                             /\ a \notin LocalAgents => h.via \in Tokens
    <3>1. PICK via \in Tokens \cup {"local"} :
            /\ registering' = registering \cup {[n |-> n, via |-> via, pc |-> "check", existing |-> 0]}
            /\ a \notin LocalAgents => via \in Tokens
      BY <1>3, <2>1 DEF SendRegistration
    <3>2. [n |-> n, via |-> via, pc |-> "check", existing |-> 0] \in Handler
      BY <2>1, EnrollmentAssumption DEF Handler
    <3> QED
      BY <3>1, <3>2
  <2>3. /\ agent' \in [Agents -> AgentState] /\ agent'[a].pc = "waiting" /\ agent'[a].n = n
        /\ \A b \in Agents \ {a} : agent'[b] = agent[b]
    <3>1. agent \in [Agents -> AgentState]
      BY DEF EnrTypeOK
    <3>2. agent' = [agent EXCEPT ![a].pc = "waiting", ![a].n = n]
      BY <1>3, <2>1 DEF SendRegistration
    <3> HIDE DEF n
    <3> QED
      BY <2>1, <3>1, <3>2 DEF AgentState
  <2>4. UNCHANGED <<regToken, nodeRow, identityFile>>
    BY <1>3 DEF SendRegistration
  <2> HIDE DEF n
  <2>5. EnrTypeOK'
    BY <2>1, <2>2, <2>3, <2>4 DEF EnrTypeOK
  <2>6. /\ \A g \in registering : g.n < n
        /\ \A i \in DOMAIN nodeRow : i < n
        /\ \A b \in Agents : agent[b].pc = "waiting" => agent[b].n < n
    <3>1. /\ \A g \in registering : g.n \in Nat
          /\ \A i \in DOMAIN nodeRow : i \in Nat
          /\ \A b \in Agents : agent[b].n \in Nat
      BY EnrollmentAssumption DEF EnrTypeOK, Handler, AgentState, Attempts
    <3> QED
      BY <2>1, <3>1 DEF AttemptsApart
  <2>7. AttemptsApart'
    <3>1. n <= n /\ n \in Nat
      BY <2>1
    <3>2. \A x \in Nat : x < n => x <= n /\ x # n
      BY <3>1
    <3>3. /\ \A g \in registering : g.n \in Nat
          /\ \A i \in DOMAIN nodeRow : i \in Nat
          /\ \A b \in Agents : agent[b].n \in Nat
      BY EnrollmentAssumption DEF EnrTypeOK, Handler, AgentState, Attempts
    <3>4. /\ \A g \in registering' : g.n <= n /\ g.n \notin DOMAIN nodeRow
          /\ \A g, f \in registering' : g.n = f.n => g = f
      BY <2>2, <2>6, <3>1, <3>2, <3>3 DEF AttemptsApart
    <3>5. \A b \in Agents : agent'[b].pc = "waiting" => agent'[b].n <= n
      BY <2>3, <2>6, <3>1, <3>2, <3>3
    <3> QED
      BY <2>1, <2>4, <2>6, <3>2, <3>3, <3>4, <3>5 DEF AttemptsApart
  <2>8. TokensUsed'
    BY <2>4 DEF TokensUsed
  <2>9. RemotesAccepted'
    <3>1. \A b \in Agents \ LocalAgents : agent'[b].pc = "waiting" =>
            \A g \in registering' : g.n = agent'[b].n => g.via \in Tokens
      <4> SUFFICES ASSUME NEW b \in Agents \ LocalAgents, agent'[b].pc = "waiting",
                          NEW g \in registering', g.n = agent'[b].n
                   PROVE  g.via \in Tokens
        OBVIOUS
      <4>1. CASE b = a
        BY <2>1, <2>2, <2>3, <2>6, <4>1
      <4>2. CASE b # a
        <5>1. agent[b].n # n
          BY <2>1, <2>3, <2>6, <4>2, EnrollmentAssumption DEF EnrTypeOK, AgentState
        <5> QED
          BY <2>2, <2>3, <4>2, <5>1 DEF RemotesAccepted
      <4> QED
        BY <4>1, <4>2
    <3> QED
      BY <2>2, <2>3, <2>4, <3>1 DEF RemotesAccepted, ByToken, Accepted
  <2> QED
    BY <2>5, <2>7, <2>8, <2>9
<1>4. ASSUME NEW a \in Agents, WriteIdentity(a) PROVE EnrInv'
  <2>1. /\ agent' \in [Agents -> AgentState] /\ agent'[a].pc = "running"
        /\ \A b \in Agents \ {a} : agent'[b] = agent[b]
    BY <1>4 DEF WriteIdentity, EnrTypeOK, AgentState
  <2>2. /\ identityFile' \in [{"local", "remote"} -> Identity]
        /\ a \in LocalAgents => identityFile'["remote"] = identityFile["remote"]
        /\ a \notin LocalAgents => identityFile'["remote"] = agent[a].identity
        /\ agent[a].pc = "got" /\ UNCHANGED <<regToken, nodeRow, attempt, registering>>
    BY <1>4 DEF WriteIdentity, EnrTypeOK, AgentState, HostOf
  <2>3. EnrTypeOK' /\ AttemptsApart' /\ TokensUsed'
    BY <2>1, <2>2 DEF EnrTypeOK, AttemptsApart, TokensUsed
  <2>4. RemotesAccepted'
    BY <2>1, <2>2 DEF RemotesAccepted, ByToken, Accepted
  <2> QED
    BY <2>3, <2>4
<1>5. ASSUME NEW h \in registering, CheckRegistration(h) PROVE EnrInv'
  <2>0. h \in Handler /\ UNCHANGED <<regToken, nodeRow, attempt, identityFile>>
    BY <1>5 DEF EnrTypeOK, CheckRegistration
  <2>1. CASE registering' = registering \ {h} /\ Refuse(h)
    <3>1. EnrTypeOK'
      BY <2>0, <2>1, Refused DEF EnrTypeOK
    <3>2. AttemptsApart' /\ TokensUsed' /\ RemotesAccepted'
      BY <2>0, <2>1, Refused DEF AttemptsApart, TokensUsed, RemotesAccepted, ByToken, Accepted
    <3> QED
      BY <3>1, <3>2
  <2>2. ASSUME NEW existing \in 0..MaxRegistrations,
               existing # 0 => existing \in DOMAIN nodeRow /\ nodeRow[existing].via = "local",
               registering' = (registering \ {h}) \cup {[h EXCEPT !.pc = "write", !.existing = existing]},
               UNCHANGED agent
        PROVE  EnrInv'
    <3> DEFINE g == [h EXCEPT !.pc = "write", !.existing = existing]
    <3>1. g \in Handler /\ g.n = h.n /\ g.via = h.via /\ g.existing = existing
      BY <2>0 DEF Handler
    <3>2. registering' = (registering \ {h}) \cup {g}
      BY <2>2
    <3> HIDE DEF g
    <3>3. EnrTypeOK' /\ TokensUsed'
      BY <2>0, <2>2, <3>1, <3>2 DEF EnrTypeOK, TokensUsed
    <3>4. AttemptsApart'
      BY <2>0, <2>2, <3>1, <3>2 DEF AttemptsApart
    <3>5. RemotesAccepted'
      BY <2>0, <2>2, <3>1, <3>2 DEF RemotesAccepted, ByToken, Accepted
    <3> QED
      BY <3>3, <3>4, <3>5
  <2>3. \A i \in DOMAIN nodeRow : i \in 0..MaxRegistrations
    BY EnrollmentAssumption DEF EnrTypeOK, Attempts
  <2>4. 0 \in 0..MaxRegistrations
    BY EnrollmentAssumption
  <2> QED
    BY <1>5, <2>1, <2>2, <2>3, <2>4 DEF CheckRegistration
<1>6. ASSUME NEW h \in registering, RegisterNode(h) PROVE EnrInv'
  <2>0. h \in Handler /\ h.via \in Tokens /\ registering' = registering \ {h} /\ UNCHANGED <<attempt, identityFile>>
    BY <1>6 DEF EnrTypeOK, RegisterNode
  <2>1. CASE Refuse(h) /\ UNCHANGED <<regToken, nodeRow>>
    <3>1. EnrTypeOK'
      BY <2>0, <2>1, Refused DEF EnrTypeOK
    <3>2. AttemptsApart' /\ TokensUsed' /\ RemotesAccepted'
      BY <2>0, <2>1, Refused DEF AttemptsApart, TokensUsed, RemotesAccepted, ByToken, Accepted
    <3> QED
      BY <3>1, <3>2
  <2>2. CASE /\ regToken[h.via] # "used" /\ regToken' = [regToken EXCEPT ![h.via] = "used"]
             /\ Upsert(h.n, [token |-> h.n, via |-> h.via]) /\ AnswerRegistration(h, h.n)
    <3> DEFINE row == [token |-> h.n, via |-> h.via]
    <3>1. /\ h.n \in Attempts /\ row \in [token : Attempts, via : Tokens \cup {"local"}]
          /\ row.token = h.n /\ row.via = h.via
      BY <2>0 DEF Handler
    <3>2. nodeRow' = [i \in DOMAIN nodeRow \cup {h.n} |-> IF i = h.n THEN row ELSE nodeRow[i]]
      BY <2>2 DEF Upsert
    <3>3. h.n \notin DOMAIN nodeRow /\ h.n <= attempt
      BY DEF AttemptsApart
    <3> HIDE DEF row
    <3>4. /\ DOMAIN nodeRow' = DOMAIN nodeRow \cup {h.n} /\ nodeRow'[h.n] = row
          /\ \A i \in DOMAIN nodeRow : i # h.n /\ nodeRow'[i] = nodeRow[i]
      BY <3>2, <3>3
    <3>5. /\ regToken' \in [Tokens -> {"none", "unused", "used", "expired"}] /\ regToken'[h.via] = "used"
          /\ \A t \in Tokens : regToken[t] = "used" => regToken'[t] = "used"
      BY <2>0, <2>2 DEF EnrTypeOK
    <3>6. EnrTypeOK'
      BY <2>0, <2>2, <3>1, <3>4, <3>5, AnswerReaches DEF EnrTypeOK
    <3>7. AttemptsApart'
      <4>1. \A g \in registering' : g \in registering /\ g.n # h.n
        BY <2>0 DEF AttemptsApart
      <4>2. \A a \in Agents : agent'[a].pc = "waiting" => agent'[a].n <= attempt
        BY <2>0, <2>2, <3>1, AnswerReaches DEF AttemptsApart
      <4> QED
        BY <2>0, <3>3, <3>4, <4>1, <4>2 DEF AttemptsApart
    <3>8. TokensUsed'
      <4>1. \A i \in DOMAIN nodeRow : nodeRow[i].via # h.via
        BY <2>0, <2>2 DEF TokensUsed
      <4>2. \A i \in DOMAIN nodeRow : nodeRow[i].via \in Tokens => regToken'[nodeRow[i].via] = "used"
        BY <3>5 DEF TokensUsed
      <4> QED
        BY <3>1, <3>4, <3>5, <4>1, <4>2 DEF TokensUsed
    <3>9. RemotesAccepted'
      <4> DEFINE Later(x) == x.node \in DOMAIN nodeRow' /\ nodeRow'[x.node].token = x.token /\ nodeRow'[x.node].via \in Tokens
      <4>1. \A x : ByToken(x) => Later(x)
        BY <3>4 DEF ByToken, Accepted
      <4>2. Later([node |-> h.n, token |-> h.n])
        BY <2>0, <3>1, <3>4
      <4>3. \A a \in Agents : \/ agent'[a] = agent[a]
                              \/ agent'[a].pc = "got" /\ agent'[a].identity = [node |-> h.n, token |-> h.n]
        BY <2>0, <2>2, <3>1, AnswerReaches
      <4>4. \A a \in Agents \ LocalAgents : agent'[a].pc = "got" => Later(agent'[a].identity)
        BY <4>1, <4>2, <4>3 DEF RemotesAccepted
      <4>5. \A a \in Agents \ LocalAgents : agent'[a].pc = "waiting" =>
              \A g \in registering' : g.n = agent'[a].n => g.via \in Tokens
        BY <2>0, <4>3 DEF RemotesAccepted
      <4>6. \A g \in registering' : g.via = "local" /\ g.existing # 0 =>
              g.existing \in DOMAIN nodeRow' /\ nodeRow'[g.existing].via = "local"
        BY <2>0, <3>4 DEF RemotesAccepted
      <4>7. identityFile'["remote"] # None => Later(identityFile'["remote"])
        BY <2>0, <4>1 DEF RemotesAccepted
      <4> QED
        BY <4>4, <4>5, <4>6, <4>7 DEF RemotesAccepted, ByToken, Accepted
    <3> QED
      BY <3>6, <3>7, <3>8, <3>9
  <2> QED
    BY <1>6, <2>1, <2>2 DEF RegisterNode
<1>7. ASSUME NEW h \in registering, RegisterLocalNode(h) PROVE EnrInv'
  <2> DEFINE id == IF h.existing = 0 THEN h.n ELSE h.existing
             row == [token |-> h.n, via |-> "local"]
  <2>1. /\ h \in Handler /\ h.via = "local" /\ registering' = registering \ {h}
        /\ UNCHANGED <<regToken, attempt, identityFile>> /\ AnswerRegistration(h, id)
        /\ nodeRow' = [i \in DOMAIN nodeRow \cup {id} |-> IF i = id THEN row ELSE nodeRow[i]]
    BY <1>7 DEF EnrTypeOK, RegisterLocalNode, Upsert
  <2>2. /\ id \in Attempts /\ row \in [token : Attempts, via : Tokens \cup {"local"}] /\ row.via = "local"
        /\ id \in DOMAIN nodeRow => nodeRow[id].via = "local"
        /\ id \notin DOMAIN nodeRow => id = h.n
    BY <2>1 DEF Handler, RemotesAccepted, AttemptsApart, EnrTypeOK
  <2>3. "local" \notin Tokens
    BY EnrollmentAssumption
  <2> HIDE DEF id, row
  <2>4. /\ DOMAIN nodeRow' = DOMAIN nodeRow \cup {id} /\ nodeRow'[id] = row
        /\ \A i \in DOMAIN nodeRow : i # id => nodeRow'[i] = nodeRow[i]
    BY <2>1
  <2>5. EnrTypeOK'
    BY <2>1, <2>2, <2>4, AnswerReaches DEF EnrTypeOK
  <2>6. AttemptsApart'
    <3>1. id <= attempt /\ \A g \in registering' : g.n # id
      BY <2>1, <2>2 DEF AttemptsApart
    <3>2. \A a \in Agents : agent'[a].pc = "waiting" => agent'[a].n <= attempt
      BY <2>1, <2>2, AnswerReaches DEF AttemptsApart
    <3> QED
      BY <2>1, <2>4, <3>1, <3>2 DEF AttemptsApart
  <2>7. TokensUsed'
    BY <2>1, <2>2, <2>3, <2>4 DEF TokensUsed
  <2>8. RemotesAccepted'
    <3> DEFINE Later(x) == x.node \in DOMAIN nodeRow' /\ nodeRow'[x.node].token = x.token /\ nodeRow'[x.node].via \in Tokens
    <3>1. \A x : ByToken(x) => Later(x)
      BY <2>2, <2>3, <2>4 DEF ByToken, Accepted
    <3>2. \A a \in Agents \ LocalAgents : agent'[a] = agent[a]
      BY <2>1, <2>2, <2>3, AnswerReaches DEF RemotesAccepted
    <3>3. \A a \in Agents \ LocalAgents : agent'[a].pc = "got" => Later(agent'[a].identity)
      BY <3>1, <3>2 DEF RemotesAccepted
    <3>4. \A a \in Agents \ LocalAgents : agent'[a].pc = "waiting" =>
            \A g \in registering' : g.n = agent'[a].n => g.via \in Tokens
      BY <2>1, <3>2 DEF RemotesAccepted
    <3>5. \A g \in registering' : g.via = "local" /\ g.existing # 0 =>
            g.existing \in DOMAIN nodeRow' /\ nodeRow'[g.existing].via = "local"
      BY <2>1, <2>2, <2>4 DEF RemotesAccepted
    <3>6. identityFile'["remote"] # None => Later(identityFile'["remote"])
      BY <2>1, <3>1 DEF RemotesAccepted
    <3> QED
      BY <3>3, <3>4, <3>5, <3>6 DEF RemotesAccepted, ByToken, Accepted
  <2> QED
    BY <2>5, <2>6, <2>7, <2>8
<1>8. CASE RegistrationLost
  BY <1>8 DEF RegistrationLost, EnrTypeOK, AttemptsApart, TokensUsed, RemotesAccepted, ByToken,
     Accepted
<1>9. CASE UNCHANGED enrVars
  BY <1>9 DEF enrVars, EnrTypeOK, AttemptsApart, TokensUsed, RemotesAccepted, ByToken, Accepted
<1> QED
  BY <1>1, <1>2, <1>3, <1>4, <1>5, <1>6, <1>7, <1>8, <1>9 DEF EnrNext

LEMMA EnrolmentImplied == EnrInv => EnrolledOnce
BY DEF EnrInv, TokensUsed, RemotesAccepted, ByToken, EnrolledOnce

-----------------------------------------------------------------------------
(* Accounts                                                                *)

UnderLock(c) == setupCall[c].pc \notin {"idle", "lock"}
Placed(c) == setupCall[c].pc \in {"organization", "insert", "commit", "undo"}

(* The installation under the lock is the only one, and there was none     *)
(* before it.                                                              *)
OneInstaller ==
  /\ \A c \in Installers : setupCall[c].pc # "idle" => setupCall[c].mail \in Mails
  /\ \A c \in Installers : UnderLock(c) => installedBy = NoMail
  /\ \A c, d \in Installers : UnderLock(c) /\ UnderLock(d) => c = d
  /\ \A c \in Installers : setupCall[c].pc = "commit" =>
       accountRole[setupCall[c].mail] # "absent" /\ setupCall[c].mail \in founded
Administrators ==
  ~setupCut => \A e \in Mails : accountRole[e] = "admin" =>
    \/ e = installedBy \/ e \in promoted
    \/ \E c \in Installers : setupCall[c].mail = e /\ Placed(c)
Installed == installedBy # NoMail => accountRole[installedBy] # "absent" /\ installedBy \in founded
BansKept == ~banRaced => banned \cap loginSession \subseteq banning /\ banned \cap signingIn = {}

AccInv == AccTypeOK /\ OneInstaller /\ Administrators /\ Installed /\ BansKept

LEMMA AccountsStart == AccInit => AccInv
<1> SUFFICES ASSUME AccInit PROVE AccInv
  OBVIOUS
<1>1. AccTypeOK
  BY DEF AccInit, AccTypeOK, NoSetup
<1>2. \A c \in Installers : setupCall[c].pc = "idle"
  BY DEF AccInit, NoSetup
<1>3. OneInstaller /\ Administrators /\ Installed /\ BansKept
  BY <1>2 DEF AccInit, OneInstaller, UnderLock, Administrators, Installed, BansKept
<1> QED
  BY <1>1, <1>3 DEF AccInv

LEMMA AccountsStep == AccInv /\ [AccNext]_accVars => AccInv'
<1> SUFFICES ASSUME AccInv, [AccNext]_accVars PROVE AccInv'
  OBVIOUS
<1> USE DEF AccInv, SetupGoes, SetupEnds, NoSetup, Administration, Setup, RemoveAccount, AdminPresent
<1>1. ASSUME NEW c \in Installers, TakeSetupLock(c) PROVE AccInv'
  <2> USE <1>1 DEF TakeSetupLock
  <2>1. AccTypeOK'
    BY DEF AccTypeOK
  <2>2. OneInstaller'
    BY AccountsAssumption DEF AccTypeOK, OneInstaller, UnderLock, Locked
  <2>3. Administrators' /\ Installed' /\ BansKept'
    BY AccountsAssumption DEF AccTypeOK, OneInstaller, UnderLock, Placed, Administrators,
       Installed, BansKept
  <2> QED
    BY <2>1, <2>2, <2>3
<1>2. ASSUME NEW c \in Installers, SignUp(c) PROVE AccInv'
  <2> USE <1>2 DEF SignUp
  <2>1. AccTypeOK'
    BY DEF AccTypeOK
  <2>2. OneInstaller'
    BY AccountsAssumption DEF AccTypeOK, OneInstaller, UnderLock, Locked
  <2>3. Administrators' /\ Installed' /\ BansKept'
    BY AccountsAssumption DEF AccTypeOK, OneInstaller, UnderLock, Placed, Administrators,
       Installed, BansKept
  <2> QED
    BY <2>1, <2>2, <2>3
<1>3. ASSUME NEW c \in Installers, MakeAdministrator(c) PROVE AccInv'
  <2> USE <1>3 DEF MakeAdministrator
  <2>1. AccTypeOK'
    BY DEF AccTypeOK
  <2>2. OneInstaller'
    BY AccountsAssumption DEF AccTypeOK, OneInstaller, UnderLock, Locked
  <2>3. Administrators' /\ Installed' /\ BansKept'
    BY AccountsAssumption DEF AccTypeOK, OneInstaller, UnderLock, Placed, Administrators,
       Installed, BansKept
  <2> QED
    BY <2>1, <2>2, <2>3
<1>4. ASSUME NEW c \in Installers, CreateWorkspace(c) PROVE AccInv'
  <2> USE <1>4 DEF CreateWorkspace
  <2>1. AccTypeOK'
    <3>1. setupCall[c].mail \in Mails /\ founded' \subseteq founded \cup {setupCall[c].mail}
      BY DEF OneInstaller
    <3>2. founded' \subseteq Mails
      BY <3>1 DEF AccTypeOK
    <3>3. UNCHANGED <<accountRole, installedBy, setupCut, banned, mayFound, loginSession, signingIn, banning, promoted, banRaced>>
      OBVIOUS
    <3>4. setupCall' \in [Installers -> [mail : Mails \cup {NoMail},
            pc : {"idle", "lock", "signUp", "role", "organization", "insert", "commit", "undo"}]]
      BY DEF AccTypeOK
    <3> QED
      BY <3>2, <3>3, <3>4 DEF AccTypeOK
  <2>2. OneInstaller'
    BY AccountsAssumption DEF AccTypeOK, OneInstaller, UnderLock, Locked
  <2>3. Administrators' /\ Installed' /\ BansKept'
    BY AccountsAssumption DEF AccTypeOK, OneInstaller, UnderLock, Placed, Administrators,
       Installed, BansKept
  <2> QED
    BY <2>1, <2>2, <2>3
<1>5. ASSUME NEW c \in Installers, InsertInstallation(c) PROVE AccInv'
  <2> USE <1>5 DEF InsertInstallation
  <2>1. AccTypeOK'
    BY DEF AccTypeOK
  <2>2. OneInstaller'
    BY AccountsAssumption DEF AccTypeOK, OneInstaller, UnderLock, Locked
  <2>3. Administrators' /\ Installed' /\ BansKept'
    BY AccountsAssumption DEF AccTypeOK, OneInstaller, UnderLock, Placed, Administrators,
       Installed, BansKept
  <2> QED
    BY <2>1, <2>2, <2>3
<1>6. ASSUME NEW c \in Installers, CommitInstallation(c) PROVE AccInv'
  <2> USE <1>6 DEF CommitInstallation
  <2>1. AccTypeOK'
    BY DEF AccTypeOK
  <2>2. OneInstaller'
    BY AccountsAssumption DEF AccTypeOK, OneInstaller, UnderLock, Locked
  <2>3. Administrators' /\ Installed' /\ BansKept'
    <3>1. /\ installedBy = NoMail /\ installedBy' = setupCall[c].mail
          /\ UNCHANGED <<accountRole, founded, promoted, setupCut, banRaced, banned, loginSession, banning, signingIn>>
          /\ \A d \in Installers \ {c} : setupCall'[d] = setupCall[d]
      BY DEF OneInstaller, UnderLock, AccTypeOK
    <3>2. Installed'
      BY <3>1 DEF OneInstaller, Installed
    <3>3. BansKept'
      BY <3>1 DEF BansKept
    <3>4. Administrators'
      <4> SUFFICES ASSUME ~setupCut, NEW e \in Mails, accountRole[e] = "admin", e # setupCall[c].mail, e \notin promoted
                   PROVE  \E d \in Installers : setupCall'[d].mail = e /\ Placed(d)'
        BY <3>1 DEF Administrators
      <4>1. e # installedBy
        BY <3>1, AccountsAssumption
      <4>2. PICK d \in Installers : setupCall[d].mail = e /\ Placed(d)
        BY <4>1 DEF Administrators
      <4>3. d # c
        BY <4>2
      <4> QED
        BY <3>1, <4>2, <4>3 DEF Placed
    <3> QED
      BY <3>2, <3>3, <3>4
  <2> QED
    BY <2>1, <2>2, <2>3
<1>7. ASSUME NEW c \in Installers, UndoInstallation(c) PROVE AccInv'
  <2> USE <1>7 DEF UndoInstallation
  <2>1. AccTypeOK'
    BY DEF AccTypeOK
  <2>2. OneInstaller'
    BY AccountsAssumption DEF AccTypeOK, OneInstaller, UnderLock, Locked
  <2>3. Administrators' /\ Installed' /\ BansKept'
    BY AccountsAssumption DEF AccTypeOK, OneInstaller, UnderLock, Placed, Administrators,
       Installed, BansKept
  <2> QED
    BY <2>1, <2>2, <2>3
<1>8. ASSUME NEW c \in Installers, SetupDies(c) PROVE AccInv'
  <2> USE <1>8 DEF SetupDies
  <2>1. AccTypeOK'
    BY DEF AccTypeOK
  <2>2. OneInstaller'
    BY AccountsAssumption DEF AccTypeOK, OneInstaller, UnderLock, Locked
  <2>3. Administrators' /\ Installed' /\ BansKept'
    BY AccountsAssumption DEF AccTypeOK, OneInstaller, UnderLock, Placed, Administrators,
       Installed, BansKept
  <2> QED
    BY <2>1, <2>2, <2>3
<1>9. ASSUME NEW c \in Installers, NEW e \in Mails, PostInstall(c, e) PROVE AccInv'
  <2> USE <1>9 DEF PostInstall
  <2>1. AccTypeOK'
    BY DEF AccTypeOK
  <2>2. OneInstaller'
    BY AccountsAssumption DEF AccTypeOK, OneInstaller, UnderLock, Locked
  <2>3. Administrators' /\ Installed' /\ BansKept'
    BY AccountsAssumption DEF AccTypeOK, OneInstaller, UnderLock, Placed, Administrators,
       Installed, BansKept
  <2> QED
    BY <2>1, <2>2, <2>3
<1>10. ASSUME NEW e \in Mails, AccountArrives(e) PROVE AccInv'
  <2> USE <1>10 DEF AccountArrives
  <2>1. AccTypeOK'
    BY DEF AccTypeOK
  <2>2. OneInstaller'
    BY AccountsAssumption DEF AccTypeOK, OneInstaller, UnderLock, Locked
  <2>3. Administrators' /\ Installed' /\ BansKept'
    BY AccountsAssumption DEF AccTypeOK, OneInstaller, UnderLock, Placed, Administrators,
       Installed, BansKept
  <2> QED
    BY <2>1, <2>2, <2>3
<1>11. ASSUME NEW e \in Mails, BeginSignIn(e) PROVE AccInv'
  <2> USE <1>11 DEF BeginSignIn
  <2>1. AccTypeOK'
    BY DEF AccTypeOK
  <2>2. OneInstaller'
    BY AccountsAssumption DEF AccTypeOK, OneInstaller, UnderLock, Locked
  <2>3. Administrators' /\ Installed' /\ BansKept'
    BY AccountsAssumption DEF AccTypeOK, OneInstaller, UnderLock, Placed, Administrators,
       Installed, BansKept
  <2> QED
    BY <2>1, <2>2, <2>3
<1>12. ASSUME NEW e \in Mails, EndSignIn(e) PROVE AccInv'
  <2> USE <1>12 DEF EndSignIn
  <2>1. AccTypeOK'
    BY DEF AccTypeOK
  <2>2. OneInstaller'
    BY AccountsAssumption DEF AccTypeOK, OneInstaller, UnderLock, Locked
  <2>3. Administrators' /\ Installed' /\ BansKept'
    BY AccountsAssumption DEF AccTypeOK, OneInstaller, UnderLock, Placed, Administrators,
       Installed, BansKept
  <2> QED
    BY <2>1, <2>2, <2>3
<1>13. ASSUME NEW e \in Mails, SignOut(e) PROVE AccInv'
  <2> USE <1>13 DEF SignOut
  <2>1. AccTypeOK'
    BY DEF AccTypeOK
  <2>2. OneInstaller'
    BY AccountsAssumption DEF AccTypeOK, OneInstaller, UnderLock, Locked
  <2>3. Administrators' /\ Installed' /\ BansKept'
    BY AccountsAssumption DEF AccTypeOK, OneInstaller, UnderLock, Placed, Administrators,
       Installed, BansKept
  <2> QED
    BY <2>1, <2>2, <2>3
<1>14. ASSUME NEW e \in Mails, EndSessions(e) PROVE AccInv'
  <2> USE <1>14 DEF EndSessions
  <2>1. AccTypeOK'
    BY DEF AccTypeOK
  <2>2. OneInstaller'
    BY AccountsAssumption DEF AccTypeOK, OneInstaller, UnderLock, Locked
  <2>3. Administrators' /\ Installed' /\ BansKept'
    BY AccountsAssumption DEF AccTypeOK, OneInstaller, UnderLock, Placed, Administrators,
       Installed, BansKept
  <2> QED
    BY <2>1, <2>2, <2>3
<1>15. ASSUME NEW e \in Mails, FoundOrganization(e) PROVE AccInv'
  <2> USE <1>15 DEF FoundOrganization
  <2>1. AccTypeOK'
    BY DEF AccTypeOK
  <2>2. OneInstaller'
    BY AccountsAssumption DEF AccTypeOK, OneInstaller, UnderLock, Locked
  <2>3. Administrators' /\ Installed' /\ BansKept'
    BY AccountsAssumption DEF AccTypeOK, OneInstaller, UnderLock, Placed, Administrators,
       Installed, BansKept
  <2> QED
    BY <2>1, <2>2, <2>3
<1>16. ASSUME NEW by \in Mails, NEW e \in Mails, PatchFounding(by, e) PROVE AccInv'
  <2> USE <1>16 DEF PatchFounding
  <2>1. AccTypeOK'
    BY DEF AccTypeOK
  <2>2. OneInstaller'
    BY AccountsAssumption DEF AccTypeOK, OneInstaller, UnderLock, Locked
  <2>3. Administrators' /\ Installed' /\ BansKept'
    BY AccountsAssumption DEF AccTypeOK, OneInstaller, UnderLock, Placed, Administrators,
       Installed, BansKept
  <2> QED
    BY <2>1, <2>2, <2>3
<1>17. ASSUME NEW by \in Mails, NEW e \in Mails, PatchBan(by, e) PROVE AccInv'
  <2> USE <1>17 DEF PatchBan
  <2>1. AccTypeOK'
    BY DEF AccTypeOK
  <2>2. OneInstaller'
    BY AccountsAssumption DEF AccTypeOK, OneInstaller, UnderLock, Locked
  <2>3. Administrators' /\ Installed' /\ BansKept'
    <3>1. Administrators' /\ Installed'
      BY DEF Administrators, Installed, Placed
    <3>2. ASSUME ~banRaced' PROVE banned' \cap loginSession' \subseteq banning' /\ banned' \cap signingIn' = {}
      <4>1. ~banRaced /\ e \notin signingIn
        BY <3>2
      <4> QED
        BY <4>1 DEF BansKept
    <3> QED
      BY <3>1, <3>2 DEF BansKept
  <2> QED
    BY <2>1, <2>2, <2>3
<1>18. ASSUME NEW by \in Mails, NEW e \in Mails, PatchUnban(by, e) PROVE AccInv'
  <2> USE <1>18 DEF PatchUnban
  <2>1. AccTypeOK'
    BY DEF AccTypeOK
  <2>2. OneInstaller'
    BY AccountsAssumption DEF AccTypeOK, OneInstaller, UnderLock, Locked
  <2>3. Administrators' /\ Installed' /\ BansKept'
    BY AccountsAssumption DEF AccTypeOK, OneInstaller, UnderLock, Placed, Administrators,
       Installed, BansKept
  <2> QED
    BY <2>1, <2>2, <2>3
<1>19. ASSUME NEW by \in Mails, NEW e \in Mails, DeleteOrganization(by, e) PROVE AccInv'
  <2> USE <1>19 DEF DeleteOrganization
  <2>1. AccTypeOK'
    BY DEF AccTypeOK
  <2>2. OneInstaller'
    BY AccountsAssumption DEF AccTypeOK, OneInstaller, UnderLock, Locked
  <2>3. Administrators' /\ Installed' /\ BansKept'
    BY AccountsAssumption DEF AccTypeOK, OneInstaller, UnderLock, Placed, Administrators,
       Installed, BansKept
  <2> QED
    BY <2>1, <2>2, <2>3
<1>20. ASSUME NEW by \in Mails, NEW e \in Mails, NEW r \in {"user", "admin"}, PatchRole(by, e, r) PROVE AccInv'
  <2> USE <1>20 DEF PatchRole
  <2>1. AccTypeOK'
    BY DEF AccTypeOK
  <2>2. OneInstaller'
    BY AccountsAssumption DEF AccTypeOK, OneInstaller, UnderLock, Locked
  <2>3. Administrators' /\ Installed' /\ BansKept'
    BY AccountsAssumption DEF AccTypeOK, OneInstaller, UnderLock, Placed, Administrators,
       Installed, BansKept
  <2> QED
    BY <2>1, <2>2, <2>3
<1>21. CASE UNCHANGED accVars
  BY <1>21 DEF accVars, AccTypeOK, OneInstaller, UnderLock, Placed, Administrators, Installed,
     BansKept
<1> QED
  BY <1>1, <1>2, <1>3, <1>4, <1>5, <1>6, <1>7, <1>8, <1>9, <1>10, <1>11, <1>12, <1>13, <1>14,
     <1>15, <1>16, <1>17, <1>18, <1>19, <1>20, <1>21 DEF AccNext

LEMMA AccountsImplied == AccInv => InstalledOnce
BY DEF AccInv, AccTypeOK, Administrators, Installed, BansKept, Placed, InstalledOnce

-----------------------------------------------------------------------------
(* Administration: Tenancy                                                 *)

TeamsOf(p) == {t \in Teams : <<p, t>> \in projectTeam}

(* Outside overlaps one request is past its checks, and what it found      *)
(* still holds.                                                            *)
StillGranted(r) ==
  /\ r.op = "assign" => /\ r.role \in SystemRoles \cup DOMAIN customRole
                        /\ r.role = "owner" \/ Owners \ {r.user} # {}
  /\ r.op = "deleteRole" => \A u \in OrgUsers : role[u] # r.role
  /\ r.op = "createProject" => r.project \notin DOMAIN accessMode
  /\ r.op = "removedTeam" => r.remaining = TeamsOf(r.project)
RolesHeld ==
  /\ Owners # {}
  /\ \A u \in OrgUsers : role[u] \in SystemRoles \cup DOMAIN customRole
TenInv ==
  /\ TenTypeOK
  /\ \A r \in pending : r.op = "addTeam" => r.project \in DOMAIN accessMode
  /\ DOMAIN defaultEnv = {} /\ DOMAIN app = {} /\ archived = {}
  /\ ~overlapped =>
       /\ RolesHeld
       /\ \A q, r \in pending : q = r
       /\ \A r \in pending : StillGranted(r)

(* What a project contains: Projects                                       *)
OpenProject == [op : {"createProject"}, project : Projects, mode : {"organization"}, teams : {{}}]
ProjectsShape ==
  /\ role \in [OrgUsers -> SystemRoles] /\ Owners # {}
  /\ DOMAIN customRole = {} /\ team = {} /\ teamMember = {} /\ projectTeam = {}
  /\ DOMAIN accessMode \subseteq Projects /\ \A p \in DOMAIN accessMode : accessMode[p] = "organization"
  /\ DOMAIN defaultEnv = DOMAIN accessMode /\ archived \subseteq DOMAIN defaultEnv
  /\ environment \subseteq Projects \X Envs
  /\ DOMAIN app \subseteq Apps /\ \A a \in DOMAIN app : app[a] \in AppRow /\ app[a].project \in DOMAIN defaultEnv
  /\ pending \subseteq PrjRequest \cup OpenProject /\ overlapped \in BOOLEAN
StillValid(r) ==
  /\ r.op = "createProject" => r.project \notin DOMAIN accessMode
  /\ r.op = "deleteProject" => AppsOf(r.project) = {}
  /\ r.op = "createEnv" => r.project \notin archived
  /\ r.op = "deleteEnv" => /\ r.project \in DOMAIN defaultEnv => defaultEnv[r.project] # r.env
                           /\ \A a \in AppsOf(r.project) : app[a].env # r.env
  /\ r.op = "setDefault" => Holds(r.project, r.env)
  /\ r.op = "createApp" => r.project \notin archived /\ ValidEnv(r.project, r.env)
  /\ r.op = "patchApp" => r.app \in AppsOf(r.project) /\ ValidEnv(r.project, r.env)
PrjInv ==
  /\ ProjectsShape
  /\ ~overlapped =>
       /\ DefaultsExist
       /\ \A q, r \in pending : q = r
       /\ \A r \in pending : StillValid(r)

AdmInv == (moving = "tenancy" => TenInv) /\ (moving = "projects" => PrjInv)

LEMMA TenancyStart == TenInit /\ PrjInit => TenInv
<1> SUFFICES ASSUME TenInit, PrjInit PROVE TenInv
  OBVIOUS
<1>1. TenTypeOK
  <2>1. role \in [OrgUsers -> SystemRoles \cup CustomRoles]
    BY DEF TenInit, SystemRoles
  <2>2. DOMAIN customRole = {} /\ DOMAIN accessMode = {}
    BY DEF TenInit
  <2> QED
    BY <2>1, <2>2 DEF TenInit, TenTypeOK
<1>2. RolesHeld
  BY TenancyAssumption DEF TenInit, RolesHeld, Owners, SystemRoles
<1> QED
  BY <1>1, <1>2 DEF TenInit, PrjInit, TenInv

(* What a request carries, by its operation.                               *)
LEMMA TenancyRequests ==
  ASSUME NEW r \in TenRequest
  PROVE  /\ r.op = "assign" => r.user \in OrgUsers /\ r.role \in SystemRoles \cup CustomRoles
         /\ r.op = "deleteRole" => r.role \in CustomRoles
         /\ r.op = "addMember" => r.user \in OrgUsers /\ r.team \in Teams
         /\ r.op = "addTeam" => r.project \in Projects /\ r.team \in Teams
         /\ r.op \in {"createProject", "setAccess"} =>
              r.project \in Projects /\ r.mode \in Modes /\ r.teams \subseteq Teams
         /\ r.op \in {"removeTeam", "removedTeam"} => r.project \in Projects
         /\ r.op = "removedTeam" => r.remaining \subseteq Teams
BY DEF TenRequest

(* A handler that passes its checks alone leaves its request alone, and    *)
(* one that writes alone leaves none.                                      *)
LEMMA AskedAlone ==
  ASSUME pending \subseteq TenRequest, overlapped \in BOOLEAN, NEW r \in TenRequest, Ask(r)
  PROVE  /\ pending' \subseteq TenRequest /\ overlapped' \in BOOLEAN
         /\ pending' = pending \cup {r}
         /\ ~overlapped' => ~overlapped /\ pending' = {r}
BY DEF Ask

LEMMA WrittenAlone ==
  ASSUME pending \subseteq TenRequest, overlapped \in BOOLEAN,
         ~overlapped => \A q, r \in pending : q = r,
         AtOnce \/ \E r \in pending : Done(r)
  PROVE  /\ pending' \subseteq pending /\ overlapped' \in BOOLEAN
         /\ ~overlapped' => ~overlapped /\ pending' = {}
BY DEF AtOnce, Done

LEMMA AnotherOwner ==
  ASSUME NEW u \in OrgUsers, NEW r, Owners # {},
         role[u] = "owner" /\ r # "owner" => Cardinality(Owners) > 1
  PROVE  r = "owner" \/ Owners \ {u} # {}
<1> SUFFICES ASSUME r # "owner", Owners \subseteq {u} PROVE FALSE
  OBVIOUS
<1>1. Owners = {u} /\ role[u] = "owner"
  BY DEF Owners
<1>2. Cardinality({u}) = 1
  BY FS_Singleton
<1> QED
  BY <1>1, <1>2

(* The rule of RulesKept about restricted projects.                        *)
OpenedOnRequest ==
  \A p \in DOMAIN accessMode :
    accessMode[p] = "team" /\ accessMode'[p] = "organization" =>
      \/ projectTeam' \cap ({p} \X Teams) = {}
      \/ \E r \in pending : r.op = "setAccess" /\ r.project = p
TenKept == TenInv' /\ (overlapped' \/ OpenedOnRequest)

(* The handlers that make their checks, and write later.                   *)
LEMMA TenancyAsked ==
  ASSUME TenInv, UNCHANGED <<TenRows, prjVars>>, NEW r \in TenRequest, Ask(r),
         r.op = "addTeam" => r.project \in DOMAIN accessMode,
         ~overlapped => StillGranted(r)
  PROVE  TenKept
<1>1. /\ pending' \subseteq TenRequest /\ overlapped' \in BOOLEAN
      /\ pending' = pending \cup {r}
      /\ ~overlapped' => ~overlapped /\ pending' = {r}
  BY AskedAlone DEF TenInv, TenTypeOK
<1>2. TenTypeOK'
  BY <1>1 DEF TenInv, TenTypeOK, TenRows
<1>3. ASSUME ~overlapped' PROVE /\ RolesHeld' /\ \A q, s \in pending' : q = s
                                /\ \A s \in pending' : StillGranted(s)'
  <2>1. ~overlapped /\ pending' = {r}
    BY <1>1, <1>3
  <2>2. RolesHeld'
    BY <2>1 DEF TenInv, RolesHeld, Owners, TenRows
  <2>3. StillGranted(r)'
    BY <2>1 DEF StillGranted, Owners, TeamsOf, TenRows
  <2> QED
    BY <2>1, <2>2, <2>3
<1>4. OpenedOnRequest
  BY DEF OpenedOnRequest, TenRows, TenInv, TenTypeOK, Modes
<1> QED
  BY <1>1, <1>2, <1>3, <1>4 DEF TenKept, TenInv, TenRows, prjVars

(* The handlers that write, alone or with their checks.                    *)
LEMMA TenancyWritten ==
  ASSUME TenInv, UNCHANGED prjVars, AtOnce \/ \E r \in pending : Done(r),
         TenTypeOK', ~overlapped => OpenedOnRequest,
         DOMAIN accessMode \subseteq DOMAIN accessMode',
         ~overlapped /\ ~overlapped' => RolesHeld'
  PROVE  TenKept
<1>1. /\ pending' \subseteq pending /\ overlapped' \in BOOLEAN
      /\ ~overlapped' => ~overlapped /\ pending' = {}
  BY WrittenAlone DEF TenInv, TenTypeOK
<1> QED
  BY <1>1 DEF TenKept, TenInv, prjVars

LEMMA TenancyStep == TenInv /\ TenNext /\ UNCHANGED prjVars => TenKept
<1> SUFFICES ASSUME TenInv, TenNext, UNCHANGED prjVars PROVE TenKept
  OBVIOUS
<1>1. ASSUME NEW u \in OrgUsers, NEW r \in SystemRoles \cup CustomRoles, AssignRole(u, r) PROVE TenKept
  <2> DEFINE q == [op |-> "assign", user |-> u, role |-> r]
  <2>1. q \in TenRequest
    BY DEF TenRequest
  <2>2. ASSUME ~overlapped PROVE StillGranted(q)
    BY <1>1, <2>2, AnotherOwner DEF AssignRole, StillGranted, TenInv, RolesHeld
  <2>3. Ask(q) /\ UNCHANGED TenRows
    BY <1>1 DEF AssignRole
  <2>4. q.op # "addTeam"
    OBVIOUS
  <2> HIDE DEF q
  <2> QED
    BY <2>1, <2>2, <2>3, <2>4, TenancyAsked DEF prjVars
<1>2. ASSUME NEW r \in CustomRoles, DeleteRole(r) PROVE TenKept
  <2> DEFINE q == [op |-> "deleteRole", role |-> r]
  <2>1. q \in TenRequest /\ q.op # "addTeam" /\ Ask(q) /\ UNCHANGED TenRows /\ StillGranted(q)
    BY <1>2 DEF TenRequest, DeleteRole, StillGranted
  <2> HIDE DEF q
  <2> QED
    BY <2>1, TenancyAsked DEF prjVars
<1>3. ASSUME NEW r \in CustomRoles, NEW granted \in {{"projects.read"}, Permissions},
             CreateRole(r, granted) \/ UpdateRole(r, granted)
      PROVE  TenKept
  <2>1. /\ AtOnce /\ UNCHANGED <<role, team, teamMember, accessMode, projectTeam>>
        /\ DOMAIN customRole \subseteq DOMAIN customRole' /\ DOMAIN customRole' \subseteq CustomRoles
    BY <1>3 DEF CreateRole, UpdateRole, TenInv, TenTypeOK
  <2>2. \A s \in DOMAIN customRole' : customRole'[s] \subseteq Permissions
    BY <1>3 DEF CreateRole, UpdateRole, TenInv, TenTypeOK, Permissions
  <2>3. TenTypeOK'
    BY <2>1, <2>2, WrittenAlone DEF TenInv, TenTypeOK
  <2>4. RolesHeld => RolesHeld'
    BY <2>1 DEF RolesHeld, Owners
  <2>5. OpenedOnRequest
    BY <2>1 DEF OpenedOnRequest, TenInv, TenTypeOK, Modes
  <2> QED
    BY <2>1, <2>3, <2>4, <2>5, TenancyWritten DEF TenInv
<1>4. ASSUME NEW t \in Teams, NEW u \in OrgUsers, CreateTeam(u, t) PROVE TenKept
  <2> DEFINE q == [op |-> "addMember", user |-> u, team |-> t]
  <2>1. q \in TenRequest /\ q.op = "addMember" /\ Ask(q) /\ team \subseteq team'
        /\ team' \subseteq Teams /\ UNCHANGED <<role, customRole, teamMember, accessMode, projectTeam>>
    BY <1>4 DEF TenRequest, CreateTeam, TenInv, TenTypeOK
  <2> HIDE DEF q
  <2>2. /\ pending' \subseteq TenRequest /\ overlapped' \in BOOLEAN
        /\ pending' = pending \cup {q}
        /\ ~overlapped' => ~overlapped /\ pending' = {q}
    BY <2>1, AskedAlone DEF TenInv, TenTypeOK
  <2>3. TenTypeOK'
    BY <2>1, <2>2 DEF TenInv, TenTypeOK
  <2>4. OpenedOnRequest
    BY <2>1 DEF OpenedOnRequest, TenInv, TenTypeOK, Modes
  <2>5. RolesHeld => RolesHeld'
    BY <2>1 DEF RolesHeld, Owners
  <2>6. ~overlapped' => \A s \in pending' : StillGranted(s)'
    BY <2>1, <2>2 DEF StillGranted
  <2> QED
    BY <2>1, <2>2, <2>3, <2>4, <2>5, <2>6 DEF TenKept, TenInv, prjVars
<1>5. ASSUME NEW t \in Teams, NEW u \in OrgUsers, AddTeamMember(u, t) PROVE TenKept
  <2> DEFINE q == [op |-> "addMember", user |-> u, team |-> t]
  <2>1. q \in TenRequest /\ q.op # "addTeam" /\ Ask(q) /\ UNCHANGED TenRows /\ StillGranted(q)
    BY <1>5 DEF TenRequest, AddTeamMember, StillGranted
  <2> HIDE DEF q
  <2> QED
    BY <2>1, TenancyAsked DEF prjVars
<1>6. ASSUME NEW p \in Projects, NEW t \in Teams, AddProjectTeam(p, t) PROVE TenKept
  <2> DEFINE q == [op |-> "addTeam", project |-> p, team |-> t]
  <2>1. q \in TenRequest /\ q.project \in DOMAIN accessMode /\ Ask(q) /\ UNCHANGED TenRows /\ StillGranted(q)
    BY <1>6 DEF TenRequest, AddProjectTeam, StillGranted
  <2> HIDE DEF q
  <2> QED
    BY <2>1, TenancyAsked DEF prjVars
<1>7. ASSUME NEW p \in Projects, NEW mode \in Modes, NEW teams \in SUBSET Teams,
             CreateProject(p, mode, teams) \/ SetAccess(p, mode, teams)
      PROVE  TenKept
  <2> DEFINE q == [op |-> "createProject", project |-> p, mode |-> mode, teams |-> teams]
             s == [op |-> "setAccess", project |-> p, mode |-> mode, teams |-> teams]
  <2>1. /\ q \in TenRequest /\ q.op # "addTeam" /\ (p \notin DOMAIN accessMode => StillGranted(q))
        /\ s \in TenRequest /\ s.op # "addTeam" /\ StillGranted(s)
    BY DEF TenRequest, StillGranted
  <2>2. UNCHANGED TenRows /\ ((Ask(q) /\ p \notin DOMAIN accessMode) \/ Ask(s))
    BY <1>7 DEF CreateProject, SetAccess
  <2> HIDE DEF q, s
  <2> QED
    BY <2>1, <2>2, TenancyAsked DEF prjVars
<1>8. ASSUME NEW p \in Projects, NEW t \in Teams, RemoveProjectTeam(p, t) PROVE TenKept
  <2> DEFINE q == [op |-> "removeTeam", project |-> p]
  <2>1. q \in TenRequest /\ q.op = "removeTeam" /\ Ask(q) /\ projectTeam' \subseteq projectTeam
        /\ UNCHANGED <<role, customRole, team, teamMember, accessMode>>
    BY <1>8 DEF TenRequest, RemoveProjectTeam
  <2> HIDE DEF q
  <2>2. /\ pending' \subseteq TenRequest /\ overlapped' \in BOOLEAN
        /\ pending' = pending \cup {q}
        /\ ~overlapped' => ~overlapped /\ pending' = {q}
    BY <2>1, AskedAlone DEF TenInv, TenTypeOK
  <2>3. TenTypeOK'
    BY <2>1, <2>2 DEF TenInv, TenTypeOK
  <2>4. OpenedOnRequest
    BY <2>1 DEF OpenedOnRequest, TenInv, TenTypeOK, Modes
  <2>5. RolesHeld => RolesHeld'
    BY <2>1 DEF RolesHeld, Owners
  <2>6. ~overlapped' => \A s \in pending' : StillGranted(s)'
    BY <2>1, <2>2 DEF StillGranted
  <2> QED
    BY <2>1, <2>2, <2>3, <2>4, <2>5, <2>6 DEF TenKept, TenInv, prjVars
<1>9. ASSUME NEW t \in Teams, DeleteTeam(t) PROVE TenKept
  <2>1. /\ AtOnce /\ UNCHANGED <<role, customRole, accessMode>> /\ team' \subseteq Teams
        /\ teamMember' \subseteq team' \X OrgUsers /\ projectTeam' \subseteq (DOMAIN accessMode) \X team'
    BY <1>9 DEF DeleteTeam, TenInv, TenTypeOK
  <2>2. TenTypeOK'
    BY <2>1, WrittenAlone DEF TenInv, TenTypeOK
  <2>3. OpenedOnRequest
    BY <2>1 DEF OpenedOnRequest, TenInv, TenTypeOK, Modes
  <2>4. RolesHeld => RolesHeld'
    BY <2>1 DEF RolesHeld, Owners
  <2> QED
    BY <2>1, <2>2, <2>3, <2>4, TenancyWritten DEF TenInv
<1>10. ASSUME NEW t \in Teams, NEW u \in OrgUsers, RemoveTeamMember(u, t) PROVE TenKept
  <2>1. AtOnce /\ UNCHANGED <<role, customRole, team, accessMode, projectTeam>> /\ teamMember' \subseteq teamMember
    BY <1>10 DEF RemoveTeamMember
  <2>2. TenTypeOK'
    BY <2>1, WrittenAlone DEF TenInv, TenTypeOK
  <2>3. OpenedOnRequest
    BY <2>1 DEF OpenedOnRequest, TenInv, TenTypeOK, Modes
  <2>4. RolesHeld => RolesHeld'
    BY <2>1 DEF RolesHeld, Owners
  <2> QED
    BY <2>1, <2>2, <2>3, <2>4, TenancyWritten DEF TenInv
<1>11. ASSUME NEW r \in pending, RoleAssigned(r) \/ RoleDeleted(r) PROVE TenKept
  <2>1. /\ r.op = "assign" => r.user \in OrgUsers /\ r.role \in SystemRoles \cup CustomRoles
        /\ ~overlapped => StillGranted(r)
    BY TenancyRequests DEF TenInv, TenTypeOK
  <2>2. Done(r) /\ UNCHANGED <<team, teamMember, accessMode, projectTeam>>
        /\ \/ /\ r.op = "assign" /\ role' = [role EXCEPT ![r.user] = r.role] /\ UNCHANGED customRole
           \/ /\ r.op = "deleteRole" /\ customRole' = [x \in DOMAIN customRole \ {r.role} |-> customRole[x]]
              /\ UNCHANGED role
    BY <1>11 DEF RoleAssigned, RoleDeleted
  <2>3. TenTypeOK'
    BY <2>1, <2>2, WrittenAlone DEF TenInv, TenTypeOK
  <2>4. OpenedOnRequest
    BY <2>2 DEF OpenedOnRequest, TenInv, TenTypeOK, Modes
  <2>5. ASSUME ~overlapped PROVE RolesHeld'
    <3>1. RolesHeld /\ StillGranted(r)
      BY <2>1, <2>5 DEF TenInv
    <3> QED
      BY <2>1, <2>2, <3>1 DEF StillGranted, RolesHeld, Owners, TenInv, TenTypeOK
  <2> QED
    BY <2>2, <2>3, <2>4, <2>5, TenancyWritten
<1>12. ASSUME NEW r \in pending, TeamMemberAdded(r) PROVE TenKept
  <2>1. Done(r) /\ UNCHANGED <<role, customRole, team, accessMode, projectTeam>>
        /\ teamMember' \subseteq team \X OrgUsers
    BY <1>12, TenancyRequests DEF TeamMemberAdded, TenInv, TenTypeOK
  <2>2. TenTypeOK'
    BY <2>1, WrittenAlone DEF TenInv, TenTypeOK
  <2>3. OpenedOnRequest
    BY <2>1 DEF OpenedOnRequest, TenInv, TenTypeOK, Modes
  <2>4. RolesHeld => RolesHeld'
    BY <2>1 DEF RolesHeld, Owners
  <2> QED
    BY <2>1, <2>2, <2>3, <2>4, TenancyWritten DEF TenInv
<1>13. ASSUME NEW r \in pending, AccessWritten(r) PROVE TenKept
  <2>1. r.op \in {"createProject", "setAccess"} /\ Done(r) /\ UNCHANGED <<role, customRole, team, teamMember>>
    BY <1>13 DEF AccessWritten
  <2>2. r.project \in Projects /\ r.mode \in Modes
    BY <2>1, TenancyRequests DEF TenInv, TenTypeOK
  <2>3. CASE UNCHANGED <<accessMode, projectTeam>>
    <3>1. TenTypeOK'
      BY <2>1, <2>3, WrittenAlone DEF TenInv, TenTypeOK
    <3>2. OpenedOnRequest
      BY <2>3 DEF OpenedOnRequest, TenInv, TenTypeOK, Modes
    <3>3. RolesHeld => RolesHeld'
      BY <2>1 DEF RolesHeld, Owners
    <3> QED
      BY <2>1, <2>3, <3>1, <3>2, <3>3, TenancyWritten DEF TenInv
  <2>4. CASE /\ r.teams \subseteq team
             /\ accessMode' = [p \in DOMAIN accessMode \cup {r.project} |->
                                IF p = r.project THEN r.mode ELSE accessMode[p]]
             /\ projectTeam' = {row \in projectTeam : row[1] # r.project} \cup ({r.project} \X r.teams)
    <3>1. /\ DOMAIN accessMode' = DOMAIN accessMode \cup {r.project}
          /\ accessMode'[r.project] = r.mode
          /\ \A p \in DOMAIN accessMode : p # r.project => accessMode'[p] = accessMode[p]
      BY <2>4
    <3>2. projectTeam' \subseteq (DOMAIN accessMode') \X team
      BY <2>4, <3>1 DEF TenInv, TenTypeOK
    <3>3. TenTypeOK'
      BY <2>1, <2>2, <3>1, <3>2, WrittenAlone DEF TenInv, TenTypeOK
    <3>4. ASSUME ~overlapped PROVE OpenedOnRequest
      <4>1. StillGranted(r)
        BY <3>4 DEF TenInv
      <4> QED
        BY <2>1, <3>1, <4>1 DEF OpenedOnRequest, StillGranted, TenInv, TenTypeOK, Modes
    <3>5. RolesHeld => RolesHeld'
      BY <2>1 DEF RolesHeld, Owners
    <3> QED
      BY <2>1, <3>1, <3>3, <3>4, <3>5, TenancyWritten DEF TenInv
  <2> QED
    BY <1>13, <2>3, <2>4 DEF AccessWritten
<1>14. ASSUME NEW r \in pending, ProjectTeamAdded(r) PROVE TenKept
  <2>1. r.op = "addTeam" /\ Done(r) /\ UNCHANGED <<role, customRole, team, teamMember>>
    BY <1>14 DEF ProjectTeamAdded
  <2>2. r.project \in DOMAIN accessMode
    BY <2>1 DEF TenInv
  <2>3. /\ DOMAIN accessMode' = DOMAIN accessMode
        /\ \A p \in DOMAIN accessMode : accessMode'[p] \in {accessMode[p], "team"}
        /\ projectTeam' \subseteq (DOMAIN accessMode) \X team
    BY <1>14, <2>2 DEF ProjectTeamAdded, TenInv, TenTypeOK
  <2>4. TenTypeOK'
    BY <2>1, <2>3, WrittenAlone DEF TenInv, TenTypeOK, Modes
  <2>5. OpenedOnRequest
    BY <2>3 DEF OpenedOnRequest
  <2>6. RolesHeld => RolesHeld'
    BY <2>1 DEF RolesHeld, Owners
  <2> QED
    BY <2>1, <2>3, <2>4, <2>5, <2>6, TenancyWritten DEF TenInv
<1>15. ASSUME NEW r \in pending, ReadRemaining(r) PROVE TenKept
  <2>1. r.op = "removeTeam" /\ UNCHANGED <<TenRows, overlapped>>
    BY <1>15 DEF ReadRemaining
  <2>2. r.project \in Projects
    BY <2>1, TenancyRequests DEF TenInv, TenTypeOK
  <2>3. PICK q \in TenRequest : /\ pending' = (pending \ {r}) \cup {q}
                               /\ q.op = "removedTeam" /\ q.remaining = TeamsOf(q.project)
    <3> DEFINE q == [op |-> "removedTeam", project |-> r.project, remaining |-> TeamsOf(r.project)]
    <3>1. q \in TenRequest /\ q.op = "removedTeam" /\ q.remaining = TeamsOf(q.project)
      BY <2>2 DEF TenRequest, TeamsOf
    <3>2. pending' = (pending \ {r}) \cup {q}
      BY <1>15 DEF ReadRemaining, TeamsOf
    <3> QED
      BY <3>1, <3>2
  <2>4. TenTypeOK'
    BY <2>1, <2>3 DEF TenInv, TenTypeOK, TenRows
  <2>5. OpenedOnRequest
    BY <2>1 DEF OpenedOnRequest, TenInv, TenTypeOK, Modes, TenRows
  <2>6. RolesHeld => RolesHeld'
    BY <2>1 DEF RolesHeld, Owners, TenRows
  <2>7. ASSUME ~overlapped PROVE pending' = {q} /\ StillGranted(q)'
    BY <2>1, <2>3, <2>7 DEF TenInv, StillGranted, TeamsOf, TenRows
  <2> QED
    BY <2>1, <2>3, <2>4, <2>5, <2>6, <2>7 DEF TenKept, TenInv, TenRows, prjVars
<1>16. ASSUME NEW r \in pending, ProjectTeamRemoved(r) PROVE TenKept
  <2>1. /\ r.op = "removedTeam" /\ Done(r) /\ UNCHANGED <<role, customRole, team, teamMember, projectTeam>>
        /\ DOMAIN accessMode' = DOMAIN accessMode
        /\ \A p \in DOMAIN accessMode : p # r.project => accessMode'[p] = accessMode[p]
        /\ r.project \in DOMAIN accessMode =>
             accessMode'[r.project] = IF r.remaining # {} THEN "team" ELSE "organization"
    BY <1>16 DEF ProjectTeamRemoved
  <2>2. \A p \in DOMAIN accessMode' : accessMode'[p] \in Modes
    BY <2>1 DEF TenInv, TenTypeOK, Modes
  <2>3. TenTypeOK'
    BY <2>1, <2>2, WrittenAlone DEF TenInv, TenTypeOK
  <2>4. ASSUME ~overlapped PROVE OpenedOnRequest
    <3>1. r.remaining = TeamsOf(r.project)
      BY <2>1, <2>4 DEF TenInv, StillGranted
    <3> QED
      BY <2>1, <3>1 DEF OpenedOnRequest, TeamsOf
  <2>5. RolesHeld => RolesHeld'
    BY <2>1 DEF RolesHeld, Owners
  <2> QED
    BY <2>1, <2>3, <2>4, <2>5, TenancyWritten DEF TenInv
<1>17. CASE TenancyRestart
  <2>1. pending' = {} /\ UNCHANGED <<TenRows, overlapped>>
    BY <1>17 DEF TenancyRestart
  <2> QED
    BY <2>1 DEF TenKept, TenInv, TenTypeOK, RolesHeld, Owners, OpenedOnRequest, Modes, TenRows,
       prjVars
<1> QED
  BY <1>1, <1>2, <1>3, <1>4, <1>5, <1>6, <1>7, <1>8, <1>9, <1>10, <1>11, <1>12, <1>13,
     <1>14, <1>15, <1>16, <1>17 DEF TenNext

LEMMA ListsAgree ==
  ASSUME DOMAIN accessMode \subseteq Projects, \A p \in DOMAIN accessMode : accessMode[p] \in Modes,
         projectTeam \subseteq Projects \X Teams
  PROVE  ListMatchesDetail
<1> SUFFICES ASSUME NEW u \in OrgUsers
             PROVE  LET open == {p \in Projects : resolveProjectAccess(u, p)}
                    IN  listAccessibleProjects(u) = open /\ listProjectPage(u) = open
  BY DEF ListMatchesDetail
<1>1. CASE ~Allowed(u, "projects.read")
  BY <1>1 DEF resolveProjectAccess, listAccessibleProjects, listProjectPage
<1>2. CASE Allowed(u, "projects.read") /\ SeesAll(u)
  BY <1>2 DEF resolveProjectAccess, listAccessibleProjects, listProjectPage
<1>3. CASE Allowed(u, "projects.read") /\ ~SeesAll(u)
  <2>1. \A p \in Projects : resolveProjectAccess(u, p) <=>
          /\ p \in DOMAIN accessMode
          /\ accessMode[p] = "organization" \/ \E t \in Teams : <<p, t>> \in projectTeam /\ <<t, u>> \in teamMember
    BY <1>3 DEF resolveProjectAccess, Modes
  <2>2. listAccessibleProjects(u) = {p \in Projects : resolveProjectAccess(u, p)}
    BY <1>3, <2>1 DEF listAccessibleProjects
  <2>3. \A p \in Projects : (\E row \in projectTeam : row[1] = p /\ <<row[2], u>> \in teamMember) <=>
                            \E t \in Teams : <<p, t>> \in projectTeam /\ <<t, u>> \in teamMember
    <3> SUFFICES ASSUME NEW p \in Projects
                 PROVE  (\E row \in projectTeam : row[1] = p /\ <<row[2], u>> \in teamMember) <=>
                        \E t \in Teams : <<p, t>> \in projectTeam /\ <<t, u>> \in teamMember
      OBVIOUS
    <3>1. ASSUME NEW row \in projectTeam, row[1] = p, <<row[2], u>> \in teamMember
          PROVE  \E t \in Teams : <<p, t>> \in projectTeam /\ <<t, u>> \in teamMember
      <4>1. row \in Projects \X Teams
        OBVIOUS
      <4>2. row[2] \in Teams /\ row = <<row[1], row[2]>>
        BY <4>1
      <4> QED
        BY <3>1, <4>2
    <3>2. ASSUME NEW t \in Teams, <<p, t>> \in projectTeam, <<t, u>> \in teamMember
          PROVE  \E row \in projectTeam : row[1] = p /\ <<row[2], u>> \in teamMember
      <4>1. <<p, t>>[1] = p /\ <<p, t>>[2] = t
        OBVIOUS
      <4> QED
        BY <3>2, <4>1
    <3> QED
      BY <3>1, <3>2
  <2>4. listProjectPage(u) = {p \in Projects : resolveProjectAccess(u, p)}
    BY <1>3, <2>1, <2>3 DEF listProjectPage
  <2> QED
    BY <2>2, <2>4
<1> QED
  BY <1>1, <1>2, <1>3

LEMMA AdministrationImplied == AdmInv => Of({"tenancy", "projects"}, ListMatchesDetail)
<1>1. ASSUME TenInv PROVE ListMatchesDetail
  BY <1>1, ListsAgree DEF TenInv, TenTypeOK
<1>2. ASSUME PrjInv PROVE ListMatchesDetail
  BY <1>2, ListsAgree DEF PrjInv, ProjectsShape, Modes
<1> QED
  BY <1>1, <1>2 DEF AdmInv, Of

LEMMA ProjectsStart == TenInit /\ PrjInit => PrjInv
<1> SUFFICES ASSUME TenInit, PrjInit PROVE PrjInv
  OBVIOUS
<1>1. /\ role \in [OrgUsers -> SystemRoles] /\ Owners # {}
      /\ DOMAIN customRole = {} /\ DOMAIN accessMode = {} /\ DOMAIN defaultEnv = {} /\ DOMAIN app = {}
  BY TenancyAssumption DEF TenInit, PrjInit, SystemRoles, Owners
<1> QED
  BY <1>1 DEF TenInit, PrjInit, PrjInv, ProjectsShape, DefaultsExist

(* What a request carries, by its operation.                               *)
LEMMA ProjectRequests ==
  ASSUME NEW r \in PrjRequest \cup OpenProject
  PROVE  /\ r.op \in {"createProject", "deleteProject", "createEnv", "deleteEnv", "setDefault",
                      "createApp", "patchApp"} => r.project \in Projects
         /\ r.op = "createProject" => r.mode = "organization" /\ r.teams = {}
         /\ r.op \in {"createEnv", "deleteEnv", "setDefault"} => r.env \in Envs
         /\ r.op \in {"createApp", "patchApp"} => r.env \in Envs \cup {NoEnv}
         /\ r.op \in {"createApp", "patchApp", "deleteApp", "deploy", "attach"} => r.app \in Apps
         /\ r.op # "setAccess"
BY DEF PrjRequest, OpenProject, EnvOps

(* What every step of the projects keeps.                                  *)
PrjKept == PrjInv' /\ (overlapped' \/ ProjectRulesKept)

(* Environments of a project as ProjectRulesKept counts them, and its      *)
(* other rules.                                                            *)
GainsNothing ==
  /\ \A p \in archived : AppsOf(p)' \subseteq AppsOf(p)
  /\ \A p \in archived : {e \in Envs : Holds(p, e)'} \subseteq {e \in Envs : Holds(p, e)}
  /\ \A a \in DOMAIN app \ DOMAIN app' : app[a].project \in DOMAIN defaultEnv'

LEMMA ProjectAsked ==
  ASSUME PrjInv, UNCHANGED PrjRows, NEW r \in PrjRequest \cup OpenProject, Ask(r),
         ~overlapped => StillValid(r)
  PROVE  PrjKept
<1>1. /\ pending' \subseteq PrjRequest \cup OpenProject /\ overlapped' \in BOOLEAN
      /\ ~overlapped' => ~overlapped /\ pending' = {r}
  BY DEF Ask, PrjInv, ProjectsShape
<1>2. ProjectsShape'
  BY <1>1 DEF PrjInv, ProjectsShape, PrjRows, prjVars, TenRows, Owners
<1>3. ASSUME ~overlapped' PROVE DefaultsExist' /\ StillValid(r)' /\ GainsNothing
  <2>1. DefaultsExist /\ StillValid(r)
    BY <1>1, <1>3 DEF PrjInv
  <2>2. DefaultsExist'
    BY <2>1 DEF DefaultsExist, PrjRows, prjVars, TenRows, ValidEnv, Holds
  <2>3. StillValid(r)'
    BY <2>1 DEF StillValid, PrjRows, prjVars, TenRows, ValidEnv, Holds, AppsOf
  <2>4. GainsNothing
    BY DEF GainsNothing, PrjRows, prjVars, TenRows, Holds, AppsOf
  <2> QED
    BY <2>2, <2>3, <2>4
<1> QED
  BY <1>1, <1>2, <1>3 DEF PrjKept, PrjInv, ProjectRulesKept, Overlapping, GainsNothing

LEMMA ProjectWritten ==
  ASSUME PrjInv, AtOnce \/ \E r \in pending : Done(r),
         pending' \subseteq pending /\ overlapped' \in BOOLEAN => ProjectsShape',
         ~overlapped => DefaultsExist' /\ GainsNothing
  PROVE  PrjKept
<1>1. /\ pending' \subseteq pending /\ overlapped' \in BOOLEAN
      /\ ~overlapped' => ~overlapped /\ pending' = {}
  BY DEF AtOnce, Done, PrjInv, ProjectsShape
<1> QED
  BY <1>1 DEF PrjKept, PrjInv, ProjectRulesKept, Overlapping, GainsNothing

LEMMA ProjectsStep == PrjInv /\ PrjNext => PrjKept
<1> SUFFICES ASSUME PrjInv, PrjNext PROVE PrjKept
  OBVIOUS
<1>1. ASSUME NEW p \in Projects, CreateProject(p, "organization", {}), UNCHANGED prjVars PROVE PrjKept
  <2> DEFINE q == [op |-> "createProject", project |-> p, mode |-> "organization", teams |-> {}]
  <2>1. q \in PrjRequest \cup OpenProject /\ Ask(q) /\ UNCHANGED PrjRows /\ StillValid(q)
    BY <1>1 DEF OpenProject, CreateProject, StillValid, PrjRows
  <2> HIDE DEF q
  <2> QED
    BY <2>1, ProjectAsked
<1>2. ASSUME NEW p \in Projects, DeleteProject(p) PROVE PrjKept
  <2> DEFINE q == [op |-> "deleteProject", project |-> p]
  <2>1. q \in PrjRequest \cup OpenProject /\ Ask(q) /\ UNCHANGED PrjRows /\ StillValid(q)
    BY <1>2 DEF PrjRequest, DeleteProject, StillValid
  <2> HIDE DEF q
  <2> QED
    BY <2>1, ProjectAsked
<1>3. ASSUME NEW p \in Projects, NEW e \in Envs,
             CreateEnvironment(p, e) \/ DeleteEnvironment(p, e) \/ SetDefaultEnvironment(p, e)
      PROVE  PrjKept
  <2> DEFINE q(op) == [op |-> op, project |-> p, env |-> e]
  <2>1. \A op \in {"createEnv", "deleteEnv", "setDefault"} : q(op) \in PrjRequest \cup OpenProject
    BY DEF PrjRequest, EnvOps
  <2>2. PICK op \in {"createEnv", "deleteEnv", "setDefault"} :
          Ask(q(op)) /\ UNCHANGED PrjRows /\ StillValid(q(op))
    BY <1>3 DEF CreateEnvironment, DeleteEnvironment, SetDefaultEnvironment, StillValid
  <2> HIDE DEF q
  <2> QED
    BY <2>1, <2>2, ProjectAsked
<1>4. ASSUME NEW p \in Projects, NEW a \in Apps, NEW e \in Envs \cup {NoEnv},
             CreateApplication(p, a, e) \/ PatchApplication(p, a, e)
      PROVE  PrjKept
  <2> DEFINE q(op) == [op |-> op, app |-> a, project |-> p, env |-> e]
  <2>1. \A op \in {"createApp", "patchApp"} : q(op) \in PrjRequest \cup OpenProject
    BY DEF PrjRequest
  <2>2. PICK op \in {"createApp", "patchApp"} : Ask(q(op)) /\ UNCHANGED PrjRows /\ StillValid(q(op))
    BY <1>4 DEF CreateApplication, PatchApplication, StillValid
  <2> HIDE DEF q
  <2> QED
    BY <2>1, <2>2, ProjectAsked
<1>5. ASSUME NEW p \in Projects, NEW a \in Apps,
             DeleteApplication(p, a) \/ \E e \in Envs \cup {NoEnv} : DeployApp(p, a, e)
      PROVE  PrjKept
  <2> DEFINE q(op) == [op |-> op, app |-> a]
  <2>1. \A op \in {"deleteApp", "deploy"} : q(op) \in PrjRequest \cup OpenProject
    BY DEF PrjRequest
  <2>2. PICK op \in {"deleteApp", "deploy"} : Ask(q(op)) /\ UNCHANGED PrjRows /\ StillValid(q(op))
    BY <1>5 DEF DeleteApplication, DeployApp, StillValid
  <2> HIDE DEF q
  <2> QED
    BY <2>1, <2>2, ProjectAsked
<1>6. ASSUME NEW p \in Projects, NEW a \in Apps, NEW v \in Variables, AttachSecret(p, a, v) PROVE PrjKept
  <2> DEFINE q == [op |-> "attach", app |-> a, var |-> v]
  <2>1. q \in PrjRequest \cup OpenProject /\ Ask(q) /\ UNCHANGED PrjRows /\ StillValid(q)
    BY <1>6 DEF PrjRequest, AttachSecret, StillValid
  <2> HIDE DEF q
  <2> QED
    BY <2>1, ProjectAsked
<1>7. ASSUME NEW p \in Projects, ArchiveProject(p) \/ RestoreProject(p) PROVE PrjKept
  <2>1. /\ AtOnce /\ archived' \in {archived \cup {p}, archived \ {p}} /\ p \in DOMAIN accessMode
        /\ UNCHANGED <<TenRows, defaultEnv, environment, protected, app, variable, attachment>>
    BY <1>7 DEF ArchiveProject, RestoreProject, May, resolveProjectAccess
  <2>2. pending' \subseteq pending /\ overlapped' \in BOOLEAN => ProjectsShape'
    BY <2>1 DEF PrjInv, ProjectsShape, TenRows, Owners
  <2>3. DefaultsExist => DefaultsExist'
    BY <2>1 DEF DefaultsExist, Holds, ValidEnv
  <2>4. GainsNothing
    BY <2>1 DEF GainsNothing, Holds, AppsOf
  <2> QED
    BY <2>1, <2>2, <2>3, <2>4, ProjectWritten DEF PrjInv
<1>8. ASSUME AtOnce \/ \E r \in pending : Done(r),
             UNCHANGED <<TenRows, archived, defaultEnv, environment, app>>
      PROVE  PrjKept
  <2>1. pending' \subseteq pending /\ overlapped' \in BOOLEAN => ProjectsShape'
    BY <1>8 DEF PrjInv, ProjectsShape, TenRows, Owners
  <2>2. DefaultsExist => DefaultsExist'
    BY <1>8 DEF DefaultsExist, Holds, ValidEnv
  <2>3. GainsNothing
    BY <1>8 DEF GainsNothing, Holds, AppsOf
  <2> QED
    BY <1>8, <2>1, <2>2, <2>3, ProjectWritten DEF PrjInv
<1>9. /\ \A p, e : ProtectEnvironment(p, e) => PrjKept
      /\ \A p, e, v, secret : PutVariable(p, e, v, secret) => PrjKept
      /\ \A p, v : DeleteVariable(p, v) => PrjKept
      /\ \A p, a, v : DetachSecret(p, a, v) => PrjKept
  BY <1>8 DEF ProtectEnvironment, PutVariable, DeleteVariable, DetachSecret
<1>10. ASSUME NEW r \in pending, SecretAttached(r) PROVE PrjKept
  BY <1>8, <1>10 DEF SecretAttached
<1>11. ASSUME (\E r \in pending : Deployed(r)) \/ \E p \in Projects, a \in Apps : ArchiveApplication(p, a)
       PROVE  PrjKept
  <2>1. AtOnce \/ \E r \in pending : Done(r)
    BY <1>11 DEF ArchiveApplication, Deployed
  <2>2. UNCHANGED <<TenRows, archived, defaultEnv, environment, protected, variable, attachment>>
    BY <1>11 DEF ArchiveApplication, Deployed
  <2>3. /\ DOMAIN app' = DOMAIN app
        /\ \A x \in DOMAIN app : app'[x].project = app[x].project /\ app'[x].env = app[x].env /\ app'[x] \in AppRow
    <3>1. \A x \in DOMAIN app : /\ [app[x] EXCEPT !.archived = ~@] \in AppRow
                                /\ [app[x] EXCEPT !.archived = ~@].project = app[x].project
                                /\ [app[x] EXCEPT !.archived = ~@].env = app[x].env
                                /\ [app[x] EXCEPT !.deployed = TRUE] \in AppRow
                                /\ [app[x] EXCEPT !.deployed = TRUE].project = app[x].project
                                /\ [app[x] EXCEPT !.deployed = TRUE].env = app[x].env
      BY DEF PrjInv, ProjectsShape, AppRow
    <3>2. app' = app \/ \E y \in DOMAIN app : app' = [app EXCEPT ![y] = [app[y] EXCEPT !.archived = ~@]]
                     \/ app' = [app EXCEPT ![y] = [app[y] EXCEPT !.deployed = TRUE]]
      BY <1>11 DEF ArchiveApplication, Deployed, AppsOf
    <3> QED
      BY <3>1, <3>2 DEF PrjInv, ProjectsShape
  <2>4. pending' \subseteq pending /\ overlapped' \in BOOLEAN => ProjectsShape'
    BY <2>2, <2>3 DEF PrjInv, ProjectsShape, TenRows, Owners
  <2>5. DefaultsExist => DefaultsExist'
    BY <2>2, <2>3 DEF DefaultsExist, Holds, ValidEnv
  <2>6. GainsNothing
    BY <2>2, <2>3 DEF GainsNothing, Holds, AppsOf
  <2> QED
    BY <2>1, <2>4, <2>5, <2>6, ProjectWritten DEF PrjInv
<1>12. ASSUME NEW r \in pending, ApplicationWritten(r) PROVE PrjKept
  <2>1. Done(r) /\ UNCHANGED <<TenRows, archived, defaultEnv, environment, protected, variable, attachment>>
    BY <1>12 DEF ApplicationWritten
  <2>2. r.op \in {"createApp", "patchApp"} =>
          r.project \in Projects /\ r.env \in Envs \cup {NoEnv} /\ r.app \in Apps
    BY ProjectRequests DEF PrjInv, ProjectsShape
  <2>3. CASE app' = app
    BY <1>8, <2>1, <2>3
  <2> DEFINE row == [project |-> r.project, archived |-> FALSE, env |-> r.env, deployed |-> FALSE]
  <2>4. CASE /\ r.op = "createApp" /\ Exists(r.project) /\ r.app \notin DOMAIN app
             /\ app' = WithRow(app, r.app, row)
    <3>1. row \in AppRow /\ row.project = r.project /\ row.env = r.env
      BY <2>2, <2>4 DEF AppRow
    <3> HIDE DEF row
    <3>2. /\ DOMAIN app' = DOMAIN app \cup {r.app} /\ app'[r.app] = row
          /\ \A x \in DOMAIN app : app'[x] = app[x]
      BY <2>4 DEF WithRow
    <3>3. pending' \subseteq pending /\ overlapped' \in BOOLEAN => ProjectsShape'
      BY <2>1, <2>2, <2>4, <3>1, <3>2 DEF PrjInv, ProjectsShape, TenRows, Owners, Exists
    <3>4. ASSUME ~overlapped PROVE DefaultsExist' /\ GainsNothing
      <4>1. StillValid(r) /\ DefaultsExist
        BY <3>4 DEF PrjInv
      <4>2. r.project \notin archived /\ ValidEnv(r.project, r.env)
        BY <4>1, <2>4 DEF StillValid
      <4> QED
        BY <2>1, <3>1, <3>2, <4>1, <4>2 DEF DefaultsExist, Holds, ValidEnv, GainsNothing, AppsOf
    <3> QED
      BY <2>1, <3>3, <3>4, ProjectWritten
  <2>5. CASE r.op = "patchApp" /\ r.app \in DOMAIN app /\ app' = [app EXCEPT ![r.app].env = r.env]
    <3> DEFINE new == [app[r.app] EXCEPT !.env = r.env]
    <3>1. new \in AppRow /\ new.project = app[r.app].project /\ new.env = r.env
      BY <2>2, <2>5 DEF AppRow, PrjInv, ProjectsShape
    <3>2. app' = [app EXCEPT ![r.app] = new]
      BY <2>5
    <3> HIDE DEF new
    <3>3. /\ DOMAIN app' = DOMAIN app /\ app'[r.app] = new
          /\ \A x \in DOMAIN app : x # r.app => app'[x] = app[x]
      BY <2>5, <3>2
    <3>4. pending' \subseteq pending /\ overlapped' \in BOOLEAN => ProjectsShape'
      BY <2>1, <2>5, <3>1, <3>3 DEF PrjInv, ProjectsShape, TenRows, Owners
    <3>5. ASSUME ~overlapped PROVE DefaultsExist' /\ GainsNothing
      <4>1. StillValid(r) /\ DefaultsExist
        BY <3>5 DEF PrjInv
      <4>2. app[r.app].project = r.project /\ ValidEnv(r.project, r.env)
        BY <4>1, <2>5 DEF StillValid, AppsOf
      <4> QED
        BY <2>1, <3>1, <3>3, <4>1, <4>2 DEF DefaultsExist, Holds, ValidEnv, GainsNothing, AppsOf
    <3> QED
      BY <2>1, <3>4, <3>5, ProjectWritten
  <2> QED
    BY <1>12, <2>3, <2>4, <2>5 DEF ApplicationWritten
<1>13. ASSUME NEW r \in pending, ApplicationDeleted(r) PROVE PrjKept
  <2>1. /\ Done(r) /\ UNCHANGED <<TenRows, archived, defaultEnv, environment, protected, variable>>
        /\ DOMAIN app' \subseteq DOMAIN app /\ \A x \in DOMAIN app' : app'[x] = app[x]
    BY <1>13 DEF ApplicationDeleted, Without
  <2>2. pending' \subseteq pending /\ overlapped' \in BOOLEAN => ProjectsShape'
    BY <2>1 DEF PrjInv, ProjectsShape, TenRows, Owners
  <2>3. DefaultsExist => DefaultsExist'
    BY <2>1 DEF DefaultsExist, Holds, ValidEnv
  <2>4. GainsNothing
    BY <2>1 DEF GainsNothing, Holds, AppsOf, PrjInv, ProjectsShape
  <2> QED
    BY <2>1, <2>2, <2>3, <2>4, ProjectWritten DEF PrjInv
<1>14. ASSUME NEW r \in pending, EnvironmentCreated(r) PROVE PrjKept
  <2>1. /\ Done(r) /\ UNCHANGED <<TenRows, archived, defaultEnv, protected, app, variable, attachment>>
        /\ r.op = "createEnv" /\ environment \subseteq environment'
        /\ environment' \subseteq environment \cup {<<r.project, r.env>>}
    BY <1>14 DEF EnvironmentCreated
  <2>2. r.project \in Projects /\ r.env \in Envs
    BY <2>1, ProjectRequests DEF PrjInv, ProjectsShape
  <2>3. pending' \subseteq pending /\ overlapped' \in BOOLEAN => ProjectsShape'
    BY <2>1, <2>2 DEF PrjInv, ProjectsShape, TenRows, Owners
  <2>4. DefaultsExist => DefaultsExist'
    BY <2>1 DEF DefaultsExist, Holds, ValidEnv
  <2>5. ASSUME ~overlapped PROVE GainsNothing
    <3>1. r.project \notin archived
      BY <2>1, <2>5 DEF PrjInv, StillValid
    <3> QED
      BY <2>1, <3>1 DEF GainsNothing, Holds, AppsOf
  <2> QED
    BY <2>1, <2>3, <2>4, <2>5, ProjectWritten DEF PrjInv
<1>15. ASSUME NEW r \in pending, EnvironmentDeleted(r) PROVE PrjKept
  <2>1. /\ Done(r) /\ UNCHANGED <<TenRows, archived, defaultEnv, app>>
        /\ r.op = "deleteEnv" /\ environment' \in {environment, environment \ {<<r.project, r.env>>}}
    BY <1>15 DEF EnvironmentDeleted
  <2>2. pending' \subseteq pending /\ overlapped' \in BOOLEAN => ProjectsShape'
    BY <2>1 DEF PrjInv, ProjectsShape, TenRows, Owners
  <2>3. ASSUME ~overlapped PROVE DefaultsExist'
    <3>1. DefaultsExist /\ StillValid(r)
      BY <2>3 DEF PrjInv
    <3>2. /\ r.project \in DOMAIN defaultEnv => defaultEnv[r.project] # r.env
          /\ \A a \in DOMAIN app : app[a].project = r.project => app[a].env # r.env
      BY <2>1, <3>1 DEF StillValid, AppsOf
    <3> QED
      BY <2>1, <3>1, <3>2 DEF DefaultsExist, Holds, ValidEnv
  <2>4. GainsNothing
    BY <2>1 DEF GainsNothing, Holds, AppsOf
  <2> QED
    BY <2>1, <2>2, <2>3, <2>4, ProjectWritten DEF PrjInv
<1>16. ASSUME NEW r \in pending, DefaultEnvironmentSet(r) PROVE PrjKept
  <2>1. /\ Done(r) /\ UNCHANGED <<TenRows, archived, environment, protected, app, variable, attachment>>
        /\ r.op = "setDefault" /\ DOMAIN defaultEnv' = DOMAIN defaultEnv
        /\ \A p \in DOMAIN defaultEnv : defaultEnv'[p] = IF p = r.project THEN r.env ELSE defaultEnv[p]
    BY <1>16 DEF DefaultEnvironmentSet, Exists
  <2>2. pending' \subseteq pending /\ overlapped' \in BOOLEAN => ProjectsShape'
    BY <2>1 DEF PrjInv, ProjectsShape, TenRows, Owners
  <2>3. ASSUME ~overlapped PROVE DefaultsExist'
    <3>1. DefaultsExist /\ Holds(r.project, r.env)
      BY <2>1, <2>3 DEF PrjInv, StillValid
    <3> QED
      BY <2>1, <3>1 DEF DefaultsExist, Holds, ValidEnv
  <2>4. GainsNothing
    BY <2>1 DEF GainsNothing, Holds, AppsOf
  <2> QED
    BY <2>1, <2>2, <2>3, <2>4, ProjectWritten DEF PrjInv
<1>17. ASSUME NEW r \in pending, ProjectCreated(r) PROVE PrjKept
  <2>1. r.op = "createProject" /\ Done(r) /\ UNCHANGED <<role, customRole, team, teamMember, archived, app>>
    BY <1>17 DEF ProjectCreated, AccessWritten
  <2>2. r.project \in Projects /\ r.mode = "organization" /\ r.teams = {}
    BY <2>1, ProjectRequests DEF PrjInv, ProjectsShape
  <2>3. /\ DOMAIN accessMode' = DOMAIN accessMode \cup {r.project}
        /\ \A p \in DOMAIN accessMode' : accessMode'[p] = IF p = r.project THEN r.mode ELSE accessMode[p]
        /\ projectTeam' = {}
    BY <1>17, <2>2 DEF ProjectCreated, AccessWritten, PrjInv, ProjectsShape
  <2>4. /\ DOMAIN defaultEnv' = DOMAIN defaultEnv \cup {r.project}
        /\ \A p \in DOMAIN defaultEnv' : defaultEnv'[p] = IF p = r.project THEN Production[p] ELSE defaultEnv[p]
    BY <1>17 DEF ProjectCreated, WithRow
  <2>5. environment' = environment \cup {<<r.project, Production[r.project]>>}
    BY <1>17 DEF ProjectCreated
  <2>6. pending' \subseteq pending /\ overlapped' \in BOOLEAN => ProjectsShape'
    BY <2>1, <2>2, <2>3, <2>4, <2>5, ProjectsAssumption DEF PrjInv, ProjectsShape, Owners
  <2>7. DefaultsExist => DefaultsExist'
    BY <2>1, <2>4, <2>5 DEF DefaultsExist, Holds, ValidEnv
  <2>8. ASSUME ~overlapped PROVE GainsNothing
    <3>1. r.project \notin archived
      BY <2>1, <2>8 DEF PrjInv, StillValid, ProjectsShape
    <3> QED
      BY <2>1, <2>5, <3>1 DEF GainsNothing, Holds, AppsOf
  <2> QED
    BY <2>1, <2>6, <2>7, <2>8, ProjectWritten DEF PrjInv
<1>18. ASSUME NEW r \in pending, ProjectDeleted(r) PROVE PrjKept
  <2>1. r.op = "deleteProject" /\ Done(r) /\ UNCHANGED <<role, customRole, team, teamMember>>
    BY <1>18 DEF ProjectDeleted
  <2>2. /\ DOMAIN accessMode' = DOMAIN accessMode \ {r.project} /\ DOMAIN defaultEnv' = DOMAIN defaultEnv \ {r.project}
        /\ \A p \in DOMAIN accessMode' : accessMode'[p] = accessMode[p]
        /\ \A p \in DOMAIN defaultEnv' : defaultEnv'[p] = defaultEnv[p]
    BY <1>18 DEF ProjectDeleted, Without
  <2>3. /\ projectTeam' = {row \in projectTeam : row[1] # r.project}
        /\ archived' = archived \ {r.project}
        /\ environment' = {row \in environment : row[1] # r.project}
    BY <1>18 DEF ProjectDeleted
  <2>4. /\ DOMAIN app' = DOMAIN app \ AppsOf(r.project)
        /\ \A x \in DOMAIN app' : app'[x] = app[x]
    BY <1>18 DEF ProjectDeleted, Without
  <2>5. \A x \in DOMAIN app' : app'[x].project # r.project
    BY <2>4 DEF AppsOf
  <2>6. pending' \subseteq pending /\ overlapped' \in BOOLEAN => ProjectsShape'
    BY <2>1, <2>2, <2>3, <2>4, <2>5 DEF PrjInv, ProjectsShape, Owners
  <2>7. \A p, e : p # r.project /\ Holds(p, e) => Holds(p, e)'
    BY <2>3 DEF Holds
  <2>8. DefaultsExist => DefaultsExist'
    BY <2>2, <2>4, <2>5, <2>7 DEF DefaultsExist, ValidEnv
  <2>9. ASSUME ~overlapped PROVE GainsNothing
    <3>1. AppsOf(r.project) = {}
      BY <2>1, <2>9 DEF PrjInv, StillValid
    <3> QED
      BY <2>3, <2>4, <3>1 DEF GainsNothing, Holds, AppsOf
  <2> QED
    BY <2>1, <2>6, <2>8, <2>9, ProjectWritten DEF PrjInv
<1>19. CASE ProjectsRestart
  <2>1. pending' = {} /\ UNCHANGED <<PrjRows, overlapped>>
    BY <1>19 DEF ProjectsRestart, TenancyRestart, PrjRows
  <2>2. ProjectsShape'
    BY <2>1 DEF PrjInv, ProjectsShape, PrjRows, prjVars, TenRows, Owners
  <2>3. DefaultsExist => DefaultsExist'
    BY <2>1 DEF DefaultsExist, PrjRows, prjVars, TenRows, ValidEnv, Holds
  <2>4. GainsNothing
    BY <2>1 DEF GainsNothing, PrjRows, prjVars, TenRows, Holds, AppsOf
  <2> QED
    BY <2>1, <2>2, <2>3, <2>4 DEF PrjKept, PrjInv, ProjectRulesKept, Overlapping, GainsNothing
<1> QED
  <2>1. ASSUME NEW p \in Projects, NEW a \in Apps,
               \/ ArchiveApplication(p, a) \/ DeleteApplication(p, a)
               \/ \E e \in Envs \cup {NoEnv} :
                    CreateApplication(p, a, e) \/ PatchApplication(p, a, e) \/ DeployApp(p, a, e)
               \/ \E v \in Variables : AttachSecret(p, a, v) \/ DetachSecret(p, a, v)
        PROVE  PrjKept
    BY <1>4, <1>5, <1>6, <1>9, <1>11, <2>1
  <2>2. ASSUME NEW p \in Projects, NEW e \in Envs,
               \/ CreateEnvironment(p, e) \/ ProtectEnvironment(p, e)
               \/ DeleteEnvironment(p, e) \/ SetDefaultEnvironment(p, e)
               \/ \E v \in Variables : \E secret \in BOOLEAN : PutVariable(p, e, v, secret)
        PROVE  PrjKept
    BY <1>3, <1>9, <2>2
  <2> QED
    BY <1>1, <1>2, <1>7, <1>9, <1>10, <1>11, <1>12, <1>13, <1>14, <1>15, <1>16, <1>17, <1>18, <1>19,
       <2>1, <2>2 DEF PrjNext

-----------------------------------------------------------------------------
(* The administration between them: a part that does not move keeps what   *)
(* it began with.                                                          *)
LEMMA AdministrationStart == PlatformInit => AdmInv
BY TenancyStart, ProjectsStart DEF PlatformInit, AdmInv

LEMMA AdministrationStep ==
  ASSUME AdmInv, [PlatformNext]_PlatformVars
  PROVE  AdmInv' /\ [Of({"tenancy", "projects"}, RulesKept /\ ProjectRulesKept)]_<<tenVars, prjVars>>
<1>1. moving' = moving
  BY DEF PlatformNext, PlatformVars
<1>2. CASE UNCHANGED <<tenVars, prjVars>>
  <2>1. TenInv => TenInv'
    BY <1>2 DEF TenInv, tenVars, prjVars, TenTypeOK, RolesHeld, Owners, StillGranted, TeamsOf
  <2>2. PrjInv => PrjInv'
    <3>1. ProjectsShape => ProjectsShape'
      BY <1>2 DEF tenVars, prjVars, ProjectsShape, Owners
    <3>2. DefaultsExist => DefaultsExist'
      BY <1>2 DEF prjVars, DefaultsExist, ValidEnv, Holds
    <3>3. \A r : StillValid(r) => StillValid(r)'
      BY <1>2 DEF tenVars, prjVars, StillValid, ValidEnv, Holds, AppsOf
    <3> QED
      BY <1>2, <3>1, <3>2, <3>3 DEF PrjInv, tenVars
  <2> QED
    BY <1>1, <1>2, <2>1, <2>2 DEF AdmInv
<1>3. CASE moving = "tenancy" /\ TenNext /\ UNCHANGED prjVars
  <2>1. TenInv /\ TenInv' /\ (overlapped' \/ OpenedOnRequest)
    BY <1>3, TenancyStep DEF AdmInv, TenKept
  <2>2. RulesKept
    BY <2>1 DEF RulesKept, Overlapping, OpenedOnRequest, TenInv, RolesHeld
  <2>3. ProjectRulesKept
    BY <1>3, <2>1 DEF ProjectRulesKept, TenInv, prjVars, DefaultsExist
  <2> QED
    BY <1>1, <1>3, <2>1, <2>2, <2>3 DEF AdmInv, Of
<1>4. CASE moving = "projects" /\ PrjNext
  <2>1. PrjInv /\ PrjInv' /\ ProjectRulesKept
    BY <1>4, ProjectsStep DEF AdmInv, PrjKept, ProjectRulesKept, Overlapping
  <2>2. RulesKept
    BY <2>1 DEF RulesKept, PrjInv, ProjectsShape
  <2> QED
    BY <1>1, <1>4, <2>1, <2>2 DEF AdmInv, Of
<1>5. \/ UNCHANGED <<tenVars, prjVars>>
      \/ moving = "tenancy" /\ TenNext /\ UNCHANGED prjVars
      \/ moving = "projects" /\ PrjNext
  <2>1. CASE PlatformNext
    <3>1. CASE moving = "tenancy"
      BY <2>1, <3>1 DEF PlatformNext
    <3>2. CASE moving = "projects"
      BY <2>1, <3>2 DEF PlatformNext
    <3>3. CASE moving \notin {"tenancy", "projects"}
      BY <2>1, <3>3 DEF PlatformNext, PrjRows
    <3> QED
      BY <3>1, <3>2, <3>3
  <2>2. CASE UNCHANGED PlatformVars
    BY <2>2 DEF PlatformVars
  <2> QED
    BY <2>1, <2>2
<1> QED
  BY <1>2, <1>3, <1>4, <1>5

(* Who gets in, for every organization, its users, roles, teams and        *)
(* projects, every token and agent, and every account: the lists and the   *)
(* detail routes show a project to the same users                          *)
(* (organizations/access.ts), a registration token enrols one node and an  *)
(* agent trusts no other (nodes.routes.ts, node agent enrolment), and the  *)
(* installation makes one administrator (setup.routes.ts).                 *)
THEOREM AccessHolds == PlatformSpec => []AccessSound
<1>1. PlatformInit => AdmInv /\ EnrInv /\ AccInv
  BY AdministrationStart, EnrolmentStart, AccountsStart DEF PlatformInit
<1>2. (AdmInv /\ EnrInv /\ AccInv) /\ [PlatformNext]_PlatformVars => (AdmInv /\ EnrInv /\ AccInv)'
  <2> SUFFICES ASSUME AdmInv, EnrInv, AccInv, [PlatformNext]_PlatformVars PROVE AdmInv' /\ EnrInv' /\ AccInv'
    OBVIOUS
  <2>1. [EnrNext]_enrVars /\ [AccNext]_accVars
    BY DEF PlatformNext, PlatformVars
  <2> QED
    BY <2>1, AdministrationStep, EnrolmentStep, AccountsStep
<1>3. AdmInv /\ EnrInv /\ AccInv => AccessSound
  BY AdministrationImplied, EnrolmentImplied, AccountsImplied DEF AccessSound, Of
<1> QED
  BY <1>1, <1>2, <1>3, PTL DEF PlatformSpec

(* No step of the administration breaks a rule its handlers check before   *)
(* they write, as long as no two requests overlap: an owner remains, a     *)
(* role in use stays, a restricted project is opened on request or with    *)
(* its last team, default environments exist, an archived project gains    *)
(* nothing, and a project is deleted without applications                  *)
(* (organization-rbac.routes.ts, projects.routes.ts,                       *)
(* environments.routes.ts, applications.routes.ts).                        *)
THEOREM RulesHold == PlatformSpec => AdministrationRules
<1>1. PlatformInit => AdmInv
  BY AdministrationStart
<1>2. AdmInv /\ [PlatformNext]_PlatformVars =>
        AdmInv' /\ [Of({"tenancy", "projects"}, RulesKept /\ ProjectRulesKept)]_<<tenVars, prjVars>>
  BY AdministrationStep
<1> QED
  BY <1>1, <1>2, PTL DEF PlatformSpec, AdministrationRules

-----------------------------------------------------------------------------
(* Machines: FirecrackerAgent                                              *)

VmCallType ==
  [pc : {"none", "reserve", "write", "pull", "record", "route", "undo", "ended"}, ip : GuestIps \cup {NoIp}]
VmCleanerType == [Cleaners -> {"none", "files", "state", "unlink", "route", "remove", "ended"}]

(* Until it has ended, a deployment keeps the address it was given; while  *)
(* an address is about to be written, no file has it.                      *)
AddressKept ==
  /\ \A d \in Vms : vmCall[d].pc \in {"write", "pull", "record", "route", "undo"} => vmCall[d].ip \in GuestIps
  /\ \A d \in Vms : vmCall[d].pc \in {"pull", "record", "route", "undo"} => vmFile[d] = vmCall[d].ip
  /\ \A d, e \in Vms : vmCall[d].pc = "write" => vmFile[e] # vmCall[d].ip
  /\ \A d, e \in Vms : vmCall[d].pc = "write" /\ vmCall[e].pc = "write" => d = e
  /\ \A d, e \in Vms : d # e /\ vmFile[d] # NoIp => vmFile[d] # vmFile[e]

(* Only a deployment that has ended is watched, cleaned up or routed to,   *)
(* and a route whose file is gone is about to be looked at.                *)
RouteAnswered ==
  /\ \A d \in vmWatched : vmCleaner[d]["watcher"] = "none"
  /\ \A d \in Vms : d \in vmWatched \/ (\E c \in Cleaners : vmCleaner[d][c] # "none") => vmCall[d].pc = "ended"
  /\ \A n \in VmNames : vmRoute[n] # NoVm =>
       /\ vmCall[vmRoute[n]].pc = "ended" /\ NameOf[vmRoute[n]] = n
       /\ \/ vmFile[vmRoute[n]] # NoIp
          \/ \E c \in Cleaners : vmCleaner[vmRoute[n]][c] \in {"route", "remove"}
FcInv == FcTypeOK /\ (~vmDisturbed => AddressKept /\ RouteAnswered)

LEMMA MachinesStart == FcInit => FcInv
<1> SUFFICES ASSUME FcInit PROVE FcInv
  OBVIOUS
<1>1. FcTypeOK
  BY DEF FcInit, FcTypeOK, Cleaners
<1>2. AddressKept /\ RouteAnswered
  BY DEF FcInit, AddressKept, RouteAnswered, Cleaners
<1> QED
  BY <1>1, <1>2 DEF FcInv

(* A cleaner that goes on.                                                 *)
LEMMA CleanerGoesOn ==
  ASSUME FcTypeOK, NEW d \in Vms, NEW c \in Cleaners,
         NEW pc \in {"none", "files", "state", "unlink", "route", "remove", "ended"}, CleanerGoes(d, c, pc)
  PROVE  /\ vmCleaner' \in [Vms -> [Cleaners -> {"none", "files", "state", "unlink", "route", "remove", "ended"}]]
         /\ vmCleaner'[d][c] = pc
         /\ \A e \in Vms, x \in Cleaners : e # d \/ x # c => vmCleaner'[e][x] = vmCleaner[e][x]
BY DEF FcTypeOK, CleanerGoes

LEMMA CallGoesOn ==
  ASSUME FcTypeOK, NEW d \in Vms,
         NEW pc \in {"none", "reserve", "write", "pull", "record", "route", "undo", "ended"}, CallGoes(d, pc)
  PROVE  /\ vmCall' \in [Vms -> VmCallType]
         /\ vmCall'[d].pc = pc /\ vmCall'[d].ip = vmCall[d].ip
         /\ \A e \in Vms \ {d} : vmCall'[e] = vmCall[e]
<1> DEFINE r == [vmCall[d] EXCEPT !.pc = pc]
<1>1. vmCall \in [Vms -> VmCallType]
  BY DEF FcTypeOK, VmCallType
<1>2. r \in VmCallType /\ r.pc = pc /\ r.ip = vmCall[d].ip
  BY <1>1 DEF VmCallType
<1>3. vmCall' = [vmCall EXCEPT ![d] = r]
  BY DEF CallGoes
<1> HIDE DEF r
<1> QED
  BY <1>1, <1>2, <1>3

(* A call that goes on, and a clean-up, keep the addresses apart.          *)
LEMMA AddressesStay ==
  ASSUME AddressKept, NEW d \in Vms,
         \A e \in Vms \ {d} : vmCall'[e] = vmCall[e] /\ vmFile'[e] = vmFile[e],
         vmCall'[d].ip = vmCall[d].ip, vmCall'[d].pc # "write",
         vmCall'[d].pc \in {"pull", "record", "route", "undo"} =>
           /\ vmCall[d].pc \in {"write", "pull", "record", "route", "undo"}
           /\ vmFile'[d] = vmCall[d].ip,
         \/ vmFile'[d] \in {vmFile[d], NoIp}
         \/ vmCall[d].pc = "write" /\ vmFile'[d] = vmCall[d].ip
  PROVE  AddressKept'
<1> USE FirecrackerAssumption DEF AddressKept
<1>1. (\A e \in Vms : vmCall[e].pc \in {"write", "pull", "record", "route", "undo"} => vmCall[e].ip \in GuestIps)'
  OBVIOUS
<1>2. (\A e \in Vms : vmCall[e].pc \in {"pull", "record", "route", "undo"} => vmFile[e] = vmCall[e].ip)'
  OBVIOUS
<1>3. (\A e, f \in Vms : vmCall[e].pc = "write" => vmFile[f] # vmCall[e].ip)'
  OBVIOUS
<1>4. (\A e, f \in Vms : vmCall[e].pc = "write" /\ vmCall[f].pc = "write" => e = f)'
  OBVIOUS
<1>5. (\A e, f \in Vms : e # f /\ vmFile[e] # NoIp => vmFile[e] # vmFile[f])'
  OBVIOUS
<1> QED
  BY <1>1, <1>2, <1>3, <1>4, <1>5

(* Before it has ended, a deployment is no matter of the routes.           *)
LEMMA RoutesStay ==
  ASSUME RouteAnswered, vmRoute \in [VmNames -> Vms \cup {NoVm}], NEW d \in Vms, vmCall[d].pc # "ended",
         \A e \in Vms \ {d} : vmCall'[e] = vmCall[e] /\ vmFile'[e] = vmFile[e],
         UNCHANGED <<vmRoute, vmWatched, vmCleaner>>
  PROVE  RouteAnswered'
<1>0. (\A e \in vmWatched : vmCleaner[e]["watcher"] = "none")'
  BY DEF RouteAnswered
<1>1. (\A e \in Vms : e \in vmWatched \/ (\E c \in Cleaners : vmCleaner[e][c] # "none") => vmCall[e].pc = "ended")'
  BY DEF RouteAnswered
<1>2. ASSUME NEW n \in VmNames, vmRoute[n] # NoVm PROVE vmRoute[n] \in Vms \ {d}
  BY <1>2 DEF RouteAnswered
<1> QED
  BY <1>0, <1>1, <1>2 DEF RouteAnswered

(* A clean-up that goes on.                                                *)
LEMMA RoutesCleaned ==
  ASSUME RouteAnswered, vmRoute \in [VmNames -> Vms \cup {NoVm}], NEW d \in Vms, NEW c \in Cleaners, vmWatched \subseteq Vms,
         vmCall[d].pc = "ended", vmCall' = vmCall, vmWatched' \subseteq vmWatched,
         c = "watcher" => d \notin vmWatched',
         \A e \in Vms, x \in Cleaners : e # d \/ x # c => vmCleaner'[e][x] = vmCleaner[e][x],
         \A e \in Vms \ {d} : vmFile'[e] = vmFile[e],
         \A n \in VmNames : vmRoute'[n] # NoVm =>
           /\ vmRoute'[n] = vmRoute[n]
           /\ vmRoute[n] = d => vmFile'[d] # NoIp \/ \E x \in Cleaners : vmCleaner'[d][x] \in {"route", "remove"}
  PROVE  RouteAnswered'
<1>0. (\A e \in vmWatched : vmCleaner[e]["watcher"] = "none")'
  BY DEF RouteAnswered, Cleaners
<1>1. (\A e \in Vms : e \in vmWatched \/ (\E x \in Cleaners : vmCleaner[e][x] # "none") => vmCall[e].pc = "ended")'
  BY DEF RouteAnswered
<1>2. ASSUME NEW n \in VmNames, vmRoute'[n] # NoVm
      PROVE  /\ vmCall[vmRoute'[n]].pc = "ended" /\ NameOf[vmRoute'[n]] = n
             /\ \/ vmFile'[vmRoute'[n]] # NoIp
                \/ \E x \in Cleaners : vmCleaner'[vmRoute'[n]][x] \in {"route", "remove"}
  <2>1. vmRoute'[n] = vmRoute[n] /\ vmRoute[n] \in Vms
    BY <1>2
  <2>2. /\ vmCall[vmRoute[n]].pc = "ended" /\ NameOf[vmRoute[n]] = n
        /\ \/ vmFile[vmRoute[n]] # NoIp
           \/ \E x \in Cleaners : vmCleaner[vmRoute[n]][x] \in {"route", "remove"}
    BY <1>2, <2>1 DEF RouteAnswered
  <2> QED
    BY <1>2, <2>1, <2>2
<1> QED
  BY <1>0, <1>1, <1>2 DEF RouteAnswered

LEMMA MachinesStep == FcInv /\ [FcNext]_fcVars => FcInv'
<1> SUFFICES ASSUME FcInv, [FcNext]_fcVars PROVE FcInv'
  OBVIOUS
<1> USE DEF FcInv
<1>0. vmRoute \in [VmNames -> Vms \cup {NoVm}] /\ vmWatched \subseteq Vms
  BY DEF FcTypeOK
<1>1. ASSUME NEW d \in Vms, PostDeployment(d) PROVE FcInv'
  <2>0. CallGoes(d, "reserve") /\ vmCall[d].pc = "none" /\ UNCHANGED vmCleaner
    BY <1>1 DEF PostDeployment
  <2>1. /\ vmCall' \in [Vms -> VmCallType]
        /\ vmCall'[d].pc = "reserve" /\ vmCall'[d].ip = vmCall[d].ip
        /\ \A e \in Vms \ {d} : vmCall'[e] = vmCall[e]
    BY <2>0, CallGoesOn
  <2>2. FcTypeOK'
    BY <1>1, <2>1 DEF PostDeployment, FcTypeOK, VmCallType
  <2>3. vmFile' = vmFile
    BY <1>1 DEF PostDeployment
  <2>4. ASSUME AddressKept PROVE AddressKept'
    <3>1. vmCall'[d].pc \in {"pull", "record", "route", "undo"} =>
            /\ vmCall[d].pc \in {"write", "pull", "record", "route", "undo"}
            /\ vmFile'[d] = vmCall[d].ip
      BY <2>0, <2>1, <2>3, <2>4 DEF AddressKept
    <3>2. vmFile'[d] \in {vmFile[d], NoIp} \/ (vmCall[d].pc = "write" /\ vmFile'[d] = vmCall[d].ip)
      BY <2>0, <2>3, <2>4 DEF AddressKept
    <3> QED
      BY <2>1, <2>3, <2>4, <3>1, <3>2, AddressesStay
  <2>5. UNCHANGED <<vmRoute, vmWatched, vmDisturbed>>
    BY <1>1 DEF PostDeployment
  <2>6. ASSUME RouteAnswered PROVE RouteAnswered'
    BY <1>0, <2>0, <2>1, <2>3, <2>5, <2>6, RoutesStay
  <2> QED
    BY <2>2, <2>4, <2>5, <2>6
<1>2. ASSUME NEW d \in Vms, PoolExhausted(d) PROVE FcInv'
  <2>0. CallGoes(d, "ended") /\ vmCall[d].pc = "reserve" /\ UNCHANGED vmCleaner
    BY <1>2 DEF PoolExhausted
  <2>1. /\ vmCall' \in [Vms -> VmCallType]
        /\ vmCall'[d].pc = "ended" /\ vmCall'[d].ip = vmCall[d].ip
        /\ \A e \in Vms \ {d} : vmCall'[e] = vmCall[e]
    BY <2>0, CallGoesOn
  <2>2. FcTypeOK'
    BY <1>2, <2>1 DEF PoolExhausted, FcTypeOK, VmCallType
  <2>3. vmFile' = vmFile
    BY <1>2 DEF PoolExhausted
  <2>4. ASSUME AddressKept PROVE AddressKept'
    <3>1. vmCall'[d].pc \in {"pull", "record", "route", "undo"} =>
            /\ vmCall[d].pc \in {"write", "pull", "record", "route", "undo"}
            /\ vmFile'[d] = vmCall[d].ip
      BY <2>0, <2>1, <2>3, <2>4 DEF AddressKept
    <3>2. vmFile'[d] \in {vmFile[d], NoIp} \/ (vmCall[d].pc = "write" /\ vmFile'[d] = vmCall[d].ip)
      BY <2>0, <2>3, <2>4 DEF AddressKept
    <3> QED
      BY <2>1, <2>3, <2>4, <3>1, <3>2, AddressesStay
  <2>5. UNCHANGED <<vmRoute, vmWatched, vmDisturbed>>
    BY <1>2 DEF PoolExhausted
  <2>6. ASSUME RouteAnswered PROVE RouteAnswered'
    BY <1>0, <2>0, <2>1, <2>3, <2>5, <2>6, RoutesStay
  <2> QED
    BY <2>2, <2>4, <2>5, <2>6
<1>3. ASSUME NEW d \in Vms, ReserveIp(d) PROVE FcInv'
  <2>0. CallGoes(d, "pull") /\ vmCall[d].pc = "write" /\ UNCHANGED vmCleaner
    BY <1>3 DEF ReserveIp
  <2>1. /\ vmCall' \in [Vms -> VmCallType]
        /\ vmCall'[d].pc = "pull" /\ vmCall'[d].ip = vmCall[d].ip
        /\ \A e \in Vms \ {d} : vmCall'[e] = vmCall[e]
    BY <2>0, CallGoesOn
  <2>2. FcTypeOK'
    BY <1>3, <2>1 DEF ReserveIp, FcTypeOK, VmCallType
  <2>3. (\A e \in Vms \ {d} : vmFile'[e] = vmFile[e]) /\ vmFile'[d] = vmCall[d].ip
    BY <1>3 DEF ReserveIp, FcTypeOK
  <2>4. ASSUME AddressKept PROVE AddressKept'
    <3>1. vmCall'[d].pc \in {"pull", "record", "route", "undo"} =>
            /\ vmCall[d].pc \in {"write", "pull", "record", "route", "undo"}
            /\ vmFile'[d] = vmCall[d].ip
      BY <2>0, <2>1, <2>3, <2>4 DEF AddressKept
    <3>2. vmFile'[d] \in {vmFile[d], NoIp} \/ (vmCall[d].pc = "write" /\ vmFile'[d] = vmCall[d].ip)
      BY <2>0, <2>3, <2>4 DEF AddressKept
    <3> QED
      BY <2>1, <2>3, <2>4, <3>1, <3>2, AddressesStay
  <2>5. UNCHANGED <<vmRoute, vmWatched, vmDisturbed>>
    BY <1>3 DEF ReserveIp
  <2>6. ASSUME RouteAnswered PROVE RouteAnswered'
    BY <1>0, <2>0, <2>1, <2>3, <2>5, <2>6, RoutesStay
  <2> QED
    BY <2>2, <2>4, <2>5, <2>6
<1>4. ASSUME NEW d \in Vms, StartMachine(d) PROVE FcInv'
  <2>0. CallGoes(d, "record") /\ vmCall[d].pc = "pull" /\ UNCHANGED vmCleaner
    BY <1>4 DEF StartMachine
  <2>1. /\ vmCall' \in [Vms -> VmCallType]
        /\ vmCall'[d].pc = "record" /\ vmCall'[d].ip = vmCall[d].ip
        /\ \A e \in Vms \ {d} : vmCall'[e] = vmCall[e]
    BY <2>0, CallGoesOn
  <2>2. FcTypeOK'
    BY <1>4, <2>1 DEF StartMachine, FcTypeOK, VmCallType
  <2>3. vmFile' = vmFile
    BY <1>4 DEF StartMachine
  <2>4. ASSUME AddressKept PROVE AddressKept'
    <3>1. vmCall'[d].pc \in {"pull", "record", "route", "undo"} =>
            /\ vmCall[d].pc \in {"write", "pull", "record", "route", "undo"}
            /\ vmFile'[d] = vmCall[d].ip
      BY <2>0, <2>1, <2>3, <2>4 DEF AddressKept
    <3>2. vmFile'[d] \in {vmFile[d], NoIp} \/ (vmCall[d].pc = "write" /\ vmFile'[d] = vmCall[d].ip)
      BY <2>0, <2>3, <2>4 DEF AddressKept
    <3> QED
      BY <2>1, <2>3, <2>4, <3>1, <3>2, AddressesStay
  <2>5. UNCHANGED <<vmRoute, vmWatched, vmDisturbed>>
    BY <1>4 DEF StartMachine
  <2>6. ASSUME RouteAnswered PROVE RouteAnswered'
    BY <1>0, <2>0, <2>1, <2>3, <2>5, <2>6, RoutesStay
  <2> QED
    BY <2>2, <2>4, <2>5, <2>6
<1>5. ASSUME NEW d \in Vms, RecordMachine(d) PROVE FcInv'
  <2>0. CallGoes(d, "route") /\ vmCall[d].pc = "record" /\ UNCHANGED vmCleaner
    BY <1>5 DEF RecordMachine
  <2>1. /\ vmCall' \in [Vms -> VmCallType]
        /\ vmCall'[d].pc = "route" /\ vmCall'[d].ip = vmCall[d].ip
        /\ \A e \in Vms \ {d} : vmCall'[e] = vmCall[e]
    BY <2>0, CallGoesOn
  <2>2. FcTypeOK'
    BY <1>5, <2>1 DEF RecordMachine, FcTypeOK, VmCallType
  <2>3. (\A e \in Vms \ {d} : vmFile'[e] = vmFile[e]) /\ vmFile'[d] = vmCall[d].ip
    BY <1>5 DEF RecordMachine, FcTypeOK
  <2>4. ASSUME AddressKept PROVE AddressKept'
    <3>1. vmCall'[d].pc \in {"pull", "record", "route", "undo"} =>
            /\ vmCall[d].pc \in {"write", "pull", "record", "route", "undo"}
            /\ vmFile'[d] = vmCall[d].ip
      BY <2>0, <2>1, <2>3, <2>4 DEF AddressKept
    <3>2. vmFile'[d] \in {vmFile[d], NoIp} \/ (vmCall[d].pc = "write" /\ vmFile'[d] = vmCall[d].ip)
      BY <2>0, <2>3, <2>4 DEF AddressKept
    <3> QED
      BY <2>1, <2>3, <2>4, <3>1, <3>2, AddressesStay
  <2>5. UNCHANGED <<vmRoute, vmWatched, vmDisturbed>>
    BY <1>5 DEF RecordMachine
  <2>6. ASSUME RouteAnswered PROVE RouteAnswered'
    BY <1>0, <2>0, <2>1, <2>3, <2>5, <2>6, RoutesStay
  <2> QED
    BY <2>2, <2>4, <2>5, <2>6
<1>6. ASSUME NEW d \in Vms, WriteRoute(d) PROVE FcInv'
  <2>0. CallGoes(d, "ended") /\ vmCall[d].pc = "route" /\ UNCHANGED vmCleaner
    BY <1>6 DEF WriteRoute
  <2>1. /\ vmCall' \in [Vms -> VmCallType]
        /\ vmCall'[d].pc = "ended" /\ vmCall'[d].ip = vmCall[d].ip
        /\ \A e \in Vms \ {d} : vmCall'[e] = vmCall[e]
    BY <2>0, CallGoesOn
  <2>2. FcTypeOK'
    BY <1>6, <2>1 DEF WriteRoute, FcTypeOK, VmCallType
  <2>3. vmFile' = vmFile
    BY <1>6 DEF WriteRoute
  <2>4. ASSUME AddressKept PROVE AddressKept'
    <3>1. vmCall'[d].pc \in {"pull", "record", "route", "undo"} =>
            /\ vmCall[d].pc \in {"write", "pull", "record", "route", "undo"}
            /\ vmFile'[d] = vmCall[d].ip
      BY <2>0, <2>1, <2>3, <2>4 DEF AddressKept
    <3>2. vmFile'[d] \in {vmFile[d], NoIp} \/ (vmCall[d].pc = "write" /\ vmFile'[d] = vmCall[d].ip)
      BY <2>0, <2>3, <2>4 DEF AddressKept
    <3> QED
      BY <2>1, <2>3, <2>4, <3>1, <3>2, AddressesStay
  <2>5. vmRoute' = [vmRoute EXCEPT ![NameOf[d]] = d] /\ vmWatched' = vmWatched \cup {d} /\ UNCHANGED vmDisturbed
    BY <1>6 DEF WriteRoute
  <2>6. ASSUME AddressKept, RouteAnswered PROVE RouteAnswered'
    <3>0. (\A e \in vmWatched : vmCleaner[e]["watcher"] = "none")'
      BY <2>0, <2>5, <2>6 DEF RouteAnswered, Cleaners
    <3>1. (\A e \in Vms : e \in vmWatched \/ (\E c \in Cleaners : vmCleaner[e][c] # "none") => vmCall[e].pc = "ended")'
      BY <2>0, <2>1, <2>5, <2>6 DEF RouteAnswered
    <3>2. vmFile'[d] # NoIp /\ vmRoute'[NameOf[d]] = d /\ NameOf[d] \in VmNames
      BY <1>0, <2>0, <2>3, <2>5, <2>6, FirecrackerAssumption DEF AddressKept
    <3>3. ASSUME NEW n \in VmNames, n # NameOf[d], vmRoute'[n] # NoVm
          PROVE  /\ vmRoute'[n] = vmRoute[n] /\ vmRoute[n] \in Vms \ {d}
                 /\ vmCall[vmRoute[n]].pc = "ended" /\ NameOf[vmRoute[n]] = n
                 /\ \/ vmFile[vmRoute[n]] # NoIp
                    \/ \E c \in Cleaners : vmCleaner[vmRoute[n]][c] \in {"route", "remove"}
      BY <1>0, <2>0, <2>5, <2>6, <3>3 DEF RouteAnswered
    <3> QED
      BY <2>0, <2>1, <2>3, <3>0, <3>1, <3>2, <3>3 DEF RouteAnswered
  <2> QED
    BY <2>2, <2>4, <2>5, <2>6
<1>7. ASSUME NEW d \in Vms, DeployRaises(d) PROVE FcInv'
  <2>0. CallGoes(d, "undo") /\ vmCall[d].pc \in {"pull", "record", "route"} /\ UNCHANGED vmCleaner
    BY <1>7 DEF DeployRaises
  <2>1. /\ vmCall' \in [Vms -> VmCallType]
        /\ vmCall'[d].pc = "undo" /\ vmCall'[d].ip = vmCall[d].ip
        /\ \A e \in Vms \ {d} : vmCall'[e] = vmCall[e]
    BY <2>0, CallGoesOn
  <2>2. FcTypeOK'
    BY <1>7, <2>1 DEF DeployRaises, FcTypeOK, VmCallType
  <2>3. vmFile' = vmFile
    BY <1>7 DEF DeployRaises
  <2>4. ASSUME AddressKept PROVE AddressKept'
    <3>1. vmCall'[d].pc \in {"pull", "record", "route", "undo"} =>
            /\ vmCall[d].pc \in {"write", "pull", "record", "route", "undo"}
            /\ vmFile'[d] = vmCall[d].ip
      BY <2>0, <2>1, <2>3, <2>4 DEF AddressKept
    <3>2. vmFile'[d] \in {vmFile[d], NoIp} \/ (vmCall[d].pc = "write" /\ vmFile'[d] = vmCall[d].ip)
      BY <2>0, <2>3, <2>4 DEF AddressKept
    <3> QED
      BY <2>1, <2>3, <2>4, <3>1, <3>2, AddressesStay
  <2>5. UNCHANGED <<vmRoute, vmWatched, vmDisturbed>>
    BY <1>7 DEF DeployRaises
  <2>6. ASSUME RouteAnswered PROVE RouteAnswered'
    BY <1>0, <2>0, <2>1, <2>3, <2>5, <2>6, RoutesStay
  <2> QED
    BY <2>2, <2>4, <2>5, <2>6
<1>8. ASSUME NEW d \in Vms, UndoDeploy(d) PROVE FcInv'
  <2>0. CallGoes(d, "ended") /\ vmCall[d].pc = "undo" /\ UNCHANGED vmCleaner
    BY <1>8 DEF UndoDeploy
  <2>1. /\ vmCall' \in [Vms -> VmCallType]
        /\ vmCall'[d].pc = "ended" /\ vmCall'[d].ip = vmCall[d].ip
        /\ \A e \in Vms \ {d} : vmCall'[e] = vmCall[e]
    BY <2>0, CallGoesOn
  <2>2. FcTypeOK'
    BY <1>8, <2>1 DEF UndoDeploy, FcTypeOK, VmCallType, Forget
  <2>3. (\A e \in Vms \ {d} : vmFile'[e] = vmFile[e]) /\ vmFile'[d] = NoIp
    BY <1>8 DEF UndoDeploy, Forget, FcTypeOK
  <2>4. ASSUME AddressKept PROVE AddressKept'
    <3>1. vmCall'[d].pc \in {"pull", "record", "route", "undo"} =>
            /\ vmCall[d].pc \in {"write", "pull", "record", "route", "undo"}
            /\ vmFile'[d] = vmCall[d].ip
      BY <2>0, <2>1, <2>3, <2>4 DEF AddressKept
    <3>2. vmFile'[d] \in {vmFile[d], NoIp} \/ (vmCall[d].pc = "write" /\ vmFile'[d] = vmCall[d].ip)
      BY <2>0, <2>3, <2>4 DEF AddressKept
    <3> QED
      BY <2>1, <2>3, <2>4, <3>1, <3>2, AddressesStay
  <2>5. UNCHANGED <<vmRoute, vmWatched, vmDisturbed>>
    BY <1>8 DEF UndoDeploy
  <2>6. ASSUME RouteAnswered PROVE RouteAnswered'
    BY <1>0, <2>0, <2>1, <2>3, <2>5, <2>6, RoutesStay
  <2> QED
    BY <2>2, <2>4, <2>5, <2>6
<1>9. ASSUME NEW d \in Vms, ReadUsed(d) PROVE FcInv'
  <2>0. PICK ip \in GuestIps :
          /\ vmCall' = [vmCall EXCEPT ![d] = [pc |-> "write", ip |-> ip]]
          /\ \A e \in Vms : vmFile[e] # ip
    BY <1>9, FirecrackerAssumption DEF ReadUsed
  <2>1. /\ vmCall' \in [Vms -> VmCallType]
        /\ vmCall'[d].pc = "write" /\ vmCall'[d].ip = ip
        /\ \A e \in Vms \ {d} : vmCall'[e] = vmCall[e]
    BY <2>0 DEF FcTypeOK, VmCallType
  <2>2. vmCall[d].pc = "reserve" /\ (\A e \in Vms : vmCall[e].pc # "write") /\ vmTaken' \subseteq GuestIps
        /\ UNCHANGED <<vmFile, vmPid, vmRoute, vmRunning, vmWatched, vmCleaner, vmDisturbed>>
    BY <1>9 DEF ReadUsed, Allocating, FcTypeOK
  <2>3. FcTypeOK'
    BY <2>1, <2>2 DEF FcTypeOK, VmCallType
  <2>4. ASSUME AddressKept PROVE AddressKept'
    BY <2>0, <2>1, <2>2, <2>4 DEF FcTypeOK, AddressKept
  <2>5. ASSUME RouteAnswered PROVE RouteAnswered'
    BY <1>0, <2>1, <2>2, <2>5, RoutesStay
  <2> QED
    BY <2>2, <2>3, <2>4, <2>5
<1>10. ASSUME NEW d \in Vms, MachineExits(d) PROVE FcInv'
  BY <1>10 DEF MachineExits, FcTypeOK, AddressKept, RouteAnswered
<1>11. ASSUME NEW d \in Vms, ExitNoticed(d) PROVE FcInv'
  <2>0. PICK pc \in {"files"} : CleanerGoes(d, "watcher", pc)
    BY <1>11 DEF ExitNoticed
  <2>1. /\ vmCleaner' \in [Vms -> VmCleanerType] /\ vmCleaner'[d]["watcher"] = pc
        /\ \A e \in Vms, x \in Cleaners : e # d \/ x # "watcher" => vmCleaner'[e][x] = vmCleaner[e][x]
    BY <2>0, CleanerGoesOn DEF VmCleanerType, Cleaners
  <2>2. FcTypeOK'
    BY <1>11, <2>1 DEF ExitNoticed, FcTypeOK, VmCleanerType
  <2>3. vmCall' = vmCall /\ vmWatched' \subseteq vmWatched /\ (~vmDisturbed' => ~vmDisturbed)
    BY <1>11 DEF ExitNoticed
  <2>4. ASSUME RouteAnswered, ~vmDisturbed' PROVE vmCall[d].pc = "ended" /\ d \notin vmWatched'
    BY <1>11, <2>4 DEF ExitNoticed, RouteAnswered, Cleaners, FcTypeOK
  <2>5. vmFile' = vmFile
    BY <1>11 DEF ExitNoticed
  <2>6. ASSUME AddressKept, RouteAnswered, ~vmDisturbed' PROVE AddressKept'
    BY <2>3, <2>4, <2>5, <2>6, AddressesStay
  <2>7. ASSUME RouteAnswered, ~vmDisturbed', NEW n \in VmNames, vmRoute'[n] # NoVm
        PROVE  /\ vmRoute'[n] = vmRoute[n]
               /\ vmRoute[n] = d => vmFile'[d] # NoIp \/ \E x \in Cleaners : vmCleaner'[d][x] \in {"route", "remove"}
    <3>1. UNCHANGED vmRoute /\ vmCleaner[d]["watcher"] = "none"
      BY <1>11, <2>7 DEF ExitNoticed, RouteAnswered
    <3>2. ASSUME vmRoute[n] = d
          PROVE  vmFile[d] # NoIp \/ \E x \in Cleaners : x # "watcher" /\ vmCleaner[d][x] \in {"route", "remove"}
      BY <2>7, <3>1, <3>2 DEF RouteAnswered
    <3> QED
      BY <2>1, <2>5, <3>1, <3>2
  <2>8. ASSUME RouteAnswered, ~vmDisturbed' PROVE RouteAnswered'
    BY <1>0, <2>1, <2>3, <2>4, <2>5, <2>7, <2>8, RoutesCleaned DEF Cleaners
  <2> QED
    BY <2>2, <2>3, <2>6, <2>8
<1>12. ASSUME NEW d \in Vms, DeleteDeployment(d) PROVE FcInv'
  <2>0. PICK pc \in {"files"} : CleanerGoes(d, "delete", pc)
    BY <1>12 DEF DeleteDeployment
  <2>1. /\ vmCleaner' \in [Vms -> VmCleanerType] /\ vmCleaner'[d]["delete"] = pc
        /\ \A e \in Vms, x \in Cleaners : e # d \/ x # "delete" => vmCleaner'[e][x] = vmCleaner[e][x]
    BY <2>0, CleanerGoesOn DEF VmCleanerType, Cleaners
  <2>2. FcTypeOK'
    BY <1>12, <2>1 DEF DeleteDeployment, FcTypeOK, VmCleanerType
  <2>3. vmCall' = vmCall /\ vmWatched' \subseteq vmWatched /\ (~vmDisturbed' => ~vmDisturbed)
    BY <1>12 DEF DeleteDeployment
  <2>4. ASSUME RouteAnswered, ~vmDisturbed' PROVE vmCall[d].pc = "ended"
    BY <1>12, <2>4 DEF DeleteDeployment, RouteAnswered, Cleaners, FcTypeOK
  <2>5. vmFile' = vmFile
    BY <1>12 DEF DeleteDeployment
  <2>6. ASSUME AddressKept, RouteAnswered, ~vmDisturbed' PROVE AddressKept'
    BY <2>3, <2>4, <2>5, <2>6, AddressesStay
  <2>7. ASSUME RouteAnswered, ~vmDisturbed', NEW n \in VmNames, vmRoute'[n] # NoVm
        PROVE  /\ vmRoute'[n] = vmRoute[n]
               /\ vmRoute[n] = d => vmFile'[d] # NoIp \/ \E x \in Cleaners : vmCleaner'[d][x] \in {"route", "remove"}
    <3>1. UNCHANGED vmRoute /\ vmCleaner[d]["delete"] = "none"
      BY <1>12 DEF DeleteDeployment
    <3>2. ASSUME vmRoute[n] = d
          PROVE  vmFile[d] # NoIp \/ \E x \in Cleaners : x # "delete" /\ vmCleaner[d][x] \in {"route", "remove"}
      BY <2>7, <3>1, <3>2 DEF RouteAnswered
    <3> QED
      BY <2>1, <2>5, <3>1, <3>2
  <2>8. ASSUME RouteAnswered, ~vmDisturbed' PROVE RouteAnswered'
    BY <1>0, <2>1, <2>3, <2>4, <2>5, <2>7, <2>8, RoutesCleaned DEF Cleaners
  <2> QED
    BY <2>2, <2>3, <2>6, <2>8
<1>13. ASSUME NEW d \in Vms, NEW c \in Cleaners, CleanFiles(d, c) PROVE FcInv'
  <2>0. PICK pc \in {"state"} : CleanerGoes(d, c, pc)
    BY <1>13 DEF CleanFiles
  <2>1. /\ vmCleaner' \in [Vms -> VmCleanerType] /\ vmCleaner'[d][c] = pc
        /\ \A e \in Vms, x \in Cleaners : e # d \/ x # c => vmCleaner'[e][x] = vmCleaner[e][x]
    BY <2>0, CleanerGoesOn DEF VmCleanerType, Cleaners
  <2>2. FcTypeOK'
    BY <1>13, <2>1 DEF CleanFiles, FcTypeOK, VmCleanerType
  <2>3. vmCall' = vmCall /\ vmWatched' \subseteq vmWatched /\ (~vmDisturbed' => ~vmDisturbed)
    BY <1>13 DEF CleanFiles
  <2>4. ASSUME RouteAnswered, ~vmDisturbed' PROVE vmCall[d].pc = "ended" /\ (c = "watcher" => d \notin vmWatched')
    BY <1>13, <2>4 DEF CleanFiles, RouteAnswered, Cleaners, FcTypeOK
  <2>5. vmFile' = vmFile
    BY <1>13 DEF CleanFiles
  <2>6. ASSUME AddressKept, RouteAnswered, ~vmDisturbed' PROVE AddressKept'
    BY <2>3, <2>4, <2>5, <2>6, AddressesStay
  <2>7. ASSUME RouteAnswered, ~vmDisturbed', NEW n \in VmNames, vmRoute'[n] # NoVm
        PROVE  /\ vmRoute'[n] = vmRoute[n]
               /\ vmRoute[n] = d => vmFile'[d] # NoIp \/ \E x \in Cleaners : vmCleaner'[d][x] \in {"route", "remove"}
    <3>1. UNCHANGED vmRoute /\ vmCleaner[d][c] = "files"
      BY <1>13 DEF CleanFiles
    <3>2. ASSUME vmRoute[n] = d
          PROVE  vmFile[d] # NoIp \/ \E x \in Cleaners : x # c /\ vmCleaner[d][x] \in {"route", "remove"}
      BY <2>7, <3>1, <3>2 DEF RouteAnswered
    <3> QED
      BY <2>1, <2>5, <3>1, <3>2
  <2>8. ASSUME RouteAnswered, ~vmDisturbed' PROVE RouteAnswered'
    BY <1>0, <2>1, <2>3, <2>4, <2>5, <2>7, <2>8, RoutesCleaned DEF Cleaners
  <2> QED
    BY <2>2, <2>3, <2>6, <2>8
<1>14. ASSUME NEW d \in Vms, NEW c \in Cleaners, ReadState(d, c) PROVE FcInv'
  <2>0. PICK pc \in {"unlink", "ended"} : CleanerGoes(d, c, pc)
    BY <1>14 DEF ReadState
  <2>1. /\ vmCleaner' \in [Vms -> VmCleanerType] /\ vmCleaner'[d][c] = pc
        /\ \A e \in Vms, x \in Cleaners : e # d \/ x # c => vmCleaner'[e][x] = vmCleaner[e][x]
    BY <2>0, CleanerGoesOn DEF VmCleanerType, Cleaners
  <2>2. FcTypeOK'
    BY <1>14, <2>1 DEF ReadState, FcTypeOK, VmCleanerType
  <2>3. vmCall' = vmCall /\ vmWatched' \subseteq vmWatched /\ (~vmDisturbed' => ~vmDisturbed)
    BY <1>14 DEF ReadState
  <2>4. ASSUME RouteAnswered, ~vmDisturbed' PROVE vmCall[d].pc = "ended" /\ (c = "watcher" => d \notin vmWatched')
    BY <1>14, <2>4 DEF ReadState, RouteAnswered, Cleaners, FcTypeOK
  <2>5. vmFile' = vmFile
    BY <1>14 DEF ReadState
  <2>6. ASSUME AddressKept, RouteAnswered, ~vmDisturbed' PROVE AddressKept'
    BY <2>3, <2>4, <2>5, <2>6, AddressesStay
  <2>7. ASSUME RouteAnswered, ~vmDisturbed', NEW n \in VmNames, vmRoute'[n] # NoVm
        PROVE  /\ vmRoute'[n] = vmRoute[n]
               /\ vmRoute[n] = d => vmFile'[d] # NoIp \/ \E x \in Cleaners : vmCleaner'[d][x] \in {"route", "remove"}
    <3>1. UNCHANGED vmRoute /\ vmCleaner[d][c] = "state"
      BY <1>14 DEF ReadState
    <3>2. ASSUME vmRoute[n] = d
          PROVE  vmFile[d] # NoIp \/ \E x \in Cleaners : x # c /\ vmCleaner[d][x] \in {"route", "remove"}
      BY <2>7, <3>1, <3>2 DEF RouteAnswered
    <3> QED
      BY <2>1, <2>5, <3>1, <3>2
  <2>8. ASSUME RouteAnswered, ~vmDisturbed' PROVE RouteAnswered'
    BY <1>0, <2>1, <2>3, <2>4, <2>5, <2>7, <2>8, RoutesCleaned DEF Cleaners
  <2> QED
    BY <2>2, <2>3, <2>6, <2>8
<1>15. ASSUME NEW d \in Vms, NEW c \in Cleaners, RemoveState(d, c) PROVE FcInv'
  <2>0. PICK pc \in {"route"} : CleanerGoes(d, c, pc)
    BY <1>15 DEF RemoveState
  <2>1. /\ vmCleaner' \in [Vms -> VmCleanerType] /\ vmCleaner'[d][c] = pc
        /\ \A e \in Vms, x \in Cleaners : e # d \/ x # c => vmCleaner'[e][x] = vmCleaner[e][x]
    BY <2>0, CleanerGoesOn DEF VmCleanerType, Cleaners
  <2>2. FcTypeOK'
    BY <1>15, <2>1 DEF RemoveState, FcTypeOK, VmCleanerType, Forget
  <2>3. vmCall' = vmCall /\ vmWatched' \subseteq vmWatched /\ (~vmDisturbed' => ~vmDisturbed)
    BY <1>15 DEF RemoveState
  <2>4. ASSUME RouteAnswered, ~vmDisturbed' PROVE vmCall[d].pc = "ended" /\ (c = "watcher" => d \notin vmWatched')
    BY <1>15, <2>4 DEF RemoveState, RouteAnswered, Cleaners, FcTypeOK
  <2>5. (\A e \in Vms \ {d} : vmFile'[e] = vmFile[e]) /\ vmFile'[d] = NoIp
    BY <1>15 DEF RemoveState, Forget, FcTypeOK
  <2>6. ASSUME AddressKept, RouteAnswered, ~vmDisturbed' PROVE AddressKept'
    BY <2>3, <2>4, <2>5, <2>6, AddressesStay
  <2>7. ASSUME RouteAnswered, ~vmDisturbed', NEW n \in VmNames, vmRoute'[n] # NoVm
        PROVE  /\ vmRoute'[n] = vmRoute[n]
               /\ vmRoute[n] = d => vmFile'[d] # NoIp \/ \E x \in Cleaners : vmCleaner'[d][x] \in {"route", "remove"}
    BY <1>15, <2>0, <2>1 DEF RemoveState
  <2>8. ASSUME RouteAnswered, ~vmDisturbed' PROVE RouteAnswered'
    BY <1>0, <2>1, <2>3, <2>4, <2>5, <2>7, <2>8, RoutesCleaned DEF Cleaners
  <2> QED
    BY <2>2, <2>3, <2>6, <2>8
<1>16. ASSUME NEW d \in Vms, NEW c \in Cleaners, ReadRoute(d, c) PROVE FcInv'
  <2>0. PICK pc \in {"remove", "ended"} : CleanerGoes(d, c, pc)
    BY <1>16 DEF ReadRoute
  <2>1. /\ vmCleaner' \in [Vms -> VmCleanerType] /\ vmCleaner'[d][c] = pc
        /\ \A e \in Vms, x \in Cleaners : e # d \/ x # c => vmCleaner'[e][x] = vmCleaner[e][x]
    BY <2>0, CleanerGoesOn DEF VmCleanerType, Cleaners
  <2>2. FcTypeOK'
    BY <1>16, <2>1 DEF ReadRoute, FcTypeOK, VmCleanerType
  <2>3. vmCall' = vmCall /\ vmWatched' \subseteq vmWatched /\ (~vmDisturbed' => ~vmDisturbed)
    BY <1>16 DEF ReadRoute
  <2>4. ASSUME RouteAnswered, ~vmDisturbed' PROVE vmCall[d].pc = "ended" /\ (c = "watcher" => d \notin vmWatched')
    BY <1>16, <2>4 DEF ReadRoute, RouteAnswered, Cleaners, FcTypeOK
  <2>5. vmFile' = vmFile
    BY <1>16 DEF ReadRoute
  <2>6. ASSUME AddressKept, RouteAnswered, ~vmDisturbed' PROVE AddressKept'
    BY <2>3, <2>4, <2>5, <2>6, AddressesStay
  <2>7. ASSUME RouteAnswered, ~vmDisturbed', NEW n \in VmNames, vmRoute'[n] # NoVm
        PROVE  /\ vmRoute'[n] = vmRoute[n]
               /\ vmRoute[n] = d => vmFile'[d] # NoIp \/ \E x \in Cleaners : vmCleaner'[d][x] \in {"route", "remove"}
    <3>1. UNCHANGED vmRoute /\ CleanerGoes(d, c, IF vmRoute[NameOf[d]] = d THEN "remove" ELSE "ended")
      BY <1>16 DEF ReadRoute
    <3>2. ASSUME vmRoute[n] = d PROVE vmCleaner'[d][c] = "remove"
      <4>1. NameOf[d] = n
        BY <2>7, <3>1, <3>2 DEF RouteAnswered
      <4> QED
        BY <3>1, <3>2, <4>1, CleanerGoesOn
    <3> QED
      BY <3>1, <3>2
  <2>8. ASSUME RouteAnswered, ~vmDisturbed' PROVE RouteAnswered'
    BY <1>0, <2>1, <2>3, <2>4, <2>5, <2>7, <2>8, RoutesCleaned DEF Cleaners
  <2> QED
    BY <2>2, <2>3, <2>6, <2>8
<1>17. ASSUME NEW d \in Vms, NEW c \in Cleaners, RemoveRoute(d, c) PROVE FcInv'
  <2>0. PICK pc \in {"ended"} : CleanerGoes(d, c, pc)
    BY <1>17 DEF RemoveRoute
  <2>1. /\ vmCleaner' \in [Vms -> VmCleanerType] /\ vmCleaner'[d][c] = pc
        /\ \A e \in Vms, x \in Cleaners : e # d \/ x # c => vmCleaner'[e][x] = vmCleaner[e][x]
    BY <2>0, CleanerGoesOn DEF VmCleanerType, Cleaners
  <2>2. FcTypeOK'
    BY <1>17, <2>1 DEF RemoveRoute, FcTypeOK, VmCleanerType
  <2>3. vmCall' = vmCall /\ vmWatched' \subseteq vmWatched /\ (~vmDisturbed' => ~vmDisturbed)
    BY <1>17 DEF RemoveRoute
  <2>4. ASSUME RouteAnswered, ~vmDisturbed' PROVE vmCall[d].pc = "ended" /\ (c = "watcher" => d \notin vmWatched')
    BY <1>17, <2>4 DEF RemoveRoute, RouteAnswered, Cleaners, FcTypeOK
  <2>5. vmFile' = vmFile
    BY <1>17 DEF RemoveRoute
  <2>6. ASSUME AddressKept, RouteAnswered, ~vmDisturbed' PROVE AddressKept'
    BY <2>3, <2>4, <2>5, <2>6, AddressesStay
  <2>7. ASSUME RouteAnswered, ~vmDisturbed', NEW n \in VmNames, vmRoute'[n] # NoVm
        PROVE  /\ vmRoute'[n] = vmRoute[n]
               /\ vmRoute[n] = d => vmFile'[d] # NoIp \/ \E x \in Cleaners : vmCleaner'[d][x] \in {"route", "remove"}
    <3>1. vmRoute' = [vmRoute EXCEPT ![NameOf[d]] = NoVm]
      BY <1>17 DEF RemoveRoute
    <3>2. vmRoute'[n] = vmRoute[n] /\ n # NameOf[d]
      BY <1>0, <2>7, <3>1
    <3> QED
      BY <2>7, <3>2 DEF RouteAnswered
  <2>8. ASSUME RouteAnswered, ~vmDisturbed' PROVE RouteAnswered'
    BY <1>0, <2>1, <2>3, <2>4, <2>5, <2>7, <2>8, RoutesCleaned DEF Cleaners
  <2> QED
    BY <2>2, <2>3, <2>6, <2>8
<1>18. CASE RestartAgent
  <2>1. FcTypeOK'
    BY <1>18 DEF RestartAgent, FcTypeOK
  <2> QED
    BY <1>18, <2>1 DEF RestartAgent
<1>19. CASE UNCHANGED fcVars
  BY <1>19 DEF fcVars, FcTypeOK, AddressKept, RouteAnswered
<1> QED
  BY <1>1, <1>2, <1>3, <1>4, <1>5, <1>6, <1>7, <1>8, <1>9, <1>10, <1>11, <1>12, <1>13, <1>14,
     <1>15, <1>16, <1>17, <1>18, <1>19 DEF FcNext

LEMMA MachinesImplied == FcInv => AddressesApart
<1> SUFFICES ASSUME FcInv, ~vmDisturbed,
                    NEW n \in VmNames, vmRoute[n] # NoVm, vmFile[vmRoute[n]] = NoIp
             PROVE  Cleaning(vmRoute[n])
  BY DEF FcInv, AddressKept, AddressesApart
<1> QED
  BY DEF FcInv, RouteAnswered, Cleaning

-----------------------------------------------------------------------------
(* Workflow: the search of validateGraph                                   *)

NextId(at) == CHOOSE s \in at.todo : TRUE
Rest(at) == [at EXCEPT !.todo = @ \ {NextId(at)}]
OnPath(at) == [Rest(at) EXCEPT !.cycle = TRUE]
Below(needs, at) ==
  [at EXCEPT !.todo = needs[NextId(at)] \cap WfSteps, !.visiting = @ \cup {NextId(at)}]
Left(at, below) ==
  [Rest(at) EXCEPT !.visited = below.visited \cup {NextId(at)}, !.cycle = below.cycle]

(* One id of the search with the function g, and the functions that search.*)
Looked(needs, g, at) ==
  IF at.todo = {} THEN at
  ELSE IF NextId(at) \in at.visiting THEN g[OnPath(at)]
  ELSE IF NextId(at) \in at.visited THEN g[Rest(at)]
  ELSE g[Left(at, g[Below(needs, at)])]
Searches(needs, g) == g = [at \in Search |-> Looked(needs, g, at)]

LEMMA VisitChosen ==
  ASSUME NEW needs
  PROVE  visit(needs) = CHOOSE g : Searches(needs, g)
BY DEF visit, Searches, Looked, NextId, Rest, OnPath, Below, Left

(* What is left of a search: fewer steps can be entered, or fewer ids are  *)
(* yet to be looked at below the same path.                                *)
Size(at) ==
  Cardinality(WfSteps \ at.visiting) * (Cardinality(WfSteps) + 1) + Cardinality(at.todo)

LEMMA SizeType ==
  /\ Cardinality(WfSteps) \in Nat
  /\ \A T \in SUBSET WfSteps : IsFiniteSet(T) /\ Cardinality(T) \in 0..Cardinality(WfSteps)
  /\ \A at \in Search :
       Size(at) \in 0..(Cardinality(WfSteps) * (Cardinality(WfSteps) + 1) + Cardinality(WfSteps))
<1> DEFINE N == Cardinality(WfSteps)
<1>1. N \in Nat
  BY FS_CardinalityType, WorkflowAssumption
<1>2. ASSUME NEW T \in SUBSET WfSteps PROVE IsFiniteSet(T) /\ Cardinality(T) \in 0..N
  BY FS_Subset, FS_CardinalityType, WorkflowAssumption
<1>3. ASSUME NEW at \in Search PROVE Size(at) \in 0..(N * (N + 1) + N)
  <2>1. at.todo \in SUBSET WfSteps /\ WfSteps \ at.visiting \in SUBSET WfSteps
    BY DEF Search
  <2>2. PICK a \in 0..N, b \in 0..N : a = Cardinality(WfSteps \ at.visiting) /\ b = Cardinality(at.todo)
    BY <1>2, <2>1
  <2>3. Size(at) = a * (N + 1) + b
    BY <2>2 DEF Size
  <2> HIDE DEF N
  <2>4. a * (N + 1) \in Nat /\ a * (N + 1) <= N * (N + 1)
    BY <1>1
  <2> QED
    BY <1>1, <2>3, <2>4
<1> QED
  BY <1>1, <1>2, <1>3

(* Each continuation of a search is a smaller one.                         *)
LEMMA SearchShrinks ==
  ASSUME NEW needs, NEW at \in Search, at.todo # {}
  PROVE  /\ NextId(at) \in at.todo /\ NextId(at) \in WfSteps
         /\ Rest(at) \in Search /\ Size(Rest(at)) < Size(at)
         /\ OnPath(at) \in Search /\ Size(OnPath(at)) < Size(at)
         /\ NextId(at) \notin at.visiting =>
              Below(needs, at) \in Search /\ Size(Below(needs, at)) < Size(at)
         /\ \A below \in Search : Left(at, below) \in Search /\ Size(Left(at, below)) < Size(at)
<1> DEFINE N == Cardinality(WfSteps)
           id == NextId(at)
<1>1. id \in at.todo /\ id \in WfSteps
  BY DEF NextId, Search
<1>2. N \in Nat
  BY SizeType
<1> HIDE DEF id
<1>3. ASSUME NEW new \in Search, new.todo = at.todo \ {id}, new.visiting = at.visiting
      PROVE  Size(new) < Size(at)
  <2>1. PICK a \in 0..N : a = Cardinality(WfSteps \ at.visiting)
    BY SizeType
  <2>2. Cardinality(new.todo) = Cardinality(at.todo) - 1 /\ Cardinality(at.todo) \in Nat
    BY <1>1, <1>3, SizeType, FS_RemoveElement DEF Search
  <2> HIDE DEF N
  <2>3. a * (N + 1) \in Nat
    BY <1>2
  <2> QED
    BY <1>3, <2>1, <2>2, <2>3 DEF Size, N
<1>4. ASSUME NEW new \in Search, new.visiting = at.visiting \cup {id}, id \notin at.visiting
      PROVE  Size(new) < Size(at)
  <2>1. PICK a \in 0..N : a = Cardinality(WfSteps \ at.visiting)
    BY SizeType
  <2>2. Cardinality(WfSteps \ new.visiting) = a - 1 /\ a > 0
    <3>1. WfSteps \ new.visiting = (WfSteps \ at.visiting) \ {id}
      BY <1>4
    <3>2. IsFiniteSet(WfSteps \ at.visiting) /\ id \in WfSteps \ at.visiting
      BY <1>1, <1>4, SizeType
    <3>3. Cardinality((WfSteps \ at.visiting) \ {id}) = Cardinality(WfSteps \ at.visiting) - 1
      BY <3>2, FS_RemoveElement
    <3>4. Cardinality(WfSteps \ new.visiting) \in Nat
      BY SizeType
    <3> QED
      BY <2>1, <3>1, <3>3, <3>4
  <2>3. Cardinality(new.todo) \in 0..N /\ Cardinality(at.todo) \in Nat
    BY SizeType DEF Search
  <2>4. Size(new) = (a - 1) * (N + 1) + Cardinality(new.todo) /\ Size(at) = a * (N + 1) + Cardinality(at.todo)
    BY <2>1, <2>2 DEF Size
  <2> HIDE DEF N
  <2>5. (a - 1) * (N + 1) = a * (N + 1) - (N + 1) /\ a * (N + 1) \in Nat
    BY <1>2
  <2> QED
    BY <1>2, <2>3, <2>4, <2>5
<1>5. Rest(at) \in Search /\ Rest(at).todo = at.todo \ {id} /\ Rest(at).visiting = at.visiting
  BY DEF Rest, id, Search
<1>6. OnPath(at) \in Search /\ OnPath(at).todo = at.todo \ {id} /\ OnPath(at).visiting = at.visiting
  BY <1>5 DEF OnPath, Search
<1>7. Below(needs, at) \in Search /\ Below(needs, at).visiting = at.visiting \cup {id}
  BY <1>1 DEF Below, id, Search
<1>8. ASSUME NEW below \in Search
      PROVE  /\ Left(at, below) \in Search
             /\ Left(at, below).todo = at.todo \ {id} /\ Left(at, below).visiting = at.visiting
  BY <1>1, <1>5 DEF Left, id, Search
<1> QED
  BY <1>1, <1>3, <1>4, <1>5, <1>6, <1>7, <1>8 DEF id

(* There is a function that searches...                                    *)
LEMMA SearchExists ==
  ASSUME NEW needs
  PROVE  \E g : Searches(needs, g)
<1> DEFINE UpTo(n, g) ==
             g \in [Search -> Search]
             /\ \A at \in Search : Size(at) < n => g[at] = Looked(needs, g, at)
           G == {n \in Nat : \E g : UpTo(n, g)}
           Most == Cardinality(WfSteps) * (Cardinality(WfSteps) + 1) + Cardinality(WfSteps)
<1>1. 0 \in G
  <2>1. UpTo(0, [at \in Search |-> at])
    BY SizeType
  <2> QED
    BY <2>1
<1>2. ASSUME NEW n \in Nat, n \in G PROVE n + 1 \in G
  <2>1. PICK g : UpTo(n, g)
    BY <1>2
  <2> DEFINE h == [at \in Search |-> IF Size(at) < n THEN g[at] ELSE Looked(needs, g, at)]
  <2>2. ASSUME NEW at \in Search PROVE Looked(needs, g, at) \in Search
    <3>1. CASE at.todo = {}
      BY <3>1 DEF Looked
    <3>2. CASE at.todo # {}
      BY <2>1, <3>2, SearchShrinks DEF Looked
    <3> QED
      BY <3>1, <3>2
  <2>3. h \in [Search -> Search]
    BY <2>1, <2>2
  <2>4. ASSUME NEW at \in Search, Size(at) < n + 1 PROVE h[at] = Looked(needs, h, at)
    <3>1. h[at] = Looked(needs, g, at)
      BY <2>1
    <3>2. ASSUME NEW new \in Search, Size(new) < Size(at) PROVE h[new] = g[new]
      BY <2>4, <3>2, SizeType
    <3>3. Looked(needs, h, at) = Looked(needs, g, at)
      <4>1. CASE at.todo = {}
        BY <4>1 DEF Looked
      <4>2. CASE at.todo # {}
        <5>1. /\ h[Rest(at)] = g[Rest(at)] /\ h[OnPath(at)] = g[OnPath(at)]
              /\ NextId(at) \notin at.visiting => h[Below(needs, at)] = g[Below(needs, at)]
              /\ \A below \in Search : h[Left(at, below)] = g[Left(at, below)]
          <6> HIDE DEF h
          <6> QED
            BY <3>2, <4>2, SearchShrinks
        <5>2. NextId(at) \notin at.visiting => g[Below(needs, at)] \in Search
          BY <2>1, <4>2, SearchShrinks
        <5> HIDE DEF h
        <5> QED
          BY <4>2, <5>1, <5>2 DEF Looked
      <4> QED
        BY <4>1, <4>2
    <3> QED
      BY <3>1, <3>3
  <2>5. UpTo(n + 1, h) /\ n + 1 \in Nat
    <3> HIDE DEF h
    <3> QED
      BY <2>3, <2>4
  <2> HIDE DEF UpTo, h
  <2> QED
    BY <2>5
<1>3. Most + 1 \in G /\ Most \in Nat
  <2> HIDE DEF G
  <2>1. Nat \subseteq G
    BY <1>1, <1>2, CountingUp
  <2>2. Most \in Nat
    BY SizeType
  <2> QED
    BY <2>1, <2>2
<1>4. PICK g : UpTo(Most + 1, g)
  BY <1>3
<1>5. ASSUME NEW at \in Search PROVE g[at] = Looked(needs, g, at)
  <2>1. Size(at) < Most + 1
    BY <1>3, SizeType
  <2> QED
    BY <1>4, <2>1
<1>6. Searches(needs, g)
  BY <1>4, <1>5 DEF Searches
<1> QED
  BY <1>6

(* ... and visit is one.                                                   *)
LEMMA VisitLooks ==
  ASSUME NEW needs, NEW at \in Search
  PROVE  visit(needs)[at] = Looked(needs, visit(needs), at)
<1>1. Searches(needs, visit(needs))
  BY SearchExists, VisitChosen
<1> QED
  BY <1>1 DEF Searches

(* A set of steps each of which waits for another one of the set, and      *)
(* steps that need no other steps and are without such a set.              *)
Waiting(needs, loop) == loop # {} /\ \A s \in loop : needs[s] \cap loop # {}
Looping(needs) == \E loop \in SUBSET WfSteps : Waiting(needs, loop)
Closed(needs, done) ==
  /\ \A s \in done : needs[s] \cap WfSteps \subseteq done
  /\ \A loop \in SUBSET done : ~Waiting(needs, loop)
IsPath(needs, at) ==
  \A t \in at.todo, p \in at.visiting : needs[p] \cap (at.visiting \cup {t}) # {}

(* What a search has done in the end.                                      *)
Found(needs, at, r) ==
  /\ r \in Search
  /\ at.visited \subseteq r.visited /\ (at.cycle => r.cycle)
  /\ ~r.cycle => at.todo \subseteq r.visited
  /\ IsPath(needs, at) /\ r.cycle => at.cycle \/ Looping(needs)
  /\ ~r.cycle /\ Closed(needs, at.visited) => Closed(needs, r.visited)

LEMMA FoundRest ==
  ASSUME NEW needs, NEW at \in Search, at.todo # {}, NextId(at) \in at.visited,
         NEW r, Found(needs, Rest(at), r)
  PROVE  Found(needs, at, r)
<1>1. /\ Rest(at).visiting = at.visiting /\ Rest(at).visited = at.visited
      /\ Rest(at).cycle = at.cycle /\ Rest(at).todo = at.todo \ {NextId(at)}
  BY DEF Rest, Search
<1>2. IsPath(needs, at) => IsPath(needs, Rest(at))
  BY <1>1 DEF IsPath
<1> QED
  BY <1>1, <1>2 DEF Found

LEMMA FoundOnPath ==
  ASSUME NEW needs, NEW at \in Search, at.todo # {}, NextId(at) \in at.visiting,
         NEW r, Found(needs, OnPath(at), r)
  PROVE  Found(needs, at, r)
<1>1. /\ OnPath(at).visited = at.visited /\ OnPath(at).cycle
  BY DEF Rest, OnPath, Search
<1>2. r.cycle /\ r \in Search /\ at.visited \subseteq r.visited
  BY <1>1 DEF Found
<1>3. ASSUME IsPath(needs, at) PROVE Looping(needs)
  <2>1. NextId(at) \in at.todo
    BY SearchShrinks
  <2>2. at.visiting \cup {NextId(at)} = at.visiting
    OBVIOUS
  <2>3. Waiting(needs, at.visiting)
    BY <1>3, <2>1, <2>2 DEF IsPath, Waiting
  <2> QED
    BY <2>3 DEF Looping, Search
<1> QED
  BY <1>2, <1>3 DEF Found

LEMMA FoundLeft ==
  ASSUME NEW needs, NEW at \in Search, at.todo # {}, NextId(at) \notin at.visiting,
         NEW below, Found(needs, Below(needs, at), below),
         NEW r, Found(needs, Left(at, below), r)
  PROVE  Found(needs, at, r)
<1> DEFINE id == NextId(at)
<1>1. id \in at.todo /\ id \in WfSteps
  BY SearchShrinks
<1>2. /\ Below(needs, at).visiting = at.visiting \cup {id} /\ Below(needs, at).visited = at.visited
      /\ Below(needs, at).cycle = at.cycle /\ Below(needs, at).todo = needs[id] \cap WfSteps
  BY DEF Below, Search
<1>3. /\ Left(at, below).visiting = at.visiting /\ Left(at, below).visited = below.visited \cup {id}
      /\ Left(at, below).cycle = below.cycle /\ Left(at, below).todo = at.todo \ {id}
  BY DEF Left, Rest, Search
<1> HIDE DEF id
<1>4. /\ r \in Search /\ at.visited \subseteq r.visited /\ (at.cycle => r.cycle)
      /\ ~r.cycle => at.todo \subseteq r.visited
  BY <1>2, <1>3 DEF Found
<1>5. ASSUME IsPath(needs, at), r.cycle PROVE at.cycle \/ Looping(needs)
  <2>1. IsPath(needs, Left(at, below))
    BY <1>3, <1>5 DEF IsPath
  <2>2. IsPath(needs, Below(needs, at))
    <3>1. ASSUME NEW t \in needs[id] \cap WfSteps, NEW p \in at.visiting \cup {id}
          PROVE  needs[p] \cap ((at.visiting \cup {id}) \cup {t}) # {}
      <4>1. CASE p \in at.visiting
        BY <1>1, <1>5, <4>1 DEF IsPath
      <4>2. CASE p = id
        BY <3>1, <4>2
      <4> QED
        BY <3>1, <4>1, <4>2
    <3> QED
      BY <1>2, <3>1 DEF IsPath
  <2> QED
    BY <1>2, <1>3, <1>5, <2>1, <2>2 DEF Found
<1>6. ASSUME ~r.cycle, Closed(needs, at.visited) PROVE Closed(needs, r.visited)
  <2>1. ~below.cycle
    BY <1>3, <1>6 DEF Found
  <2>2. Closed(needs, below.visited) /\ needs[id] \cap WfSteps \subseteq below.visited
    BY <1>2, <1>6, <2>1 DEF Found
  <2> DEFINE done == below.visited \cup {id}
  <2>3. ASSUME NEW s \in done PROVE needs[s] \cap WfSteps \subseteq done
    BY <2>2 DEF Closed
  <2>4. ASSUME NEW loop \in SUBSET done, Waiting(needs, loop) PROVE FALSE
    <3>1. below.visited \subseteq WfSteps
      BY DEF Found, Search
    <3>2. id \in loop /\ id \notin below.visited
      BY <2>2, <2>4 DEF Closed
    <3>3. needs[id] \cap loop \subseteq loop \ {id}
      BY <1>1, <2>2, <3>1, <3>2
    <3>4. ASSUME NEW s \in loop \ {id} PROVE needs[s] \cap (loop \ {id}) # {}
      <4>1. needs[s] \cap WfSteps \subseteq below.visited
        BY <2>2, <3>4 DEF Closed
      <4> QED
        BY <1>1, <2>4, <3>1, <3>2, <3>4, <4>1 DEF Waiting
    <3>5. loop \ {id} # {}
      BY <2>4, <3>2, <3>3 DEF Waiting
    <3>6. Waiting(needs, loop \ {id})
      BY <3>4, <3>5 DEF Waiting
    <3> QED
      BY <2>2, <3>6 DEF Closed
  <2>5. Closed(needs, done)
    BY <2>3, <2>4 DEF Closed
  <2> QED
    BY <1>3, <1>6, <2>5 DEF Found
<1> QED
  BY <1>4, <1>5, <1>6 DEF Found

LEMMA SearchFinds ==
  ASSUME NEW needs, NEW at \in Search
  PROVE  Found(needs, at, visit(needs)[at])
<1> DEFINE R(now) == visit(needs)[now]
           G == {n \in Nat : \A now \in Search : Size(now) < n => Found(needs, now, R(now))}
<1>1. 0 \in G
  BY SizeType
<1>2. ASSUME NEW n \in Nat, n \in G PROVE n + 1 \in G
  <2>1. ASSUME NEW now \in Search, Size(now) < n + 1 PROVE Found(needs, now, R(now))
    <3>1. R(now) = Looked(needs, visit(needs), now)
      BY VisitLooks
    <3>2. ASSUME NEW new \in Search, Size(new) < Size(now) PROVE Found(needs, new, R(new))
      BY <1>2, <2>1, <3>2, SizeType
    <3>3. CASE now.todo = {}
      <4>1. R(now) = now
        BY <3>1, <3>3 DEF Looked
      <4> HIDE DEF R
      <4> QED
        BY <3>3, <4>1 DEF Found
    <3>4. CASE now.todo # {} /\ NextId(now) \in now.visiting
      <4>1. R(now) = R(OnPath(now))
        BY <3>1, <3>4 DEF Looked
      <4> HIDE DEF R
      <4> QED
        BY <3>2, <3>4, <4>1, SearchShrinks, FoundOnPath
    <3>5. CASE now.todo # {} /\ NextId(now) \notin now.visiting /\ NextId(now) \in now.visited
      <4>1. R(now) = R(Rest(now))
        BY <3>1, <3>5 DEF Looked
      <4> HIDE DEF R
      <4> QED
        BY <3>2, <3>5, <4>1, SearchShrinks, FoundRest
    <3>6. CASE now.todo # {} /\ NextId(now) \notin now.visiting /\ NextId(now) \notin now.visited
      <4> DEFINE below == R(Below(needs, now))
      <4>1. R(now) = R(Left(now, below))
        BY <3>1, <3>6 DEF Looked
      <4> HIDE DEF R
      <4>2. Found(needs, Below(needs, now), below)
        BY <3>2, <3>6, SearchShrinks
      <4>3. Found(needs, Left(now, below), R(Left(now, below)))
        <5>1. below \in Search
          BY <4>2 DEF Found
        <5> HIDE DEF below
        <5> QED
          BY <3>2, <3>6, <5>1, SearchShrinks
      <4> HIDE DEF below
      <4> QED
        BY <3>6, <4>1, <4>2, <4>3, FoundLeft
    <3> QED
      BY <3>3, <3>4, <3>5, <3>6
  <2> QED
    BY <2>1
<1>3. Size(at) + 1 \in G
  <2> HIDE DEF G
  <2>1. Nat \subseteq G
    BY <1>1, <1>2, CountingUp
  <2>2. Size(at) + 1 \in Nat
    BY SizeType
  <2> QED
    BY <2>1, <2>2
<1> QED
  BY <1>3, SizeType

(* validateGraph finds a cycle exactly when some steps wait for each other.*)
LEMMA CycleFoundMeans ==
  ASSUME NEW needs
  PROVE  CycleFound(needs) <=> Looping(needs)
<1> DEFINE r == visit(needs)[AllSteps]
<1>1. AllSteps \in Search
  BY DEF AllSteps, Search
<1>2. Found(needs, AllSteps, r)
  BY <1>1, SearchFinds
<1>3. CycleFound(needs) <=> r.cycle
  BY DEF CycleFound
<1> HIDE DEF r
<1>4. r.cycle => Looping(needs)
  BY <1>2 DEF Found, IsPath, AllSteps
<1>5. ASSUME ~r.cycle PROVE ~Looping(needs)
  <2>1. Closed(needs, AllSteps.visited)
    BY DEF AllSteps, Closed, Waiting
  <2>2. WfSteps \subseteq r.visited /\ Closed(needs, r.visited)
    BY <1>2, <1>5, <2>1 DEF Found, AllSteps
  <2> QED
    BY <2>2 DEF Closed, Looping
<1> QED
  BY <1>3, <1>4, <1>5

(* What POST /v1/runs accepts and refuses.                                 *)
LEMMA ValidMeans ==
  ASSUME NEW needs \in [WfSteps -> SUBSET (WfSteps \cup {Unknown})], NEW duplicate \in BOOLEAN
  PROVE  /\ validateGraph(needs, duplicate) =>
              ~Looping(needs) /\ \A s \in WfSteps : needs[s] \subseteq WfSteps
         /\ ~validateGraph(needs, duplicate) =>
              duplicate \/ Looping(needs) \/ \E s \in WfSteps : Unknown \in needs[s]
BY CycleFoundMeans DEF validateGraph

-----------------------------------------------------------------------------
(* Workflow: the rounds of runGraph                                        *)

Begun == wfPhase \notin {"none", "refused"}

(* Nothing runs in a workflow that was not accepted.                       *)
NotBegun ==
  wfPhase \in {"none", "refused"} =>
    ~wfRejected /\ \A s \in WfSteps : wfOutcome[s] = "none" /\ wfWork[s] = NoWork

(* What was accepted can be run to its end.                                *)
RightlyJudged ==
  /\ wfPhase = "refused" => wfDuplicate \/ Looping(wfNeeds) \/ \E s \in WfSteps : Unknown \in wfNeeds[s]
  /\ Begun => ~Looping(wfNeeds) /\ \A s \in WfSteps : wfNeeds[s] \subseteq WfSteps
  /\ wfPhase # "deadlock"

(* A step waits, works or has its outcome; it may have none of them after  *)
(* a rejection only, and it fails with one only.                           *)
OneStageEach ==
  /\ \A s \in wfPending : wfOutcome[s] = "none" /\ wfWork[s] = NoWork
  /\ \A s \in WfSteps : wfWork[s].pc # "none" => wfOutcome[s] = "none"
  /\ Begun /\ ~wfRejected =>
       \A s \in WfSteps \ wfPending : wfWork[s].pc # "none" \/ wfOutcome[s] # "none"
  /\ AnyFailed => wfRejected
  /\ wfPhase = "succeeded" => Settled /\ wfPending = {} /\ ~wfRejected

(* A step is executed after the steps it needs.                            *)
InOrder ==
  \A s \in WfSteps :
    wfWork[s].pc # "none" \/ wfOutcome[s] \in {"succeeded", "failed"} =>
      wfIf[s] # "failure()" /\ \A n \in wfNeeds[s] : wfOutcome[n] = "succeeded"

WfInv == WfTypeOK /\ NotBegun /\ RightlyJudged /\ OneStageEach /\ InOrder

LEMMA WorkflowStart == WfInit => WfInv
<1> SUFFICES ASSUME WfInit PROVE WfInv
  OBVIOUS
<1>1. WfTypeOK
  <2>1. wfIf \in [WfSteps -> WfConditions]
    BY WorkflowAssumption DEF WfInit
  <2>2. wfWork \in [WfSteps -> [pc : {"none", "begin", "work"}, attempt : 0..2]]
    BY DEF WfInit, NoWork
  <2> QED
    BY <2>1, <2>2 DEF WfInit, WfTypeOK
<1>2. NotBegun /\ RightlyJudged
  BY DEF WfInit, NotBegun, RightlyJudged, Begun
<1>3. OneStageEach /\ InOrder
  BY DEF WfInit, OneStageEach, InOrder, Begun, NoWork, AnyFailed
<1> QED
  BY <1>1, <1>2, <1>3 DEF WfInv

LEMMA WorkflowSubmitted == WfInv /\ SubmitWorkflow => WfInv'
<1> SUFFICES ASSUME WfInv, SubmitWorkflow PROVE WfInv'
  OBVIOUS
<1>1. wfNeeds' \in [WfSteps -> SUBSET (WfSteps \cup {Unknown})] /\ wfDuplicate' \in BOOLEAN
  BY DEF SubmitWorkflow
<1>2. wfOutcome' = wfOutcome /\ wfWork' = wfWork /\ wfRejected' = wfRejected
  BY DEF SubmitWorkflow
<1>3. ~wfRejected /\ \A s \in WfSteps : wfOutcome[s] = "none" /\ wfWork[s] = NoWork
  BY DEF WfInv, NotBegun, SubmitWorkflow
<1>4. \/ /\ validateGraph(wfNeeds', wfDuplicate')
         /\ wfPhase' = "running" /\ wfPending' = WfSteps /\ wfIf' \in [WfSteps -> WfConditions]
      \/ /\ ~validateGraph(wfNeeds', wfDuplicate')
         /\ wfPhase' = "refused" /\ wfPending' = wfPending /\ wfIf' = wfIf
  BY DEF SubmitWorkflow
<1>5. WfTypeOK'
  BY <1>1, <1>2, <1>4 DEF WfInv, WfTypeOK, SubmitWorkflow
<1>6. NotBegun'
  BY <1>2, <1>3 DEF NotBegun
<1>7. RightlyJudged'
  BY <1>1, <1>4, ValidMeans DEF RightlyJudged, Begun
<1>8. OneStageEach' /\ InOrder'
  BY <1>2, <1>3, <1>4 DEF OneStageEach, InOrder, AnyFailed, Begun, NoWork, WfInv
<1> QED
  BY <1>5, <1>6, <1>7, <1>8 DEF WfInv

(* When no step works and none was rejected, one of the waiting is ready.  *)
LEMMA SomeReady ==
  ASSUME WfInv, wfPhase = "running", Settled, ~wfRejected, wfPending # {}
  PROVE  ReadySteps # {}
<1> SUFFICES ASSUME ReadySteps = {} PROVE FALSE
  OBVIOUS
<1>1. wfPending \subseteq WfSteps /\ ~Looping(wfNeeds) /\ \A s \in WfSteps : wfNeeds[s] \subseteq WfSteps
  BY DEF WfInv, WfTypeOK, RightlyJudged, Begun
<1>2. ASSUME NEW s \in wfPending PROVE wfNeeds[s] \cap wfPending # {}
  <2>1. PICK n \in wfNeeds[s] : wfOutcome[n] = "none"
    BY DEF ReadySteps
  <2>2. n \in WfSteps
    BY <1>1
  <2>3. n \in wfPending
    BY <2>1, <2>2 DEF WfInv, OneStageEach, Begun, Settled
  <2> QED
    BY <2>3
<1>3. Waiting(wfNeeds, wfPending)
  BY <1>2 DEF Waiting
<1> QED
  BY <1>1, <1>3 DEF Looping

LEMMA RoundStarted == WfInv /\ StartRound => WfInv'
<1> SUFFICES ASSUME WfInv, StartRound PROVE WfInv'
  OBVIOUS
<1> DEFINE going == ReadySteps \ (SkippedSteps \cup UnreadableSteps)
<1>1. wfPhase = "running" /\ Settled /\ ~wfRejected /\ wfPending # {} /\ wfPhase' = "running"
  BY SomeReady DEF StartRound
<1>2. /\ wfPending' = wfPending \ ReadySteps
      /\ wfOutcome' = [s \in WfSteps |-> IF s \in SkippedSteps THEN "skipped" ELSE wfOutcome[s]]
      /\ wfWork' = [s \in WfSteps |-> IF s \in going THEN [pc |-> "begin", attempt |-> 1] ELSE NoWork]
      /\ wfRejected' = (UnreadableSteps # {})
      /\ wfNeeds' = wfNeeds /\ wfDuplicate' = wfDuplicate /\ wfIf' = wfIf
      /\ wfPushing' = wfPushing /\ wfAborted' = wfAborted
  BY DEF StartRound, workflow
<1>3. /\ SkippedSteps \subseteq ReadySteps /\ UnreadableSteps \subseteq ReadySteps
      /\ ReadySteps \subseteq wfPending /\ wfPending \subseteq WfSteps
  BY DEF SkippedSteps, UnreadableSteps, ReadySteps, WfInv, WfTypeOK
<1>4. \A s \in going : wfIf[s] # "failure()" /\ \A n \in wfNeeds[s] : wfOutcome[n] = "succeeded"
  <2>1. ~AnyFailed
    BY <1>1 DEF WfInv, OneStageEach
  <2> QED
    BY <2>1 DEF SkippedSteps, UnreadableSteps, ReadySteps, conditionMatches
<1>5. \A s \in WfSteps \ wfPending : wfOutcome[s] # "none"
  BY <1>1 DEF WfInv, OneStageEach, Begun, Settled
<1>6. \A s \in wfPending : wfOutcome[s] = "none"
  BY DEF WfInv, OneStageEach
<1> HIDE DEF going
<1>7. WfTypeOK'
  BY <1>1, <1>2, <1>3 DEF WfInv, WfTypeOK, NoWork
<1>8. NotBegun' /\ RightlyJudged'
  BY <1>1, <1>2 DEF NotBegun, RightlyJudged, WfInv, Begun
<1>9. OneStageEach'
  <2>1. \A s \in wfPending' : wfOutcome'[s] = "none" /\ wfWork'[s] = NoWork
    BY <1>2, <1>3, <1>6 DEF going
  <2>2. \A s \in WfSteps : wfWork'[s].pc # "none" => wfOutcome'[s] = "none"
    BY <1>2, <1>3, <1>6 DEF going, NoWork
  <2>3. ~wfRejected' => \A s \in WfSteps \ wfPending' : wfWork'[s].pc # "none" \/ wfOutcome'[s] # "none"
    BY <1>2, <1>3, <1>5 DEF going
  <2>4. ~AnyFailed'
    BY <1>1, <1>2 DEF WfInv, OneStageEach, AnyFailed
  <2> QED
    BY <1>1, <2>1, <2>2, <2>3, <2>4 DEF OneStageEach
<1>10. InOrder'
  <2> SUFFICES ASSUME NEW s \in WfSteps, wfWork'[s].pc # "none" \/ wfOutcome'[s] \in {"succeeded", "failed"}
               PROVE  wfIf[s] # "failure()" /\ \A n \in wfNeeds[s] : wfOutcome'[n] = "succeeded"
    BY <1>2 DEF InOrder
  <2>1. wfNeeds[s] \subseteq WfSteps
    BY <1>1 DEF WfInv, RightlyJudged, Begun
  <2>2. wfIf[s] # "failure()" /\ \A n \in wfNeeds[s] : wfOutcome[n] = "succeeded"
    <3>1. CASE s \in going
      BY <1>4, <3>1
    <3>2. CASE s \notin going
      BY <1>2, <3>2 DEF NoWork, WfInv, InOrder
    <3> QED
      BY <3>1, <3>2
  <2>3. \A n \in wfNeeds[s] : wfOutcome'[n] = wfOutcome[n]
    BY <1>2, <1>3, <1>6, <2>1, <2>2
  <2> QED
    BY <2>2, <2>3
<1> QED
  BY <1>7, <1>8, <1>9, <1>10 DEF WfInv

(* The steps of a round, one at a time.                                    *)
LEMMA WorkerSteps ==
  ASSUME WfInv, NEW s \in WfSteps, BeginStep(s) \/ StepSucceeds(s) \/ RetryStep(s) \/ StepFails(s)
  PROVE  WfInv'
<1>1. /\ wfNeeds' = wfNeeds /\ wfDuplicate' = wfDuplicate /\ wfIf' = wfIf
      /\ wfPhase' = wfPhase /\ wfPending' = wfPending /\ wfAborted' = wfAborted
      /\ wfPushing' \in BOOLEAN /\ wfRejected' \in BOOLEAN
  BY DEF BeginStep, StepSucceeds, RetryStep, StepFails, workflow, WfInv, WfTypeOK
<1>2. wfWork[s].pc # "none" /\ wfOutcome[s] = "none" /\ s \notin wfPending /\ Begun
  BY DEF BeginStep, StepSucceeds, RetryStep, StepFails, WfInv, OneStageEach, NotBegun, Begun, NoWork
<1>3. wfPhase # "succeeded"
  BY <1>2 DEF WfInv, OneStageEach, Settled
<1>4. wfIf[s] # "failure()" /\ \A n \in wfNeeds[s] : wfOutcome[n] = "succeeded"
  BY <1>2 DEF WfInv, InOrder
<1> DEFINE Becomes(work, outcome) ==
             /\ wfWork' = [wfWork EXCEPT ![s] = work] /\ wfOutcome' = [wfOutcome EXCEPT ![s] = outcome]
             /\ work \in [pc : {"none", "begin", "work"}, attempt : 0..2]
             /\ outcome \in {"none", "succeeded", "failed"}
             /\ work.pc = "none" <=> outcome # "none"
             /\ wfRejected' = (wfRejected \/ outcome = "failed")
<1>5. PICK work, outcome : Becomes(work, outcome)
  <2>0. /\ wfWork[s] \in [pc : {"none", "begin", "work"}, attempt : 0..2] /\ wfRejected \in BOOLEAN
        /\ wfOutcome = [wfOutcome EXCEPT ![s] = "none"]
    BY <1>2 DEF WfInv, WfTypeOK
  <2>1. CASE BeginStep(s)
    <3>1. /\ wfWork' = [wfWork EXCEPT ![s] = [@ EXCEPT !.pc = "work"]]
          /\ wfOutcome' = wfOutcome /\ wfRejected' = wfRejected
      BY <2>1 DEF BeginStep
    <3>2. /\ [wfWork[s] EXCEPT !.pc = "work"] \in [pc : {"none", "begin", "work"}, attempt : 0..2]
          /\ [wfWork[s] EXCEPT !.pc = "work"].pc = "work"
      BY <2>0
    <3>3. Becomes([wfWork[s] EXCEPT !.pc = "work"], "none")
      BY <2>0, <3>1, <3>2
    <3> HIDE DEF Becomes
    <3> QED
      BY <3>3
  <2>2. CASE StepSucceeds(s)
    <3>1. Becomes(NoWork, "succeeded")
      BY <2>0, <2>2 DEF StepSucceeds, Settle, NoWork
    <3> HIDE DEF Becomes
    <3> QED
      BY <3>1
  <2>3. CASE RetryStep(s)
    <3>1. Becomes([pc |-> "begin", attempt |-> 2], "none")
      BY <2>0, <2>3 DEF RetryStep
    <3> HIDE DEF Becomes
    <3> QED
      BY <3>1
  <2>4. CASE StepFails(s)
    <3>1. Becomes(NoWork, IF s \in Tolerant THEN "succeeded" ELSE "failed")
      BY <2>0, <2>4 DEF StepFails, Settle, NoWork
    <3> HIDE DEF Becomes
    <3> QED
      BY <3>1
  <2> HIDE DEF Becomes
  <2> QED
    BY <2>1, <2>2, <2>3, <2>4
<1>6. /\ \A t \in WfSteps : t # s => wfWork'[t] = wfWork[t] /\ wfOutcome'[t] = wfOutcome[t]
      /\ wfWork'[s] = work /\ wfOutcome'[s] = outcome
  BY <1>5 DEF WfInv, WfTypeOK
<1>7. WfTypeOK'
  BY <1>1, <1>5 DEF WfInv, WfTypeOK
<1>8. NotBegun' /\ RightlyJudged'
  BY <1>1, <1>2 DEF NotBegun, RightlyJudged, WfInv, Begun
<1>9. OneStageEach'
  <2>1. \A t \in wfPending' : wfOutcome'[t] = "none" /\ wfWork'[t] = NoWork
    BY <1>1, <1>2, <1>6 DEF WfInv, WfTypeOK, OneStageEach
  <2>2. \A t \in WfSteps : wfWork'[t].pc # "none" => wfOutcome'[t] = "none"
    BY <1>5, <1>6 DEF WfInv, OneStageEach
  <2>3. ~wfRejected' => \A t \in WfSteps \ wfPending' : wfWork'[t].pc # "none" \/ wfOutcome'[t] # "none"
    BY <1>1, <1>2, <1>5, <1>6 DEF WfInv, OneStageEach
  <2>4. AnyFailed' => wfRejected'
    BY <1>5, <1>6 DEF AnyFailed, WfInv, OneStageEach
  <2> QED
    BY <1>1, <1>3, <2>1, <2>2, <2>3, <2>4 DEF OneStageEach
<1>10. InOrder'
  <2> SUFFICES ASSUME NEW t \in WfSteps, wfWork'[t].pc # "none" \/ wfOutcome'[t] \in {"succeeded", "failed"}
               PROVE  wfIf[t] # "failure()" /\ \A n \in wfNeeds[t] : wfOutcome'[n] = "succeeded"
    BY <1>1 DEF InOrder
  <2>1. wfNeeds[t] \subseteq WfSteps
    BY <1>2 DEF WfInv, RightlyJudged
  <2>2. wfIf[t] # "failure()" /\ \A n \in wfNeeds[t] : wfOutcome[n] = "succeeded"
    BY <1>4, <1>6 DEF WfInv, InOrder
  <2> QED
    BY <1>2, <1>6, <2>1, <2>2
<1> QED
  BY <1>7, <1>8, <1>9, <1>10 DEF WfInv

LEMMA WorkflowStep == WfInv /\ [WfNext]_wfVars => WfInv'
<1> SUFFICES ASSUME WfInv, [WfNext]_wfVars PROVE WfInv'
  OBVIOUS
<1>1. CASE EndGraph
  <2>1. /\ wfPhase = "running" /\ Settled /\ wfPhase' \in {"failed", "succeeded"}
        /\ wfPhase' = "succeeded" => ~wfRejected /\ wfPending = {}
        /\ UNCHANGED <<wfNeeds, wfDuplicate, wfIf, wfPending, wfOutcome, wfWork, wfRejected, wfPushing, wfAborted>>
    BY <1>1 DEF EndGraph, workflow
  <2>2. WfTypeOK'
    BY <2>1 DEF WfInv, WfTypeOK
  <2>3. NotBegun' /\ RightlyJudged' /\ InOrder'
    BY <2>1 DEF WfInv, NotBegun, RightlyJudged, InOrder, Begun
  <2>4. OneStageEach'
    BY <2>1 DEF WfInv, OneStageEach, Begun, AnyFailed, Settled
  <2> QED
    BY <2>2, <2>3, <2>4 DEF WfInv
<1>2. CASE AbortRun \/ UNCHANGED wfVars
  <2>1. /\ UNCHANGED <<wfNeeds, wfDuplicate, wfIf, wfPhase, wfPending, wfOutcome, wfWork, wfRejected, wfPushing>>
        /\ wfAborted' \in BOOLEAN
    BY <1>2 DEF AbortRun, wfVars, workflow, WfInv, WfTypeOK
  <2>2. WfTypeOK'
    BY <2>1 DEF WfInv, WfTypeOK
  <2>3. NotBegun' /\ RightlyJudged' /\ InOrder'
    BY <2>1 DEF WfInv, NotBegun, RightlyJudged, InOrder, Begun
  <2>4. OneStageEach'
    BY <2>1 DEF WfInv, OneStageEach, Begun, AnyFailed, Settled
  <2> QED
    BY <2>2, <2>3, <2>4 DEF WfInv
<1> QED
  BY <1>1, <1>2, WorkflowSubmitted, RoundStarted, WorkerSteps DEF WfNext

LEMMA WorkflowImplied == WfInv => WorkflowSound
<1> SUFFICES ASSUME WfInv PROVE WorkflowSound
  OBVIOUS
<1>1. Looping(wfNeeds) => Circular
  BY DEF Looping, Waiting, Circular
<1>2. wfPhase = "refused" => wfDuplicate \/ Circular \/ \E s \in WfSteps : Unknown \in wfNeeds[s]
  BY <1>1 DEF WfInv, RightlyJudged
<1>3. ASSUME wfPhase = "succeeded", NEW s \in WfSteps PROVE wfOutcome[s] \in {"succeeded", "skipped"}
  <2>1. wfOutcome[s] # "none" /\ wfOutcome[s] # "failed"
    BY <1>3 DEF WfInv, OneStageEach, Begun, Settled, AnyFailed
  <2> QED
    BY <2>1 DEF WfInv, WfTypeOK
<1> QED
  BY <1>2, <1>3 DEF WorkflowSound, WfInv, RightlyJudged, InOrder

-----------------------------------------------------------------------------
(* Every workflow that is submitted and every deployment of a machine, for *)
(* all graphs and all address pools: validateGraph refuses exactly what    *)
(* runGraph could not finish for its dependencies, steps run in the order  *)
(* of their needs and a workflow succeeds with all of its steps            *)
(* (apps/builder/src/workflow.ts, executor.ts); on a host that does not    *)
(* restart, while nobody deletes a deployment in the making, they have an  *)
(* address each and routes lead to a deployment                            *)
(* (apps/builder-firecracker).                                             *)
THEOREM RunsHold == PlatformSpec => []RunsSound
<1>1. PlatformInit => WfInv /\ FcInv
  BY WorkflowStart, MachinesStart DEF PlatformInit
<1>2. (WfInv /\ FcInv) /\ [PlatformNext]_PlatformVars => (WfInv /\ FcInv)'
  <2> SUFFICES ASSUME WfInv, FcInv, [PlatformNext]_PlatformVars PROVE WfInv' /\ FcInv'
    OBVIOUS
  <2>1. [WfNext]_wfVars /\ [FcNext]_fcVars
    BY DEF PlatformNext, PlatformVars
  <2> QED
    BY <2>1, WorkflowStep, MachinesStep
<1>3. WfInv /\ FcInv => RunsSound
  BY WorkflowImplied, MachinesImplied DEF RunsSound, Of
<1> QED
  BY <1>1, <1>2, <1>3, PTL DEF PlatformSpec
-----------------------------------------------------------------------------
(* Certificates: DashboardTls                                              *)

UploadType == [pc : {"idle", "sent", "installed", "rejected"} \cup Handling, crt : File, key : File]
TlsShape ==
  /\ crt \in File /\ key \in File /\ served \in File
  /\ config \in BOOLEAN
  /\ reload \in [pc : {"idle", "changed", "key"}, crt : File]
  /\ chosen \in [Tabs -> [crt : File, key : File]]
  /\ upload \in [Tabs -> UploadType]
  /\ certStatus \in [Tabs -> File]
  /\ fetching \in [Tabs -> [pc : {"none", "sent", "answered"}, answer : File]]
  /\ latest \subseteq Tabs
  /\ mishap \in BOOLEAN

(* No installation has replaced a file without changing the configuration. *)
Unmixed == \A t \in Tabs : upload[t].pc \notin {"key", "config"}

(* The files of an installation belong together, and nobody else installs. *)
PairByPair ==
  /\ \A t, u \in Installing : t = u
  /\ \A t \in Installing : validateCertificatePair(t)
  /\ \A t \in Tabs : upload[t].pc = "key" => crt = upload[t].crt
  /\ (\A t \in Tabs : upload[t].pc # "key") => crt = key

(* What Traefik reads is replaced only together with a new change of the   *)
(* configuration.                                                          *)
ReadInTime ==
  Unmixed => /\ reload.pc = "key" => reload.crt = crt
             /\ reload.pc = "idle" => served = crt

(* So is what the page of the last installation reads.                     *)
ShownInTime ==
  Unmixed => \A t \in latest : upload[t].pc # "installed" =>
               /\ fetching[t].pc = "none" => certStatus[t] = crt
               /\ fetching[t].pc = "answered" => fetching[t].answer = crt

TlsInv == TlsShape /\ (~mishap => PairByPair /\ ReadInTime /\ ShownInTime)

LEMMA CertificatesStart == TlsInit => TlsInv
<1> SUFFICES ASSUME TlsInit PROVE TlsInv
  OBVIOUS
<1>1. TlsShape
  BY DEF TlsInit, TlsShape, File, NoFiles, NoUpload, NoQuery, UploadType
<1>2. PairByPair /\ ReadInTime /\ ShownInTime
  BY DEF TlsInit, PairByPair, ReadInTime, ShownInTime, Unmixed, Installing, Handling, NoUpload
<1> QED
  BY <1>1, <1>2 DEF TlsInv

(* A handler or a page that goes on.                                       *)
LEMMA UploadGoesOn ==
  ASSUME TlsShape, NEW t \in Tabs,
         NEW pc \in {"idle", "sent", "installed", "rejected"} \cup Handling, UploadMoves(t, pc)
  PROVE  /\ upload' \in [Tabs -> UploadType]
         /\ upload'[t].pc = pc /\ upload'[t].crt = upload[t].crt /\ upload'[t].key = upload[t].key
         /\ \A u \in Tabs \ {t} : upload'[u] = upload[u]
<1> DEFINE r == [upload[t] EXCEPT !.pc = pc]
<1>1. r \in UploadType /\ r.pc = pc /\ r.crt = upload[t].crt /\ r.key = upload[t].key
  BY DEF TlsShape, UploadType
<1>2. upload' = [upload EXCEPT ![t] = r]
  BY DEF UploadMoves
<1> HIDE DEF r
<1> QED
  BY <1>1, <1>2 DEF TlsShape

LEMMA CertificatesStep == TlsInv /\ [TlsNext]_tlsVars => TlsInv'
<1> SUFFICES ASSUME TlsInv, [TlsNext]_tlsVars PROVE TlsInv'
  OBVIOUS
<1> USE DEF Handling
<1>0. TlsShape /\ NoPair \in File /\ Pairs \subseteq File
  BY DEF TlsInv, File
<1>1. ASSUME NEW t \in Tabs, ChooseFile(t) PROVE TlsInv'
  <2>1. UNCHANGED <<crt, key, config, served, reload, upload, certStatus, fetching, latest, mishap>>
    BY <1>1 DEF ChooseFile
  <2>2. chosen' \in [Tabs -> [crt : File, key : File]]
    BY <1>0, <1>1 DEF ChooseFile, TlsShape
  <2>3. TlsShape'
    BY <1>0, <2>1, <2>2 DEF TlsShape
  <2>4. ASSUME ~mishap' PROVE PairByPair' /\ ReadInTime' /\ ShownInTime'
    <3>1. PairByPair /\ ReadInTime /\ ShownInTime
      BY <2>4, <2>1, <2>2 DEF TlsInv
    <3>2. PairByPair'
      BY <3>1, <1>0, <2>4, <2>1, <2>2 DEF PairByPair, Installing, validateCertificatePair
    <3>3. ReadInTime'
      BY <3>1, <1>0, <2>4, <2>1, <2>2 DEF ReadInTime, Unmixed
    <3>4. ShownInTime'
      BY <3>1, <3>2, <1>0, <2>4, <2>1, <2>2 DEF ShownInTime, Unmixed, TlsShape
    <3> QED
      BY <3>2, <3>3, <3>4
  <2> QED
    BY <2>3, <2>4 DEF TlsInv
<1>2. ASSUME NEW t \in Tabs, ClickInstall(t) PROVE TlsInv'
  <2>1. UNCHANGED <<crt, key, config, served, reload, chosen, certStatus, fetching, latest, mishap>>
    BY <1>2 DEF ClickInstall
  <2>2. /\ upload' = [upload EXCEPT ![t] = [pc |-> "sent", crt |-> chosen[t].crt, key |-> chosen[t].key]]
        /\ [pc |-> "sent", crt |-> chosen[t].crt, key |-> chosen[t].key] \in UploadType
    BY <1>0, <1>2 DEF ClickInstall, TlsShape, UploadType, NoUpload
  <2>3. /\ upload' \in [Tabs -> UploadType]
        /\ upload'[t] = [pc |-> "sent", crt |-> chosen[t].crt, key |-> chosen[t].key]
        /\ \A u \in Tabs \ {t} : upload'[u] = upload[u]
    BY <1>0, <2>2 DEF TlsShape
  <2>4. upload[t].pc = "idle"
    BY <1>2 DEF ClickInstall
  <2>5. TlsShape'
    BY <1>0, <2>1, <2>2, <2>3, <2>4 DEF TlsShape
  <2>6. ASSUME ~mishap' PROVE PairByPair' /\ ReadInTime' /\ ShownInTime'
    <3>1. PairByPair /\ ReadInTime /\ ShownInTime
      BY <2>6, <2>1, <2>2, <2>3, <2>4 DEF TlsInv
    <3>2. PairByPair'
      BY <3>1, <1>0, <2>6, <2>1, <2>2, <2>3, <2>4 DEF PairByPair, Installing, validateCertificatePair
    <3>3. ReadInTime'
      BY <3>1, <1>0, <2>6, <2>1, <2>2, <2>3, <2>4 DEF ReadInTime, Unmixed
    <3>4. ShownInTime'
      BY <3>1, <3>2, <1>0, <2>6, <2>1, <2>2, <2>3, <2>4 DEF ShownInTime, Unmixed, TlsShape
    <3> QED
      BY <3>2, <3>3, <3>4
  <2> QED
    BY <2>5, <2>6 DEF TlsInv
<1>3. ASSUME NEW t \in Tabs, UploadDone(t) PROVE TlsInv'
  <2>1. UNCHANGED <<crt, key, config, served, reload, certStatus, latest, mishap>>
    BY <1>3 DEF UploadDone
  <2>2. upload' = [upload EXCEPT ![t] = NoUpload] /\ NoUpload \in UploadType
    BY <1>0, <1>3 DEF UploadDone, TlsShape, UploadType, NoUpload
  <2>3. upload' \in [Tabs -> UploadType] /\ upload'[t] = NoUpload /\ \A u \in Tabs \ {t} : upload'[u] = upload[u]
    BY <1>0, <2>2 DEF TlsShape
  <2>4. upload[t].pc = "installed" /\ NoUpload.pc = "idle"
    BY <1>3 DEF UploadDone, NoUpload
  <2>5. /\ fetching' \in [Tabs -> [pc : {"none", "sent", "answered"}, answer : File]]
        /\ fetching'[t].pc = "sent"
        /\ \A u \in Tabs \ {t} : fetching'[u] = fetching[u]
    BY <1>0, <1>3 DEF UploadDone, NoQuery, TlsShape
  <2>6. chosen' \in [Tabs -> [crt : File, key : File]]
    BY <1>0, <1>3 DEF UploadDone, NoFiles, TlsShape
  <2>7. TlsShape'
    BY <1>0, <2>1, <2>2, <2>3, <2>4, <2>5, <2>6 DEF TlsShape
  <2>8. ASSUME ~mishap' PROVE PairByPair' /\ ReadInTime' /\ ShownInTime'
    <3>1. PairByPair /\ ReadInTime /\ ShownInTime
      BY <2>8, <2>1, <2>2, <2>3, <2>4, <2>5, <2>6 DEF TlsInv
    <3>2. PairByPair'
      BY <3>1, <1>0, <2>8, <2>1, <2>2, <2>3, <2>4, <2>5, <2>6 DEF PairByPair, Installing, validateCertificatePair
    <3>3. ReadInTime'
      BY <3>1, <1>0, <2>8, <2>1, <2>2, <2>3, <2>4, <2>5, <2>6 DEF ReadInTime, Unmixed
    <3>4. ShownInTime'
      BY <3>1, <3>2, <1>0, <2>8, <2>1, <2>2, <2>3, <2>4, <2>5, <2>6 DEF ShownInTime, Unmixed, TlsShape
    <3> QED
      BY <3>2, <3>3, <3>4
  <2> QED
    BY <2>7, <2>8 DEF TlsInv
<1>4. ASSUME NEW t \in Tabs, UploadRefused(t) PROVE TlsInv'
  <2>1. UNCHANGED <<crt, key, config, served, reload, chosen, certStatus, fetching, latest, mishap>>
    BY <1>4 DEF UploadRefused
  <2>2. upload' = [upload EXCEPT ![t] = NoUpload] /\ NoUpload \in UploadType
    BY <1>0, <1>4 DEF UploadRefused, TlsShape, UploadType, NoUpload
  <2>3. upload' \in [Tabs -> UploadType] /\ upload'[t] = NoUpload /\ \A u \in Tabs \ {t} : upload'[u] = upload[u]
    BY <1>0, <2>2 DEF TlsShape
  <2>4. upload[t].pc = "rejected" /\ NoUpload.pc = "idle"
    BY <1>4 DEF UploadRefused, NoUpload
  <2>5. TlsShape'
    BY <1>0, <2>1, <2>2, <2>3, <2>4 DEF TlsShape
  <2>6. ASSUME ~mishap' PROVE PairByPair' /\ ReadInTime' /\ ShownInTime'
    <3>1. PairByPair /\ ReadInTime /\ ShownInTime
      BY <2>6, <2>1, <2>2, <2>3, <2>4 DEF TlsInv
    <3>2. PairByPair'
      BY <3>1, <1>0, <2>6, <2>1, <2>2, <2>3, <2>4 DEF PairByPair, Installing, validateCertificatePair
    <3>3. ReadInTime'
      BY <3>1, <1>0, <2>6, <2>1, <2>2, <2>3, <2>4 DEF ReadInTime, Unmixed
    <3>4. ShownInTime'
      BY <3>1, <3>2, <1>0, <2>6, <2>1, <2>2, <2>3, <2>4 DEF ShownInTime, Unmixed, TlsShape
    <3> QED
      BY <3>2, <3>3, <3>4
  <2> QED
    BY <2>5, <2>6 DEF TlsInv
<1>5. ASSUME NEW t \in Tabs, FetchStatus(t) PROVE TlsInv'
  <2>1. UNCHANGED <<crt, key, config, served, reload, chosen, upload, certStatus, latest, mishap>>
    BY <1>5 DEF FetchStatus
  <2>2. /\ fetching' \in [Tabs -> [pc : {"none", "sent", "answered"}, answer : File]]
        /\ \A u \in Tabs \ {t} : fetching'[u] = fetching[u]
        /\ fetching'[t].pc = "sent"
    BY <1>0, <1>5 DEF FetchStatus, TlsShape
  <2>3. TlsShape'
    BY <1>0, <2>1, <2>2 DEF TlsShape
  <2>4. ASSUME ~mishap' PROVE PairByPair' /\ ReadInTime' /\ ShownInTime'
    <3>1. PairByPair /\ ReadInTime /\ ShownInTime
      BY <2>4, <2>1, <2>2 DEF TlsInv
    <3>2. PairByPair'
      BY <3>1, <1>0, <2>4, <2>1, <2>2 DEF PairByPair, Installing, validateCertificatePair
    <3>3. ReadInTime'
      BY <3>1, <1>0, <2>4, <2>1, <2>2 DEF ReadInTime, Unmixed
    <3>4. ShownInTime'
      <4>1. ASSUME Unmixed, NEW u \in latest, upload[u].pc # "installed"
            PROVE  /\ fetching'[u].pc = "none" => certStatus'[u] = crt
                   /\ fetching'[u].pc = "answered" => fetching'[u].answer = crt
        <5>1. u \in Tabs /\ crt = key
          BY <1>0, <3>1, <4>1 DEF TlsShape, PairByPair, Unmixed
        <5>2. /\ fetching[u].pc = "none" => certStatus[u] = crt
              /\ fetching[u].pc = "answered" => fetching[u].answer = crt
          BY <3>1, <4>1 DEF ShownInTime
        <5>3. CASE u = t
          BY <2>1, <2>2, <5>1, <5>2, <5>3
        <5>4. CASE u # t
          BY <2>1, <2>2, <5>1, <5>2, <5>4
        <5> QED
          BY <5>3, <5>4
      <4> QED
        BY <2>1, <4>1 DEF ShownInTime, Unmixed
    <3> QED
      BY <3>2, <3>3, <3>4
  <2> QED
    BY <2>3, <2>4 DEF TlsInv
<1>6. ASSUME NEW t \in Tabs, getStatus(t) PROVE TlsInv'
  <2>1. UNCHANGED <<crt, key, config, served, reload, chosen, upload, certStatus, latest, mishap>>
    BY <1>6 DEF getStatus
  <2>2. /\ fetching' \in [Tabs -> [pc : {"none", "sent", "answered"}, answer : File]]
        /\ \A u \in Tabs \ {t} : fetching'[u] = fetching[u]
        /\ fetching'[t].pc = "answered"
    BY <1>0, <1>6 DEF getStatus, TlsShape
  <2>3. fetching'[t].answer = IF key = NoPair THEN NoPair ELSE crt
    BY <1>0, <1>6 DEF getStatus, TlsShape
  <2>4. TlsShape'
    BY <1>0, <2>1, <2>2, <2>3 DEF TlsShape
  <2>5. ASSUME ~mishap' PROVE PairByPair' /\ ReadInTime' /\ ShownInTime'
    <3>1. PairByPair /\ ReadInTime /\ ShownInTime
      BY <2>5, <2>1, <2>2, <2>3 DEF TlsInv
    <3>2. PairByPair'
      BY <3>1, <1>0, <2>5, <2>1, <2>2, <2>3 DEF PairByPair, Installing, validateCertificatePair
    <3>3. ReadInTime'
      BY <3>1, <1>0, <2>5, <2>1, <2>2, <2>3 DEF ReadInTime, Unmixed
    <3>4. ShownInTime'
      <4>1. ASSUME Unmixed, NEW u \in latest, upload[u].pc # "installed"
            PROVE  /\ fetching'[u].pc = "none" => certStatus'[u] = crt
                   /\ fetching'[u].pc = "answered" => fetching'[u].answer = crt
        <5>1. u \in Tabs /\ crt = key
          BY <1>0, <3>1, <4>1 DEF TlsShape, PairByPair, Unmixed
        <5>2. /\ fetching[u].pc = "none" => certStatus[u] = crt
              /\ fetching[u].pc = "answered" => fetching[u].answer = crt
          BY <3>1, <4>1 DEF ShownInTime
        <5>3. CASE u = t
          BY <2>1, <2>2, <2>3, <5>1, <5>2, <5>3
        <5>4. CASE u # t
          BY <2>1, <2>2, <2>3, <5>1, <5>2, <5>4
        <5> QED
          BY <5>3, <5>4
      <4> QED
        BY <2>1, <4>1 DEF ShownInTime, Unmixed
    <3> QED
      BY <3>2, <3>3, <3>4
  <2> QED
    BY <2>4, <2>5 DEF TlsInv
<1>7. ASSUME NEW t \in Tabs, ShowStatus(t) PROVE TlsInv'
  <2>1. UNCHANGED <<crt, key, config, served, reload, chosen, upload, latest, mishap>>
    BY <1>7 DEF ShowStatus
  <2>2. /\ fetching' \in [Tabs -> [pc : {"none", "sent", "answered"}, answer : File]]
        /\ \A u \in Tabs \ {t} : fetching'[u] = fetching[u]
        /\ fetching'[t].pc = "none"
    BY <1>0, <1>7 DEF ShowStatus, TlsShape, NoQuery
  <2>3. /\ certStatus' \in [Tabs -> File]
        /\ certStatus'[t] = fetching[t].answer
        /\ \A u \in Tabs \ {t} : certStatus'[u] = certStatus[u]
    BY <1>0, <1>7 DEF ShowStatus, TlsShape
  <2>4. fetching[t].pc = "answered"
    BY <1>7 DEF ShowStatus
  <2>5. TlsShape'
    BY <1>0, <2>1, <2>2, <2>3, <2>4 DEF TlsShape
  <2>6. ASSUME ~mishap' PROVE PairByPair' /\ ReadInTime' /\ ShownInTime'
    <3>1. PairByPair /\ ReadInTime /\ ShownInTime
      BY <2>6, <2>1, <2>2, <2>3, <2>4 DEF TlsInv
    <3>2. PairByPair'
      BY <3>1, <1>0, <2>6, <2>1, <2>2, <2>3, <2>4 DEF PairByPair, Installing, validateCertificatePair
    <3>3. ReadInTime'
      BY <3>1, <1>0, <2>6, <2>1, <2>2, <2>3, <2>4 DEF ReadInTime, Unmixed
    <3>4. ShownInTime'
      <4>1. ASSUME Unmixed, NEW u \in latest, upload[u].pc # "installed"
            PROVE  /\ fetching'[u].pc = "none" => certStatus'[u] = crt
                   /\ fetching'[u].pc = "answered" => fetching'[u].answer = crt
        <5>1. u \in Tabs /\ crt = key
          BY <1>0, <3>1, <4>1 DEF TlsShape, PairByPair, Unmixed
        <5>2. /\ fetching[u].pc = "none" => certStatus[u] = crt
              /\ fetching[u].pc = "answered" => fetching[u].answer = crt
          BY <3>1, <4>1 DEF ShownInTime
        <5>3. CASE u = t
          BY <2>1, <2>2, <2>3, <2>4, <5>1, <5>2, <5>3
        <5>4. CASE u # t
          BY <2>1, <2>2, <2>3, <2>4, <5>1, <5>2, <5>4
        <5> QED
          BY <5>3, <5>4
      <4> QED
        BY <2>1, <4>1 DEF ShownInTime, Unmixed
    <3> QED
      BY <3>2, <3>3, <3>4
  <2> QED
    BY <2>5, <2>6 DEF TlsInv
<1>8. ASSUME NEW t \in Tabs, BeginInstall(t) PROVE TlsInv'
  <2>1. UNCHANGED <<crt, key, config, served, reload, chosen, certStatus, fetching, latest>>
    BY <1>8 DEF BeginInstall
  <2>2. /\ upload' \in [Tabs -> UploadType] /\ upload'[t].pc = "certificate"
        /\ upload'[t].crt = upload[t].crt /\ upload'[t].key = upload[t].key
        /\ \A u \in Tabs \ {t} : upload'[u] = upload[u]
    BY <1>0, <1>8, UploadGoesOn DEF BeginInstall
  <2>3. upload[t].pc = "sent"
    BY <1>8 DEF BeginInstall
  <2>4. validateCertificatePair(t) /\ mishap' = (mishap \/ Installing # {}) /\ mishap' \in BOOLEAN
    BY <1>0, <1>8 DEF BeginInstall, TlsShape
  <2>5. TlsShape'
    BY <1>0, <2>1, <2>2, <2>3, <2>4 DEF TlsShape
  <2>6. ASSUME ~mishap' PROVE PairByPair' /\ ReadInTime' /\ ShownInTime'
    <3>1. PairByPair /\ ReadInTime /\ ShownInTime
      BY <2>6, <2>1, <2>2, <2>3, <2>4 DEF TlsInv
    <3>2. PairByPair'
      BY <3>1, <1>0, <2>6, <2>1, <2>2, <2>3, <2>4 DEF PairByPair, Installing, validateCertificatePair
    <3>3. ReadInTime'
      BY <3>1, <1>0, <2>6, <2>1, <2>2, <2>3, <2>4 DEF ReadInTime, Unmixed
    <3>4. ShownInTime'
      BY <3>1, <3>2, <1>0, <2>6, <2>1, <2>2, <2>3, <2>4 DEF ShownInTime, Unmixed, TlsShape
    <3> QED
      BY <3>2, <3>3, <3>4
  <2> QED
    BY <2>5, <2>6 DEF TlsInv
<1>9. ASSUME NEW t \in Tabs, RefuseInstall(t) PROVE TlsInv'
  <2>1. UNCHANGED <<crt, key, config, served, reload, chosen, certStatus, fetching, latest, mishap>>
    BY <1>9 DEF RefuseInstall
  <2>2. /\ upload' \in [Tabs -> UploadType] /\ upload'[t].pc = "rejected"
        /\ upload'[t].crt = upload[t].crt /\ upload'[t].key = upload[t].key
        /\ \A u \in Tabs \ {t} : upload'[u] = upload[u]
    BY <1>0, <1>9, UploadGoesOn DEF RefuseInstall
  <2>3. upload[t].pc = "sent"
    BY <1>9 DEF RefuseInstall
  <2>4. TlsShape'
    BY <1>0, <2>1, <2>2, <2>3 DEF TlsShape
  <2>5. ASSUME ~mishap' PROVE PairByPair' /\ ReadInTime' /\ ShownInTime'
    <3>1. PairByPair /\ ReadInTime /\ ShownInTime
      BY <2>5, <2>1, <2>2, <2>3 DEF TlsInv
    <3>2. PairByPair'
      BY <3>1, <1>0, <2>5, <2>1, <2>2, <2>3 DEF PairByPair, Installing, validateCertificatePair
    <3>3. ReadInTime'
      BY <3>1, <1>0, <2>5, <2>1, <2>2, <2>3 DEF ReadInTime, Unmixed
    <3>4. ShownInTime'
      BY <3>1, <3>2, <1>0, <2>5, <2>1, <2>2, <2>3 DEF ShownInTime, Unmixed, TlsShape
    <3> QED
      BY <3>2, <3>3, <3>4
  <2> QED
    BY <2>4, <2>5 DEF TlsInv
<1>10. ASSUME NEW t \in Tabs, WriteCertificate(t) PROVE TlsInv'
  <2>1. UNCHANGED <<key, config, served, reload, chosen, certStatus, fetching, latest, mishap>>
    BY <1>10 DEF WriteCertificate
  <2>2. /\ upload' \in [Tabs -> UploadType] /\ upload'[t].pc = "key"
        /\ upload'[t].crt = upload[t].crt /\ upload'[t].key = upload[t].key
        /\ \A u \in Tabs \ {t} : upload'[u] = upload[u]
    BY <1>0, <1>10, UploadGoesOn DEF WriteCertificate
  <2>3. upload[t].pc = "certificate"
    BY <1>10 DEF WriteCertificate
  <2>4. crt' = upload[t].crt /\ upload[t].crt \in File
    BY <1>0, <1>10 DEF WriteCertificate, TlsShape, UploadType
  <2>5. TlsShape'
    BY <1>0, <2>1, <2>2, <2>3, <2>4 DEF TlsShape
  <2>6. ASSUME ~mishap' PROVE PairByPair' /\ ReadInTime' /\ ShownInTime'
    <3>1. PairByPair /\ ReadInTime /\ ShownInTime
      BY <2>6, <2>1, <2>2, <2>3, <2>4 DEF TlsInv
    <3>2. PairByPair'
      BY <3>1, <1>0, <2>6, <2>1, <2>2, <2>3, <2>4 DEF PairByPair, Installing, validateCertificatePair
    <3>3. ReadInTime'
      BY <3>1, <1>0, <2>6, <2>1, <2>2, <2>3, <2>4 DEF ReadInTime, Unmixed
    <3>4. ShownInTime'
      BY <3>1, <3>2, <1>0, <2>6, <2>1, <2>2, <2>3, <2>4 DEF ShownInTime, Unmixed, TlsShape
    <3> QED
      BY <3>2, <3>3, <3>4
  <2> QED
    BY <2>5, <2>6 DEF TlsInv
<1>11. ASSUME NEW t \in Tabs, WriteKey(t) PROVE TlsInv'
  <2>1. UNCHANGED <<crt, config, served, reload, chosen, certStatus, fetching, latest, mishap>>
    BY <1>11 DEF WriteKey
  <2>2. /\ upload' \in [Tabs -> UploadType] /\ upload'[t].pc = "config"
        /\ upload'[t].crt = upload[t].crt /\ upload'[t].key = upload[t].key
        /\ \A u \in Tabs \ {t} : upload'[u] = upload[u]
    BY <1>0, <1>11, UploadGoesOn DEF WriteKey
  <2>3. upload[t].pc = "key"
    BY <1>11 DEF WriteKey
  <2>4. key' = upload[t].key /\ upload[t].key \in File
    BY <1>0, <1>11 DEF WriteKey, TlsShape, UploadType
  <2>5. TlsShape'
    BY <1>0, <2>1, <2>2, <2>3, <2>4 DEF TlsShape
  <2>6. ASSUME ~mishap' PROVE PairByPair' /\ ReadInTime' /\ ShownInTime'
    <3>1. PairByPair /\ ReadInTime /\ ShownInTime
      BY <2>6, <2>1, <2>2, <2>3, <2>4 DEF TlsInv
    <3>2. PairByPair'
      BY <3>1, <1>0, <2>6, <2>1, <2>2, <2>3, <2>4 DEF PairByPair, Installing, validateCertificatePair
    <3>3. ReadInTime'
      BY <3>1, <1>0, <2>6, <2>1, <2>2, <2>3, <2>4 DEF ReadInTime, Unmixed
    <3>4. ShownInTime'
      BY <3>1, <3>2, <1>0, <2>6, <2>1, <2>2, <2>3, <2>4 DEF ShownInTime, Unmixed, TlsShape
    <3> QED
      BY <3>2, <3>3, <3>4
  <2> QED
    BY <2>5, <2>6 DEF TlsInv
<1>12. ASSUME NEW t \in Tabs, WriteConfig(t) PROVE TlsInv'
  <2>1. UNCHANGED <<crt, key, served, chosen, certStatus, fetching, mishap>>
    BY <1>12 DEF WriteConfig
  <2>2. /\ upload' \in [Tabs -> UploadType] /\ upload'[t].pc = "installed"
        /\ upload'[t].crt = upload[t].crt /\ upload'[t].key = upload[t].key
        /\ \A u \in Tabs \ {t} : upload'[u] = upload[u]
    BY <1>0, <1>12, UploadGoesOn DEF WriteConfig
  <2>3. upload[t].pc = "config"
    BY <1>12 DEF WriteConfig
  <2>4. config' = TRUE /\ reload' = [pc |-> "changed", crt |-> NoPair] /\ latest' = {t}
    BY <1>12 DEF WriteConfig
  <2>5. TlsShape'
    BY <1>0, <2>1, <2>2, <2>3, <2>4 DEF TlsShape
  <2>6. ASSUME ~mishap' PROVE PairByPair' /\ ReadInTime' /\ ShownInTime'
    <3>1. PairByPair /\ ReadInTime /\ ShownInTime
      BY <2>6, <2>1, <2>2, <2>3, <2>4 DEF TlsInv
    <3>2. PairByPair'
      BY <3>1, <1>0, <2>6, <2>1, <2>2, <2>3, <2>4 DEF PairByPair, Installing, validateCertificatePair
    <3>3. ReadInTime'
      BY <3>1, <1>0, <2>6, <2>1, <2>2, <2>3, <2>4 DEF ReadInTime, Unmixed
    <3>4. ShownInTime'
      BY <3>1, <3>2, <1>0, <2>6, <2>1, <2>2, <2>3, <2>4 DEF ShownInTime, Unmixed, TlsShape, PairByPair, Installing
    <3> QED
      BY <3>2, <3>3, <3>4
  <2> QED
    BY <2>5, <2>6 DEF TlsInv
<1>13. ASSUME NEW t \in Tabs, WriteFails(t) PROVE TlsInv'
  <2>1. UNCHANGED <<crt, key, config, served, reload, chosen, certStatus, fetching, latest>>
    BY <1>13 DEF WriteFails
  <2>2. /\ upload' \in [Tabs -> UploadType] /\ upload'[t].pc = "rejected"
        /\ upload'[t].crt = upload[t].crt /\ upload'[t].key = upload[t].key
        /\ \A u \in Tabs \ {t} : upload'[u] = upload[u]
    BY <1>0, <1>13, UploadGoesOn DEF WriteFails
  <2>3. upload[t].pc \in Handling
    BY <1>13 DEF WriteFails
  <2>4. mishap' = TRUE
    BY <1>13 DEF WriteFails
  <2>5. TlsShape'
    BY <1>0, <2>1, <2>2, <2>3, <2>4 DEF TlsShape
  <2>6. ASSUME ~mishap' PROVE PairByPair' /\ ReadInTime' /\ ShownInTime'
    <3>1. PairByPair /\ ReadInTime /\ ShownInTime
      BY <2>6, <2>1, <2>2, <2>3, <2>4 DEF TlsInv
    <3>2. PairByPair'
      BY <3>1, <1>0, <2>6, <2>1, <2>2, <2>3, <2>4 DEF PairByPair, Installing, validateCertificatePair
    <3>3. ReadInTime'
      BY <3>1, <1>0, <2>6, <2>1, <2>2, <2>3, <2>4 DEF ReadInTime, Unmixed
    <3>4. ShownInTime'
      BY <3>1, <3>2, <1>0, <2>6, <2>1, <2>2, <2>3, <2>4 DEF ShownInTime, Unmixed, TlsShape
    <3> QED
      BY <3>2, <3>3, <3>4
  <2> QED
    BY <2>5, <2>6 DEF TlsInv
<1>14. ASSUME TlsApiDies PROVE TlsInv'
  <2>1. UNCHANGED <<crt, key, config, served, reload, chosen, certStatus, fetching, latest>> /\ mishap' = TRUE
    BY <1>14 DEF TlsApiDies
  <2>2. upload' \in [Tabs -> UploadType]
    BY <1>0, <1>14 DEF TlsApiDies, TlsShape, UploadType
  <2> QED
    BY <1>0, <2>1, <2>2 DEF TlsInv, TlsShape
<1>15. ASSUME ReadCertificate PROVE TlsInv'
  <2>1. UNCHANGED <<crt, key, config, served, chosen, upload, certStatus, fetching, latest, mishap>>
    BY <1>15 DEF ReadCertificate
  <2>2. reload' = [pc |-> "key", crt |-> crt]
    BY <1>15 DEF ReadCertificate
  <2>3. TlsShape'
    BY <1>0, <2>1, <2>2 DEF TlsShape
  <2>4. ASSUME ~mishap' PROVE PairByPair' /\ ReadInTime' /\ ShownInTime'
    <3>1. PairByPair /\ ReadInTime /\ ShownInTime
      BY <2>4, <2>1, <2>2 DEF TlsInv
    <3>2. PairByPair'
      BY <3>1, <1>0, <2>4, <2>1, <2>2 DEF PairByPair, Installing, validateCertificatePair
    <3>3. ReadInTime'
      BY <3>1, <1>0, <2>4, <2>1, <2>2 DEF ReadInTime, Unmixed
    <3>4. ShownInTime'
      BY <3>1, <3>2, <1>0, <2>4, <2>1, <2>2 DEF ShownInTime, Unmixed, TlsShape
    <3> QED
      BY <3>2, <3>3, <3>4
  <2> QED
    BY <2>3, <2>4 DEF TlsInv
<1>16. ASSUME ReadKey PROVE TlsInv'
  <2>1. UNCHANGED <<crt, key, config, chosen, upload, certStatus, fetching, latest, mishap>>
    BY <1>16 DEF ReadKey
  <2>2. /\ served' = IF key = reload.crt THEN key ELSE NoPair
        /\ reload' = [pc |-> "idle", crt |-> NoPair] /\ reload.pc = "key"
    BY <1>16 DEF ReadKey
  <2>3. TlsShape'
    BY <1>0, <2>1, <2>2 DEF TlsShape
  <2>4. ASSUME ~mishap' PROVE PairByPair' /\ ReadInTime' /\ ShownInTime'
    <3>1. PairByPair /\ ReadInTime /\ ShownInTime
      BY <2>4, <2>1, <2>2 DEF TlsInv
    <3>2. PairByPair'
      BY <3>1, <1>0, <2>4, <2>1, <2>2 DEF PairByPair, Installing, validateCertificatePair
    <3>3. ReadInTime'
      BY <3>1, <1>0, <2>4, <2>1, <2>2 DEF ReadInTime, Unmixed, PairByPair
    <3>4. ShownInTime'
      BY <3>1, <3>2, <1>0, <2>4, <2>1, <2>2 DEF ShownInTime, Unmixed, TlsShape
    <3> QED
      BY <3>2, <3>3, <3>4
  <2> QED
    BY <2>3, <2>4 DEF TlsInv
<1>17. ASSUME TraefikRestarts PROVE TlsInv'
  <2>1. UNCHANGED <<crt, key, config, chosen, upload, certStatus, fetching, latest, mishap>>
    BY <1>17 DEF TraefikRestarts
  <2>2. served' = NoPair /\ reload' = [pc |-> "changed", crt |-> NoPair]
    BY <1>17 DEF TraefikRestarts
  <2>3. TlsShape'
    BY <1>0, <2>1, <2>2 DEF TlsShape
  <2>4. ASSUME ~mishap' PROVE PairByPair' /\ ReadInTime' /\ ShownInTime'
    <3>1. PairByPair /\ ReadInTime /\ ShownInTime
      BY <2>4, <2>1, <2>2 DEF TlsInv
    <3>2. PairByPair'
      BY <3>1, <1>0, <2>4, <2>1, <2>2 DEF PairByPair, Installing, validateCertificatePair
    <3>3. ReadInTime'
      BY <3>1, <1>0, <2>4, <2>1, <2>2 DEF ReadInTime, Unmixed
    <3>4. ShownInTime'
      BY <3>1, <3>2, <1>0, <2>4, <2>1, <2>2 DEF ShownInTime, Unmixed, TlsShape
    <3> QED
      BY <3>2, <3>3, <3>4
  <2> QED
    BY <2>3, <2>4 DEF TlsInv
<1>18. ASSUME UNCHANGED tlsVars PROVE TlsInv'
  <2>1. UNCHANGED <<crt, key, config, served, reload, chosen, upload, certStatus, fetching, latest, mishap>>
    BY <1>18 DEF tlsVars
  <2> QED
    BY <2>1 DEF TlsInv, TlsShape, PairByPair, Installing, validateCertificatePair, ReadInTime, Unmixed, ShownInTime
<1> QED
  BY <1>1, <1>2, <1>3, <1>4, <1>5, <1>6, <1>7, <1>8, <1>9, <1>10, <1>11, <1>12, <1>13, <1>14,
      <1>15, <1>16, <1>17, <1>18 DEF TlsNext

LEMMA CertificatesImplied == TlsInv => CertificateServed /\ TlsTypeOK
<1> SUFFICES ASSUME TlsInv PROVE CertificateServed /\ TlsTypeOK
  OBVIOUS
<1>1. TlsTypeOK
  BY DEF TlsInv, TlsShape, TlsTypeOK, UploadType
<1>2. ASSUME ~mishap, Installing = {}, reload.pc = "idle"
      PROVE  /\ crt = key /\ served = crt
             /\ \A t \in latest : upload[t].pc = "idle" /\ fetching[t].pc = "none" => certStatus[t] = served
  <2>1. \A t \in Tabs : upload[t].pc \notin Handling
    BY <1>2 DEF Installing
  <2>2. crt = key /\ served = crt
    BY <1>2, <2>1 DEF TlsInv, PairByPair, ReadInTime, Unmixed, Handling
  <2> QED
    BY <1>2, <2>1, <2>2 DEF TlsInv, ShownInTime, Unmixed, Handling
<1> QED
  BY <1>1, <1>2 DEF CertificateServed

-----------------------------------------------------------------------------
(* Domains page: DomainsPage                                               *)

SiteCallType ==
  [pc : {"idle", "sent", "ok", "refused"}, kind : {"create", "update", "delete", "verify"},
   site : SiteIds \cup {NewSite}, host : SiteHosts \cup {Blank}, target : SiteTargets \cup {Blank},
   opened : SiteIds \cup {NewSite}]
DpShape ==
  /\ sites \in Table /\ listed \in Table
  /\ siteForm \in Form
  /\ siteFetch \in [pc : {"none", "sent", "answered"}, answer : Table, unseen : SUBSET SiteIds]
  /\ siteCall \in [SiteCalls -> SiteCallType]
  /\ saves \in 0 .. MaxSaves
  /\ unseen \subseteq SiteIds

(* An open form edits what it was opened for, and a save sends the whole   *)
(* form to it.                                                             *)
FormForItsRow ==
  /\ siteForm.open => siteForm.editing = siteForm.opened
  /\ \A c \in SiteCalls : siteCall[c].kind \in {"create", "update"} =>
       /\ siteCall[c].site = siteCall[c].opened
       /\ siteCall[c].pc = "sent" => siteCall[c].host # Blank /\ siteCall[c].target # Blank

(* Until a change that has succeeded is fetched, no answer is the last.    *)
SameRow(rows, d) ==
  /\ d \in DOMAIN rows <=> d \in DOMAIN sites
  /\ d \in DOMAIN sites => rows[d] = sites[d]
ListKeepsUp ==
  (\A c \in SiteCalls : siteCall[c].pc # "ok") =>
    /\ siteFetch.pc = "none" => \A d \in SiteIds \ unseen : SameRow(listed, d)
    /\ siteFetch.pc = "answered" => \A d \in SiteIds \ siteFetch.unseen : SameRow(siteFetch.answer, d)

DpInv == DpShape /\ FormForItsRow /\ ListKeepsUp

LEMMA DomainsPageStart == DpInit => DpInv
<1> SUFFICES ASSUME DpInit PROVE DpInv
  OBVIOUS
<1>1. <<>> \in Table
  BY DEF Table
<1>2. DpShape
  BY <1>1, DomainsPageAssumption DEF DpInit, DpShape, NoForm, Form, NoList, NoSave, SiteCallType
<1>3. FormForItsRow /\ ListKeepsUp
  BY DEF DpInit, FormForItsRow, ListKeepsUp, SameRow, NoForm, NoList, NoSave
<1> QED
  BY <1>2, <1>3 DEF DpInv

(* Writing one row keeps the hostnames apart, and the other rows.          *)
LEMMA WithKeepsTable ==
  ASSUME sites \in Table, NEW d \in SiteIds, NEW row \in Site,
         \A e \in DOMAIN sites \ {d} : sites[e].host # row.host
  PROVE  /\ With(d, row) \in Table
         /\ DOMAIN With(d, row) = DOMAIN sites \cup {d}
         /\ With(d, row)[d] = row
         /\ \A e \in DOMAIN sites \ {d} : With(d, row)[e] = sites[e]
<1> DEFINE w == With(d, row)
<1>1. DOMAIN sites \subseteq SiteIds /\ sites \in [DOMAIN sites -> Site]
  BY DEF Table
<1>2. w = [e \in DOMAIN sites \cup {d} |-> IF e = d THEN row ELSE sites[e]]
  BY DEF With
<1>3. /\ w \in [DOMAIN sites \cup {d} -> Site] /\ DOMAIN w = DOMAIN sites \cup {d}
      /\ w[d] = row /\ \A e \in DOMAIN sites \ {d} : w[e] = sites[e]
  BY <1>1, <1>2
<1> HIDE DEF w
<1>4. \A e, f \in DOMAIN w : w[e].host = w[f].host => e = f
  BY <1>1, <1>3 DEF Table
<1>5. w \in Table
  <2>1. DOMAIN sites \cup {d} \in SUBSET SiteIds
    BY <1>1
  <2>2. w \in UNION {[ids -> Site] : ids \in SUBSET SiteIds}
    BY <1>3, <2>1
  <2> QED
    BY <1>4, <2>2 DEF Table
<1> QED
  BY <1>3, <1>5 DEF w

LEMMA StoreSiteKeepsTable ==
  ASSUME sites \in Table, NEW m \in SiteCallType, StoreSite(m),
         m.kind \in {"create", "update"} => m.host # Blank /\ m.target # Blank
  PROVE  sites' \in Table
<1>0. DOMAIN sites \subseteq SiteIds /\ sites \in [DOMAIN sites -> Site] /\ NewSite \notin DOMAIN sites
      /\ \A d, e \in DOMAIN sites : sites[d].host = sites[e].host => d = e
  BY DomainsPageAssumption DEF Table
<1>1. CASE m.kind = "create" /\ HostFree(m.host, NewSite)
             /\ \E d \in SiteIds \ DOMAIN sites, s \in {"pending", "active"} :
                  sites' = With(d, [host |-> m.host, target |-> m.target, status |-> s])
  <2>1. PICK d \in SiteIds \ DOMAIN sites, s \in {"pending", "active"} :
          sites' = With(d, [host |-> m.host, target |-> m.target, status |-> s])
    BY <1>1
  <2>2. [host |-> m.host, target |-> m.target, status |-> s] \in Site
    BY <1>1 DEF SiteCallType, Site
  <2>3. \A e \in DOMAIN sites \ {d} : sites[e].host # m.host
    BY <1>0, <1>1 DEF HostFree
  <2> QED
    BY <2>1, <2>2, <2>3, WithKeepsTable
<1>2. CASE m.kind = "update" /\ m.site \in DOMAIN sites /\ HostFree(m.host, m.site)
             /\ sites' = With(m.site, [host |-> m.host, target |-> m.target, status |-> "pending"])
  <2> DEFINE row == [host |-> m.host, target |-> m.target, status |-> "pending"]
  <2>1. row \in Site /\ row.host = m.host
    BY <1>2 DEF SiteCallType, Site
  <2>2. sites' = With(m.site, row)
    BY <1>2
  <2> HIDE DEF row
  <2>3. \A e \in DOMAIN sites \ {m.site} : sites[e].host # row.host
    BY <1>2, <2>1 DEF HostFree
  <2>4. m.site \in SiteIds
    BY <1>0, <1>2
  <2> QED
    BY <2>1, <2>2, <2>3, <2>4, WithKeepsTable
<1>3. CASE m.kind = "verify" /\ m.site \in DOMAIN sites
             /\ \E s \in {"pending", "active"} : sites' = With(m.site, [sites[m.site] EXCEPT !.status = s])
  <2>1. PICK s \in {"pending", "active"} : sites' = With(m.site, [sites[m.site] EXCEPT !.status = s])
    BY <1>3
  <2> DEFINE row == [sites[m.site] EXCEPT !.status = s]
  <2>2. row \in Site /\ row.host = sites[m.site].host
    BY <1>0, <1>3 DEF Site
  <2>3. sites' = With(m.site, row)
    BY <2>1
  <2> HIDE DEF row
  <2>4. m.site \in SiteIds /\ \A e \in DOMAIN sites \ {m.site} : sites[e].host # row.host
    BY <1>0, <1>3, <2>2
  <2> QED
    BY <2>2, <2>3, <2>4, WithKeepsTable
<1>4. CASE m.kind = "delete" /\ m.site \in DOMAIN sites /\ sites' = [e \in DOMAIN sites \ {m.site} |-> sites[e]]
  <2>1. /\ sites' \in [DOMAIN sites \ {m.site} -> Site] /\ DOMAIN sites' = DOMAIN sites \ {m.site}
        /\ \A e \in DOMAIN sites \ {m.site} : sites'[e] = sites[e]
    BY <1>0, <1>4
  <2> QED
    BY <1>0, <2>1 DEF Table
<1> QED
  BY <1>1, <1>2, <1>3, <1>4 DEF StoreSite

(* A handler that goes on.                                                 *)
LEMMA SiteCallGoesOn ==
  ASSUME siteCall \in [SiteCalls -> SiteCallType], NEW c \in SiteCalls, NEW pc \in {"ok", "refused"},
         siteCall' = [siteCall EXCEPT ![c].pc = pc], FormForItsRow
  PROVE  /\ siteCall' \in [SiteCalls -> SiteCallType] /\ siteCall'[c].pc = pc
         /\ \A b \in SiteCalls \ {c} : siteCall'[b] = siteCall[b]
         /\ \A b \in SiteCalls : siteCall'[b].kind \in {"create", "update"} =>
              /\ siteCall'[b].site = siteCall'[b].opened
              /\ siteCall'[b].pc = "sent" => siteCall'[b].host # Blank /\ siteCall'[b].target # Blank
<1> DEFINE r == [siteCall[c] EXCEPT !.pc = pc]
<1>1. r \in SiteCallType /\ r.pc = pc /\ r.kind = siteCall[c].kind /\ r.site = siteCall[c].site
      /\ r.opened = siteCall[c].opened
  BY DEF SiteCallType
<1>2. siteCall' = [siteCall EXCEPT ![c] = r]
  OBVIOUS
<1> HIDE DEF r
<1>3. /\ siteCall' \in [SiteCalls -> SiteCallType] /\ siteCall'[c] = r
      /\ \A b \in SiteCalls \ {c} : siteCall'[b] = siteCall[b]
  BY <1>1, <1>2
<1> QED
  BY <1>1, <1>3 DEF FormForItsRow

(* The rows that a change of another hand touches are noted.               *)
LEMMA BehindKeepsUp ==
  ASSUME DpShape, NEW rows \in SUBSET SiteIds, Behind(rows)
  PROVE  /\ unseen' = unseen \cup rows /\ unseen' \subseteq SiteIds
         /\ siteFetch' \in [pc : {"none", "sent", "answered"}, answer : Table, unseen : SUBSET SiteIds]
         /\ siteFetch'.pc = siteFetch.pc /\ siteFetch'.answer = siteFetch.answer
         /\ siteFetch'.unseen = siteFetch.unseen \cup rows
  BY DEF DpShape, Behind

LEMMA DomainsPageStep == DpInv /\ [DpNext]_dpVars => DpInv'
<1> SUFFICES ASSUME DpInv, [DpNext]_dpVars PROVE DpInv'
  OBVIOUS
<1>0. /\ DpShape /\ FormForItsRow /\ ListKeepsUp
      /\ siteCall \in [SiteCalls -> SiteCallType] /\ saves \in Nat
  BY DomainsPageAssumption DEF DpInv, DpShape
<1>00. <<>> \in Table
  BY DEF Table
<1>1. CASE RefetchList \/ AnswerList \/ ArriveList \/ ListFails
  <2>1. UNCHANGED <<sites, siteForm, siteCall, saves>>
    BY <1>1 DEF RefetchList, AnswerList, ArriveList, ListFails
  <2>2. DpShape'
    BY <1>0, <1>00, <1>1, <2>1 DEF RefetchList, AnswerList, ArriveList, ListFails, DpShape, NoList
  <2>3. ListKeepsUp'
    <3>1. CASE RefetchList
      BY <3>1, <1>0, <2>1 DEF RefetchList, NoList, ListKeepsUp
    <3>2. CASE AnswerList
      BY <3>2, <1>0, <2>1 DEF AnswerList, ListKeepsUp, SameRow
    <3>3. CASE ArriveList
      BY <3>3, <1>0, <2>1 DEF ArriveList, NoList, ListKeepsUp, SameRow
    <3>4. CASE ListFails
      BY <3>4, <1>0, <2>1 DEF ListFails, NoList, ListKeepsUp, SameRow
    <3> QED
      BY <1>1, <3>1, <3>2, <3>3, <3>4
  <2> QED
    BY <1>0, <2>1, <2>2, <2>3 DEF DpInv, FormForItsRow
<1>2. CASE openCreate \/ FormPanel \/ \E d \in SiteIds : openEdit(d)
  <2>1. UNCHANGED <<sites, listed, siteFetch, siteCall, saves, unseen>>
    BY <1>2 DEF openCreate, FormPanel, openEdit
  <2>2. siteForm' \in Form /\ (siteForm'.open => siteForm'.editing = siteForm'.opened)
    <3>1. CASE openCreate
      BY <3>1 DEF openCreate, NoForm, Form
    <3>2. CASE FormPanel
      <4>1. siteForm \in Form /\ siteForm.open /\ siteForm.editing = siteForm.opened
        BY <3>2, <1>0 DEF FormPanel, DpShape, FormForItsRow
      <4>2. CASE siteForm' = [siteForm EXCEPT !.open = FALSE]
        BY <4>1, <4>2 DEF Form
      <4>3. CASE \E h \in SiteHosts \cup {Blank} : siteForm' = [siteForm EXCEPT !.host = h]
        BY <4>1, <4>3 DEF Form
      <4>4. CASE \E g \in SiteTargets \cup {Blank} : siteForm' = [siteForm EXCEPT !.target = g]
        BY <4>1, <4>4 DEF Form
      <4> QED
        BY <3>2, <4>2, <4>3, <4>4 DEF FormPanel
    <3>3. CASE \E d \in SiteIds : openEdit(d)
      <4>1. PICK d \in SiteIds : openEdit(d)
        BY <3>3
      <4>2. listed[d] \in Site
        BY <4>1, <1>0 DEF openEdit, DpShape, Table
      <4> QED
        BY <4>1, <4>2 DEF openEdit, Form, Site
    <3> QED
      BY <1>2, <3>1, <3>2, <3>3
  <2>3. DpShape'
    BY <1>0, <2>1, <2>2 DEF DpShape
  <2> QED
    BY <1>0, <2>1, <2>2, <2>3 DEF DpInv, FormForItsRow, ListKeepsUp, SameRow
<1>3. ASSUME NEW c \in SiteCalls, submit(c) \/ SiteList(c) PROVE DpInv'
  <2>1. PICK m \in SiteCallType :
          /\ siteCall[c].pc = "idle" /\ saves < MaxSaves /\ saves' = saves + 1
          /\ siteCall' = [siteCall EXCEPT ![c] = m]
          /\ UNCHANGED <<sites, listed, siteForm, siteFetch, unseen>>
          /\ m.pc = "sent"
          /\ m.kind \in {"create", "update"} =>
               m.site = m.opened /\ m.host # Blank /\ m.target # Blank
    <3>1. CASE submit(c)
      <4>1. siteForm.open /\ siteForm.host # Blank /\ siteForm.target # Blank /\ siteForm.editing = siteForm.opened
            /\ siteForm \in Form
        BY <3>1, <1>0 DEF submit, FormForItsRow, DpShape
      <4>2. PICK kind \in {"create", "update"} : SendSite(c, kind, siteForm.editing, siteForm.host, siteForm.target)
        BY <3>1 DEF submit, updateDomain, createDomain
      <4>3. [pc |-> "sent", kind |-> kind, site |-> siteForm.editing, host |-> siteForm.host,
             target |-> siteForm.target, opened |-> siteForm.opened] \in SiteCallType
        BY <4>1, <4>2 DEF Form, SiteCallType
      <4> QED
        BY <4>1, <4>2, <4>3 DEF SendSite
    <3>2. CASE SiteList(c)
      <4>1. PICK d \in SiteIds, kind \in {"delete", "verify"} : SendSite(c, kind, d, Blank, Blank)
        BY <3>2, <1>0 DEF SiteList, verifyDomain, deleteDomain, DpShape, Table
      <4>2. [pc |-> "sent", kind |-> kind, site |-> d, host |-> Blank,
             target |-> Blank, opened |-> siteForm.opened] \in SiteCallType
        BY <4>1, <1>0 DEF Form, DpShape, SiteCallType
      <4> QED
        BY <4>1, <4>2 DEF SendSite
    <3> QED
      BY <1>3, <3>1, <3>2
  <2>2. /\ siteCall' \in [SiteCalls -> SiteCallType] /\ siteCall'[c] = m
        /\ \A b \in SiteCalls \ {c} : siteCall'[b] = siteCall[b]
    BY <1>0, <2>1
  <2>3. saves' \in 0 .. MaxSaves
    BY <1>0, <2>1, DomainsPageAssumption
  <2>4. DpShape'
    BY <1>0, <2>1, <2>2, <2>3 DEF DpShape
  <2>5. FormForItsRow'
    BY <1>0, <2>1, <2>2 DEF FormForItsRow
  <2>6. ListKeepsUp'
    BY <1>0, <2>1, <2>2 DEF ListKeepsUp, SameRow
  <2> QED
    BY <2>4, <2>5, <2>6 DEF DpInv
<1>4. ASSUME NEW c \in SiteCalls, HandleSite(c) \/ HandleSiteBadly(c) PROVE DpInv'
  <2>1. PICK pc \in {"ok", "refused"} :
          /\ siteCall' = [siteCall EXCEPT ![c].pc = pc]
          /\ pc = "ok" => UNCHANGED <<siteFetch, unseen>> /\ StoreSite(siteCall[c])
          /\ pc = "refused" => \/ UNCHANGED <<sites, unseen, siteFetch>>
                               \/ StoreSite(siteCall[c]) /\ Behind(SiteIds)
    BY <1>4 DEF HandleSite, HandleSiteBadly
  <2>2. siteCall[c].pc = "sent" /\ UNCHANGED <<listed, siteForm, saves>>
    BY <1>4 DEF HandleSite, HandleSiteBadly
  <2>3. /\ siteCall' \in [SiteCalls -> SiteCallType] /\ siteCall'[c].pc = pc
        /\ \A b \in SiteCalls \ {c} : siteCall'[b] = siteCall[b]
        /\ \A b \in SiteCalls : siteCall'[b].kind \in {"create", "update"} =>
             /\ siteCall'[b].site = siteCall'[b].opened
             /\ siteCall'[b].pc = "sent" => siteCall'[b].host # Blank /\ siteCall'[b].target # Blank
    BY <1>0, <2>1, SiteCallGoesOn
  <2>4. sites' \in Table
    <3>1. siteCall[c].kind \in {"create", "update"} => siteCall[c].host # Blank /\ siteCall[c].target # Blank
      BY <1>0, <2>2 DEF FormForItsRow
    <3>2. CASE UNCHANGED sites
      BY <3>2, <1>0 DEF DpShape
    <3>3. CASE StoreSite(siteCall[c])
      BY <3>1, <3>3, <1>0, StoreSiteKeepsTable DEF DpShape
    <3> QED
      BY <2>1, <3>2, <3>3
  <2>5. \/ UNCHANGED <<siteFetch, unseen>>
        \/ Behind(SiteIds)
    BY <2>1
  <2>6. DpShape'
    BY <1>0, <2>2, <2>3, <2>4, <2>5, BehindKeepsUp DEF DpShape
  <2>7. FormForItsRow'
    BY <1>0, <2>2, <2>3 DEF FormForItsRow
  <2>8. ListKeepsUp'
    <3>1. CASE pc = "ok"
      BY <3>1, <2>3 DEF ListKeepsUp
    <3>2. CASE pc = "refused" /\ UNCHANGED <<sites, unseen, siteFetch>>
      BY <3>2, <1>0, <2>2, <2>3 DEF ListKeepsUp, SameRow
    <3>3. CASE pc = "refused" /\ Behind(SiteIds)
      BY <3>3, <1>0, <2>2, <2>3, BehindKeepsUp DEF ListKeepsUp
    <3> QED
      BY <2>1, <3>1, <3>2, <3>3
  <2> QED
    BY <2>6, <2>7, <2>8 DEF DpInv
<1>5. ASSUME NEW c \in SiteCalls, SiteSaved(c) \/ SiteRefused(c) PROVE DpInv'
  <2>1. /\ siteCall' = [siteCall EXCEPT ![c] = NoSave] /\ NoSave \in SiteCallType
        /\ UNCHANGED <<sites, listed, saves, unseen>>
    BY <1>5 DEF SiteSaved, SiteRefused, NoSave, SiteCallType
  <2>2. /\ siteCall' \in [SiteCalls -> SiteCallType] /\ siteCall'[c] = NoSave
        /\ \A b \in SiteCalls \ {c} : siteCall'[b] = siteCall[b]
    BY <1>0, <2>1
  <2>3. siteForm' \in Form /\ (siteForm'.open => siteForm'.editing = siteForm'.opened)
    BY <1>5, <1>0 DEF SiteSaved, SiteRefused, Form, DpShape, FormForItsRow
  <2>4. DpShape'
    BY <1>0, <1>00, <1>5, <2>1, <2>2, <2>3 DEF DpShape, SiteSaved, SiteRefused, NoList
  <2>5. FormForItsRow'
    BY <1>0, <2>2, <2>3 DEF FormForItsRow, NoSave
  <2>6. ListKeepsUp'
    <3>1. CASE SiteSaved(c)
      BY <3>1 DEF SiteSaved, NoList, ListKeepsUp
    <3>2. CASE SiteRefused(c)
      BY <3>2, <1>0, <2>1, <2>2 DEF SiteRefused, ListKeepsUp, SameRow
    <3> QED
      BY <1>5, <3>1, <3>2
  <2> QED
    BY <2>4, <2>5, <2>6 DEF DpInv
<1>6. CASE RouteTickMoves
  <2>1. PICK d \in DOMAIN sites, s \in {"pending", "active"} :
          /\ sites' = With(d, [sites[d] EXCEPT !.status = s])
          /\ Behind({d})
    BY <1>6 DEF RouteTickMoves
  <2>2. UNCHANGED <<listed, siteForm, siteCall, saves>>
    BY <1>6 DEF RouteTickMoves
  <2>3. /\ DOMAIN sites \subseteq SiteIds /\ sites \in [DOMAIN sites -> Site]
        /\ \A e, f \in DOMAIN sites : sites[e].host = sites[f].host => e = f
    BY <1>0 DEF DpShape, Table
  <2> DEFINE row == [sites[d] EXCEPT !.status = s]
  <2>4. row \in Site /\ row.host = sites[d].host /\ sites' = With(d, row)
    BY <2>1, <2>3 DEF Site
  <2> HIDE DEF row
  <2>5. d \in SiteIds /\ sites \in Table /\ \A e \in DOMAIN sites \ {d} : sites[e].host # row.host
    BY <1>0, <2>3, <2>4 DEF DpShape
  <2>6. /\ sites' \in Table /\ DOMAIN sites' = DOMAIN sites
        /\ \A e \in DOMAIN sites \ {d} : sites'[e] = sites[e]
    <3>1. /\ sites' \in Table /\ DOMAIN sites' = DOMAIN sites \cup {d}
          /\ \A e \in DOMAIN sites \ {d} : sites'[e] = sites[e]
      BY <2>4, <2>5, WithKeepsTable
    <3> QED
      BY <3>1
  <2>7. DpShape'
    BY <1>0, <2>1, <2>2, <2>3, <2>6, BehindKeepsUp DEF DpShape
  <2>8. ListKeepsUp'
    BY <1>0, <2>1, <2>2, <2>3, <2>6, BehindKeepsUp DEF ListKeepsUp, SameRow
  <2> QED
    BY <1>0, <2>2, <2>7, <2>8 DEF DpInv, FormForItsRow
<1>7. CASE UNCHANGED dpVars
  BY <1>0, <1>7 DEF dpVars, DpInv, DpShape, FormForItsRow, ListKeepsUp, SameRow
<1> QED
  BY <1>1, <1>2, <1>3, <1>4, <1>5, <1>6, <1>7 DEF DpNext

LEMMA DomainsPageImplied == DpInv => DomainsPageSound /\ DpTypeOK
<1> SUFFICES ASSUME DpInv PROVE DomainsPageSound /\ DpTypeOK
  OBVIOUS
<1>1. DomainsPageSound
  BY DEF DpInv, DomainsPageSound, FormForItsRow, ListKeepsUp, SameRow
<1>2. DpTypeOK
  BY DEF DpInv, DpShape, DpTypeOK, SiteCallType
<1> QED
  BY <1>1, <1>2

-----------------------------------------------------------------------------
(* Application page: ApplicationPage                                       *)

Load == [field : UNION {[S -> Values] : S \in SUBSET Fields}, ports : SUBSET Ports,
         items : SUBSET Items, workloads : SUBSET WorkloadStates]

(* What a mutation stores, and which query brings it.                      *)
PartsOf(m) == CASE m = "defaults" -> {"resources", "runtime"}
                [] m = "deployment" -> {"workloads"}
                [] OTHER -> {m}
QueryOf(part) == CASE part = "source" -> "applications"
                   [] part = "workloads" -> "runtime"
                   [] OTHER -> "configuration"

PagShape ==
  /\ saved \in Data /\ shown \in Data
  /\ form \in [Fields -> Values]
  /\ fetch \in [Queries -> [pc : {"none", "sent", "answered"}, answer : Load]]
  /\ \A q \in Queries : fetch[q].pc = "answered" => DOMAIN fetch[q].answer.field = QueryFields(q)
  /\ mutation \in [Mutations -> [pc : {"idle", "sent"}, todo : SUBSET Parts, load : Load]]
  /\ \A m \in Mutations : /\ mutation[m].todo \subseteq PartsOf(m)
                          /\ mutation[m].todo \cap Fields \subseteq DOMAIN mutation[m].load.field
                          /\ mutation[m].pc = "idle" => mutation[m].todo = {}
                          /\ mutation[m].load.items \subseteq {m}
  /\ asked \subseteq Ports
  /\ clicks \in 0 .. MaxClicks
  /\ moved \in BOOLEAN /\ hasty \in BOOLEAN /\ disturbed \in BOOLEAN

(* A part that no mutation is about to change, and that has not moved by   *)
(* itself, is shown as it is stored, or is about to be.                    *)
SamePart(part, x, y) ==
  CASE part \in Fields -> x.field[part] = y.field[part]
    [] part \in Items -> part \in x.items <=> part \in y.items
    [] part = "ports" -> x.ports = y.ports
    [] OTHER -> x.workloads = y.workloads
PartsShown ==
  \A part \in Parts :
    /\ \A m \in Mutations : part \in PartsOf(m) => mutation[m].pc = "idle"
    /\ part = "workloads" => ~moved
    =>
      /\ fetch[QueryOf(part)].pc = "none" => SamePart(part, shown, saved)
      /\ fetch[QueryOf(part)].pc = "answered" => SamePart(part, fetch[QueryOf(part)].answer, saved)

(* The ports that were asked for are stored, or are being sent.            *)
PortsAsAsked ==
  ~hasty => IF "ports" \in mutation["ports"].todo THEN mutation["ports"].load.ports = asked
            ELSE saved.ports = asked

PagInv == PagShape /\ (~disturbed => PartsShown /\ PortsAsAsked)

(* What a query brings, what it changes, and what a stored part leaves.    *)
LEMMA AnswerIsSame ==
  ASSUME NEW data \in Data, NEW q \in Queries
  PROVE  /\ Part(q, data) \in Load /\ DOMAIN Part(q, data).field = QueryFields(q)
         /\ \A part \in Parts : QueryOf(part) = q => SamePart(part, Part(q, data), data)
<1> DEFINE a == Part(q, data)
           fields == [f \in QueryFields(q) |-> data.field[f]]
<1>1. data.field \in [Fields -> Values] /\ data.ports \subseteq Ports /\ data.items \subseteq Items
      /\ data.workloads \subseteq WorkloadStates
  BY DEF Data
<1>2. QueryFields(q) \subseteq Fields
  BY DEF QueryFields, Queries, Fields
<1>3. fields \in [QueryFields(q) -> Values] /\ DOMAIN fields = QueryFields(q)
      /\ \A f \in QueryFields(q) : fields[f] = data.field[f]
  BY <1>1, <1>2
<1>4. fields \in UNION {[S -> Values] : S \in SUBSET Fields}
  BY <1>2, <1>3
<1>5. <<>> \in [{} -> Values]
  OBVIOUS
<1>6. <<>> \in UNION {[S -> Values] : S \in SUBSET Fields}
  BY <1>5
<1>7. CASE q = "configuration"
  <2>1. a = [field |-> fields, ports |-> data.ports, items |-> data.items, workloads |-> {}]
    BY <1>7 DEF Part, GetConfiguration, OfFields, NoLoad
  <2> HIDE DEF a, fields
  <2>2. a \in Load
    BY <1>1, <1>4, <2>1 DEF Load
  <2>3. \A part \in Parts : QueryOf(part) = q => part \in QueryFields(q) \/ part \in Items \/ part = "ports"
    BY <1>7 DEF Parts, Fields, Items, QueryOf, QueryFields
  <2>4. a.field = fields /\ a.ports = data.ports /\ a.items = data.items
    BY <2>1
  <2>5. ASSUME NEW part \in Parts, QueryOf(part) = q PROVE SamePart(part, a, data)
    <3>1. CASE part \in QueryFields(q)
      BY <1>2, <1>3, <2>4, <3>1 DEF SamePart
    <3>2. CASE part \in Items
      BY <2>4, <3>2 DEF SamePart, Fields, Items
    <3>3. CASE part = "ports"
      BY <2>4, <3>3 DEF SamePart, Fields, Items
    <3> QED
      BY <2>3, <2>5, <3>1, <3>2, <3>3
  <2>6. DOMAIN a.field = QueryFields(q)
    BY <1>3, <2>4
  <2> QED
    BY <2>2, <2>5, <2>6 DEF a
<1>8. CASE q = "applications"
  <2>1. a = [field |-> fields, ports |-> {}, items |-> {}, workloads |-> {}]
    BY <1>8 DEF Part, GetApplications, OfFields, NoLoad
  <2> HIDE DEF a, fields
  <2>2. a \in Load
    BY <1>4, <2>1 DEF Load
  <2>3. \A part \in Parts : QueryOf(part) = q => part \in QueryFields(q)
    BY <1>8 DEF Parts, Fields, Items, QueryOf, QueryFields
  <2>4. a.field = fields
    BY <2>1
  <2>5. ASSUME NEW part \in Parts, part \in QueryFields(q) PROVE SamePart(part, a, data)
    <3>1. a.field[part] = data.field[part]
      BY <1>3, <2>4, <2>5
    <3> QED
      BY <1>2, <2>5, <3>1 DEF SamePart, Fields, Items
  <2>6. DOMAIN a.field = QueryFields(q)
    BY <1>3, <2>4
  <2> QED
    BY <2>2, <2>3, <2>5, <2>6 DEF a
<1>9. CASE q = "runtime"
  <2>1. a = [field |-> <<>>, ports |-> {}, items |-> {}, workloads |-> data.workloads]
    BY <1>9 DEF Part, GetRuntime, NoLoad
  <2> HIDE DEF a
  <2>2. a \in Load
    BY <1>1, <1>6, <2>1 DEF Load
  <2>3. \A part \in Parts : QueryOf(part) = q => part = "workloads"
    BY <1>9 DEF Parts, Fields, Items, QueryOf
  <2>4. \A part \in Parts : QueryOf(part) = q => SamePart(part, a, data)
    BY <2>1, <2>3 DEF SamePart, Fields, Items
  <2>5. QueryFields(q) = {} /\ DOMAIN <<>> = {}
    BY <1>9, <1>5 DEF QueryFields
  <2>6. DOMAIN a.field = QueryFields(q)
    BY <2>1, <2>5
  <2> QED
    BY <2>2, <2>4, <2>6 DEF a
<1> QED
  BY <1>7, <1>8, <1>9 DEF Queries

LEMMA UpdateBrings ==
  ASSUME NEW data \in Data, NEW q \in Queries, NEW a \in Load, DOMAIN a.field = QueryFields(q)
  PROVE  /\ Update(data, q, a) \in Data
         /\ \A part \in Parts : \A other \in Data :
              SamePart(part, Update(data, q, a), other)
                <=> SamePart(part, IF QueryOf(part) = q THEN a ELSE data, other)
<1> DEFINE u == Update(data, q, a)
           fields == [f \in Fields |-> IF f \in QueryFields(q) THEN a.field[f] ELSE data.field[f]]
<1>1. data.field \in [Fields -> Values] /\ data.ports \subseteq Ports /\ data.items \subseteq Items
      /\ data.workloads \subseteq WorkloadStates
  BY DEF Data
<1>2. a.field \in [QueryFields(q) -> Values] /\ a.ports \subseteq Ports /\ a.items \subseteq Items
      /\ a.workloads \subseteq WorkloadStates
  BY DEF Load
<1>3. fields \in [Fields -> Values]
      /\ \A f \in Fields : fields[f] = IF f \in QueryFields(q) THEN a.field[f] ELSE data.field[f]
  BY <1>1, <1>2
<1> HIDE DEF fields
<1>4. u = [field |-> fields,
           ports |-> IF q = "configuration" THEN a.ports ELSE data.ports,
           items |-> IF q = "configuration" THEN a.items ELSE data.items,
           workloads |-> IF q = "runtime" THEN a.workloads ELSE data.workloads]
  BY DEF Update, fields
<1>5. u \in Data
  BY <1>1, <1>2, <1>3, <1>4 DEF Data
<1>6. ASSUME NEW part \in Parts, NEW other \in Data
      PROVE  SamePart(part, u, other) <=> SamePart(part, IF QueryOf(part) = q THEN a ELSE data, other)
  <2>1. CASE part \in Fields
    <3>1. part \in QueryFields(q) <=> QueryOf(part) = q
      BY <2>1 DEF Fields, Queries, QueryFields, QueryOf
    <3>2. u.field[part] = IF part \in QueryFields(q) THEN a.field[part] ELSE data.field[part]
      BY <2>1, <1>3, <1>4
    <3> HIDE DEF u
    <3>3. CASE QueryOf(part) = q
      BY <2>1, <3>1, <3>2, <3>3 DEF SamePart, Fields, Items
    <3>4. CASE QueryOf(part) # q
      BY <2>1, <3>1, <3>2, <3>4 DEF SamePart, Fields, Items
    <3> QED
      BY <3>3, <3>4
  <2>2. CASE part \in Items
    <3>1. part \notin Fields /\ QueryOf(part) = "configuration"
      BY <2>2 DEF Fields, Items, QueryOf
    <3> QED
      BY <2>2, <3>1, <1>4 DEF SamePart
  <2>3. CASE part = "ports"
    <3>1. part \notin Fields /\ part \notin Items /\ QueryOf(part) = "configuration"
      BY <2>3 DEF Fields, Items, QueryOf
    <3> QED
      BY <2>3, <3>1, <1>4 DEF SamePart
  <2>4. CASE part = "workloads"
    <3>1. part \notin Fields /\ part \notin Items /\ QueryOf(part) = "runtime" /\ part # "ports"
      BY <2>4 DEF Fields, Items, QueryOf
    <3> QED
      BY <2>4, <3>1, <1>4 DEF SamePart
  <2> QED
    BY <2>1, <2>2, <2>3, <2>4 DEF Parts
<1> QED
  BY <1>5, <1>6

LEMMA StoringLeavesTheRest ==
  ASSUME saved \in Data, NEW part \in Parts, NEW l \in Load, part \in Fields => part \in DOMAIN l.field,
         part \in Items => l.items \subseteq {part}
  PROVE  /\ Stored(part, l) \in Data
         /\ Stored(part, l).ports = IF part = "ports" THEN l.ports ELSE saved.ports
         /\ \A other \in Parts \ {part} : \A x : SamePart(other, x, Stored(part, l)) <=> SamePart(other, x, saved)
<1> DEFINE s == Stored(part, l)
<1>1. saved.field \in [Fields -> Values] /\ saved.ports \subseteq Ports /\ saved.items \subseteq Items
      /\ saved.workloads \subseteq WorkloadStates
  BY DEF Data
<1>2. l.ports \subseteq Ports /\ l.items \subseteq Items /\ l.workloads \subseteq WorkloadStates
      /\ \A f \in DOMAIN l.field : l.field[f] \in Values
  BY DEF Load
<1>3. CASE part = "ports"
  <2>1. s = [saved EXCEPT !.ports = l.ports]
    BY <1>3 DEF Stored, PutPorts, Items
  <2>2. s \in Data /\ s.ports = l.ports /\ s.field = saved.field /\ s.items = saved.items
        /\ s.workloads = saved.workloads
    BY <1>2, <2>1 DEF Data
  <2> QED
    BY <1>3, <2>2 DEF SamePart, Parts
<1>4. CASE part \in Items
  <2>1. s = [saved EXCEPT !.items = (saved.items \ {part}) \cup l.items] /\ part # "ports"
    BY <1>4 DEF Stored, ChangeRow, Items
  <2>2. s \in Data /\ s.ports = saved.ports /\ s.field = saved.field
        /\ s.items = (saved.items \ {part}) \cup l.items /\ s.workloads = saved.workloads
    BY <1>1, <1>2, <2>1 DEF Data
  <2> QED
    BY <1>4, <2>1, <2>2 DEF SamePart, Parts
<1>5. CASE part = "workloads"
  <2>1. s = [saved EXCEPT !.workloads = (saved.workloads \ {"wanted"}) \cup l.workloads]
    BY <1>5 DEF Stored, RequestStop, Items
  <2>2. s \in Data /\ s.ports = saved.ports /\ s.field = saved.field /\ s.items = saved.items
    BY <1>1, <1>2, <2>1 DEF Data
  <2> QED
    BY <1>5, <2>2 DEF SamePart, Parts
<1>6. CASE part \in Fields
  <2>1. s = [saved EXCEPT !.field[part] = l.field[part]] /\ part # "ports"
    BY <1>6 DEF Stored, PutField, Items, Fields
  <2>2. l.field[part] \in Values
    BY <1>2, <1>6
  <2>3. s \in Data /\ s.ports = saved.ports /\ s.items = saved.items /\ s.workloads = saved.workloads
        /\ s.field = [saved.field EXCEPT ![part] = l.field[part]]
    BY <1>1, <2>1, <2>2 DEF Data
  <2>4. \A f \in Fields \ {part} : s.field[f] = saved.field[f]
    BY <1>1, <2>3
  <2> QED
    BY <1>6, <2>1, <2>3, <2>4 DEF SamePart, Parts
<1> QED
  BY <1>3, <1>4, <1>5, <1>6 DEF Parts

LEMMA ConfiguredByParts ==
  ASSUME NEW x \in Data, NEW y \in Data, \A part \in Parts \ {"workloads"} : SamePart(part, x, y)
  PROVE  Configured(x) = Configured(y)
<1>1. \A f \in Fields : x.field[f] = y.field[f]
  BY DEF SamePart, Parts, Fields, Items
<1>2. x.field = y.field
  BY <1>1 DEF Data
<1>3. \A i \in Items : i \in x.items <=> i \in y.items
  BY DEF SamePart, Parts, Items, Fields
<1>4. x.items = y.items
  BY <1>3 DEF Data
<1>5. x.ports = y.ports
  BY DEF SamePart, Parts, Items, Fields
<1> QED
  BY <1>2, <1>4, <1>5 DEF Configured, Data

LEMMA NoLoadIsLoad == NoLoad \in Load /\ NoLoad.items = {}
<1>1. <<>> \in [{} -> Values]
  OBVIOUS
<1>2. <<>> \in UNION {[S -> Values] : S \in SUBSET Fields}
  BY <1>1
<1> QED
  BY <1>2 DEF NoLoad, Load

LEMMA ApplicationPageStart == PagInit => PagInv
<1> SUFFICES ASSUME PagInit PROVE PagInv
  OBVIOUS
<1>3. saved \in Data /\ saved.ports = {} /\ shown = saved /\ form \in [Fields -> Values]
  BY ApplicationPageAssumption DEF PagInit, Data
<1>4. PagShape
  <2>1. fetch \in [Queries -> [pc : {"none", "sent", "answered"}, answer : Load]]
        /\ \A q \in Queries : fetch[q].pc = "none"
    BY NoLoadIsLoad DEF PagInit, NoFetch
  <2>2. mutation \in [Mutations -> [pc : {"idle", "sent"}, todo : SUBSET Parts, load : Load]]
        /\ \A m \in Mutations : mutation[m].todo = {} /\ mutation[m].load.items = {}
    BY NoLoadIsLoad DEF PagInit, NoSaving
  <2>3. clicks \in 0 .. MaxClicks /\ asked = {} /\ moved = FALSE /\ hasty = FALSE /\ disturbed = FALSE
    BY ApplicationPageAssumption DEF PagInit
  <2> QED
    BY <1>3, <2>1, <2>2, <2>3 DEF PagShape
<1>5. PartsShown
  BY <1>3 DEF PagInit, PartsShown, SamePart, NoFetch, QueryOf, Queries
<1>6. PortsAsAsked
  BY <1>3 DEF PagInit, PortsAsAsked, NoSaving, Mutations
<1> QED
  BY <1>4, <1>5, <1>6 DEF PagInv

(* A click sends a mutation that was idle.                                 *)
Clicked(m, l) ==
  /\ clicks < MaxClicks /\ clicks' = clicks + 1
  /\ mutation[m].pc = "idle"
  /\ mutation' = [mutation EXCEPT ![m] = [pc |-> "sent", todo |-> PartsOf(m), load |-> l]]
  /\ l \in Load /\ PartsOf(m) \cap Fields \subseteq DOMAIN l.field /\ l.items \subseteq {m}
  /\ UNCHANGED <<saved, shown, form, fetch, moved, disturbed>>
  /\ IF m = "ports"
     THEN /\ hasty' = (hasty \/ fetch["configuration"].pc # "none")
          /\ \E p \in Ports : \/ l.ports = shown.ports \ {p} /\ asked' = asked \ {p}
                              \/ l.ports = shown.ports \cup {p} /\ asked' = asked \cup {p}
     ELSE UNCHANGED <<asked, hasty>>

LEMMA FieldsSent ==
  ASSUME PagShape, NEW m \in Mutations \ {"ports"}, NEW fields \in SUBSET Fields, PartsOf(m) = fields,
         ~isPending(m), SendFields(m, fields)
  PROVE  \E l \in Load : Clicked(m, l)
<1> DEFINE input == [f \in fields |-> form[f]]
           l == [NoLoad EXCEPT !.field = input]
<1>1. input \in [fields -> Values] /\ DOMAIN input = fields
  BY DEF PagShape
<1>2. input \in UNION {[S -> Values] : S \in SUBSET Fields}
  BY <1>1
<1>3. l = [NoLoad EXCEPT !.field = [f \in fields |-> form[f]]]
  OBVIOUS
<1> HIDE DEF input
<1>4. l \in Load /\ l.field = input /\ l.items = {}
  BY <1>2, NoLoadIsLoad DEF Load
<1> HIDE DEF l
<1>5. Clicked(m, l)
  BY <1>1, <1>3, <1>4 DEF Clicked, SendFields, Send, isPending, PagShape
<1> QED
  BY <1>4, <1>5

LEMMA PagPanelsClick ==
  ASSUME PagShape,
         HeaderPanel \/ SourcePanel \/ DefaultsPanel \/ RuntimePanel \/ HealthPanel \/ BuildPanel
           \/ EnvironmentPanel \/ PortsPanel \/ VolumePanel \/ SecretPanel \/ VariablePanel
  PROVE  \/ ChooseSecretEnvironment \/ \E f \in Fields : Type(f)
         \/ \E m \in Mutations : \E l \in Load : Clicked(m, l)
<1>2. CASE HeaderPanel
  <2> DEFINE l == [NoLoad EXCEPT !.workloads = IF running THEN {} ELSE {"wanted"}]
  <2>1. l \in Load /\ l.items = {}
    BY NoLoadIsLoad DEF Load, WorkloadStates
  <2>2. l = [NoLoad EXCEPT !.workloads = IF running THEN {} ELSE {"wanted"}]
    OBVIOUS
  <2>3. PartsOf("deployment") = {"workloads"} /\ {"workloads"} \cap Fields = {}
    BY DEF PartsOf, Fields
  <2> HIDE DEF l
  <2>4. Clicked("deployment", l)
    BY <1>2, <2>1, <2>2, <2>3 DEF Clicked, HeaderPanel, deployment, Send, isPending, PagShape
  <2> QED
    BY <2>1, <2>4 DEF Mutations
<1>3. CASE SourcePanel
  <2>1. PartsOf("source") = {"source"} /\ "source" \in Mutations \ {"ports"} /\ {"source"} \in SUBSET Fields
    BY DEF PartsOf, Mutations, Fields
  <2> QED
    BY <1>3, <2>1, FieldsSent DEF SourcePanel, sourceMutation, Fields
<1>4. CASE DefaultsPanel \/ RuntimePanel \/ HealthPanel
  <2>1. /\ PartsOf("defaults") = {"resources", "runtime"} /\ "defaults" \in Mutations \ {"ports"}
        /\ {"resources", "runtime"} \in SUBSET Fields
    BY DEF PartsOf, Mutations, Fields
  <2> QED
    BY <1>4, <2>1, FieldsSent DEF DefaultsPanel, RuntimePanel, HealthPanel, saveDefaults, Fields
<1>5. CASE BuildPanel
  <2>1. PartsOf("build") = {"build"} /\ "build" \in Mutations \ {"ports"} /\ {"build"} \in SUBSET Fields
    BY DEF PartsOf, Mutations, Fields
  <2> QED
    BY <1>5, <2>1, FieldsSent DEF BuildPanel, buildConfigurationMutation, Fields
<1>6. CASE EnvironmentPanel
  <2>1. /\ PartsOf("environment") = {"environment"} /\ "environment" \in Mutations \ {"ports"}
        /\ {"environment"} \in SUBSET Fields
    BY DEF PartsOf, Mutations, Fields
  <2> QED
    BY <1>6, <2>1, FieldsSent DEF EnvironmentPanel, defaultEnvironmentMutation, Fields
<1>7. CASE PortsPanel
  <2>1. PICK p \in Ports, ports \in SUBSET Ports, wanted \in SUBSET Ports :
          /\ savePorts(ports, wanted)
          /\ \/ ports = shown.ports \ {p} /\ wanted = asked \ {p}
             \/ ports = shown.ports \cup {p} /\ wanted = asked \cup {p}
    BY <1>7 DEF PortsPanel, PagShape, Data
  <2> DEFINE l == [NoLoad EXCEPT !.ports = ports]
  <2>2. l \in Load /\ l.items = {} /\ l.ports = ports
    BY NoLoadIsLoad DEF Load
  <2>3. l = [NoLoad EXCEPT !.ports = ports]
    OBVIOUS
  <2>4. PartsOf("ports") = {"ports"} /\ {"ports"} \cap Fields = {} /\ ~isPending("ports")
    BY <1>7 DEF PartsOf, Fields, PortsPanel
  <2> HIDE DEF l
  <2>5. Clicked("ports", l)
    BY <2>1, <2>2, <2>3, <2>4 DEF Clicked, savePorts, Send, isPending, PagShape, Mutations
  <2> QED
    BY <2>2, <2>5 DEF Mutations
<1>8. ASSUME NEW i \in Items, ~isPending(i), ChangeItem(i)
      PROVE  \E m \in Mutations : \E l \in Load : Clicked(m, l)
  <2> DEFINE l == [NoLoad EXCEPT !.items = {i} \ shown.items]
  <2>1. l \in Load /\ l.items \subseteq {i}
    BY NoLoadIsLoad DEF Load
  <2>2. l = [NoLoad EXCEPT !.items = {i} \ shown.items]
    OBVIOUS
  <2>3. PartsOf(i) = {i} /\ {i} \cap Fields = {} /\ i \in Mutations /\ i # "ports"
    BY DEF PartsOf, Fields, Items, Mutations
  <2> HIDE DEF l
  <2>4. Clicked(i, l)
    BY <1>8, <2>1, <2>2, <2>3 DEF Clicked, ChangeItem, Send, isPending, PagShape
  <2> QED
    BY <2>1, <2>3, <2>4
<1>9. CASE VolumePanel \/ SecretPanel \/ VariablePanel
  BY <1>8, <1>9 DEF VolumePanel, SecretPanel, VariablePanel, volumeMutation, secretMutation,
     applicationVariableMutation, Items
<1> QED
  BY <1>2, <1>3, <1>4, <1>5, <1>6, <1>7, <1>9

LEMMA WorkloadsAlone ==
  ASSUME saved \in Data, NEW w, w \subseteq WorkloadStates \cup saved.workloads,
         saved' = [saved EXCEPT !.workloads = w]
  PROVE  /\ saved' \in Data /\ saved'.ports = saved.ports
         /\ \A part \in Parts \ {"workloads"} : \A x : SamePart(part, x, saved') <=> SamePart(part, x, saved)
<1>1. saved' \in Data /\ saved'.ports = saved.ports /\ saved'.field = saved.field /\ saved'.items = saved.items
  BY DEF Data
<1> QED
  BY <1>1 DEF SamePart, Parts

LEMMA ApplicationPageStep == PagInv /\ [PagNext]_pagVars => PagInv'
<1> SUFFICES ASSUME PagInv, [PagNext]_pagVars PROVE PagInv'
  OBVIOUS
<1>0. /\ PagShape /\ NoLoad \in Load /\ NoLoad.items = {}
      /\ fetch \in [Queries -> [pc : {"none", "sent", "answered"}, answer : Load]]
      /\ mutation \in [Mutations -> [pc : {"idle", "sent"}, todo : SUBSET Parts, load : Load]]
      /\ saved \in Data /\ shown \in Data /\ form \in [Fields -> Values]
  BY NoLoadIsLoad DEF PagInv, PagShape
<1>01. \A part \in Parts : QueryOf(part) \in Queries
  BY DEF Parts, Fields, Items, QueryOf, Queries
<1>1. ASSUME NEW q \in Queries, Refetch(q) PROVE PagInv'
  <2>1. UNCHANGED <<saved, shown, form, mutation, asked, moved, clicks, hasty, disturbed>>
    BY <1>1 DEF Refetch
  <2>2. /\ fetch' \in [Queries -> [pc : {"none", "sent", "answered"}, answer : Load]]
        /\ fetch'[q].pc = "sent" /\ \A r \in Queries \ {q} : fetch'[r] = fetch[r]
    <3> DEFINE r == [fetch[q] EXCEPT !.pc = "sent"]
    <3>1. r \in [pc : {"none", "sent", "answered"}, answer : Load] /\ r.pc = "sent"
      BY <1>0
    <3>2. fetch' = [fetch EXCEPT ![q] = r]
      BY <1>1 DEF Refetch
    <3> HIDE DEF r
    <3> QED
      BY <1>0, <3>1, <3>2
  <2>3. PagShape'
    BY <1>0, <2>1, <2>2 DEF PagShape
  <2>4. ASSUME ~disturbed' PROVE PartsShown' /\ PortsAsAsked'
    <3>1. PartsShown /\ PortsAsAsked
      BY <2>1, <2>4 DEF PagInv
    <3>2. PartsShown'
      BY <1>01, <2>1, <2>2, <3>1 DEF PartsShown, SamePart
    <3> QED
      BY <2>1, <3>1, <3>2 DEF PortsAsAsked
  <2> QED
    BY <2>3, <2>4 DEF PagInv
<1>2. ASSUME NEW q \in Queries, Answer(q) PROVE PagInv'
  <2>1. UNCHANGED <<saved, shown, form, mutation, asked, clicks, hasty, disturbed>>
        /\ moved' \in BOOLEAN /\ (q # "runtime" => moved' = moved)
    BY <1>0, <1>2 DEF Answer, PagShape
  <2>2. /\ Part(q, saved) \in Load /\ DOMAIN Part(q, saved).field = QueryFields(q)
        /\ \A part \in Parts : QueryOf(part) = q => SamePart(part, Part(q, saved), saved)
    BY <1>0, AnswerIsSame
  <2>3. /\ fetch' \in [Queries -> [pc : {"none", "sent", "answered"}, answer : Load]]
        /\ fetch'[q].pc = "answered" /\ fetch'[q].answer = Part(q, saved)
        /\ \A r \in Queries \ {q} : fetch'[r] = fetch[r]
    BY <1>0, <1>2, <2>2 DEF Answer
  <2>4. PagShape'
    BY <1>0, <2>1, <2>2, <2>3 DEF PagShape
  <2>5. ASSUME ~disturbed' PROVE PartsShown' /\ PortsAsAsked'
    <3>1. PartsShown /\ PortsAsAsked
      BY <2>1, <2>5 DEF PagInv
    <3>2. ASSUME NEW part \in Parts, \A m \in Mutations : part \in PartsOf(m) => mutation'[m].pc = "idle",
                 part = "workloads" => ~moved'
          PROVE  /\ fetch'[QueryOf(part)].pc = "none" => SamePart(part, shown', saved')
                 /\ fetch'[QueryOf(part)].pc = "answered" => SamePart(part, fetch'[QueryOf(part)].answer, saved')
      <4>1. CASE QueryOf(part) = q
        BY <2>1, <2>2, <2>3, <4>1
      <4>2. CASE QueryOf(part) # q
        <5>1. part = "workloads" => ~moved
          BY <2>1, <3>2, <4>2 DEF QueryOf
        <5>2. fetch'[QueryOf(part)] = fetch[QueryOf(part)]
          BY <1>01, <2>3, <4>2
        <5> QED
          BY <2>1, <3>1, <3>2, <5>1, <5>2 DEF PartsShown
      <4> QED
        BY <4>1, <4>2
    <3>3. PartsShown'
      BY <3>2 DEF PartsShown
    <3> QED
      BY <2>1, <3>1, <3>3 DEF PortsAsAsked
  <2> QED
    BY <2>4, <2>5 DEF PagInv
<1>3. ASSUME NEW q \in Queries, Arrive(q) PROVE PagInv'
  <2>1. UNCHANGED <<saved, mutation, asked, moved, clicks, hasty, disturbed>> /\ fetch[q].pc = "answered"
    BY <1>3 DEF Arrive
  <2>2. /\ fetch' \in [Queries -> [pc : {"none", "sent", "answered"}, answer : Load]]
        /\ fetch'[q].pc = "none" /\ \A r \in Queries \ {q} : fetch'[r] = fetch[r]
    BY <1>0, <1>3 DEF Arrive, NoFetch
  <2> DEFINE a == fetch[q].answer
  <2>3. a \in Load /\ DOMAIN a.field = QueryFields(q)
    BY <1>0, <2>1 DEF PagShape
  <2> HIDE DEF a
  <2>4. shown' = Update(shown, q, a)
    BY <1>3 DEF Arrive, a
  <2>5. /\ shown' \in Data
        /\ \A part \in Parts : \A other \in Data :
             SamePart(part, shown', other) <=> SamePart(part, IF QueryOf(part) = q THEN a ELSE shown, other)
    BY <1>0, <2>3, <2>4, UpdateBrings
  <2>6. form' \in [Fields -> Values]
    <3>1. form' = FillForm(q, shown') \/ form' = form
      BY <1>3 DEF Arrive
    <3>2. FillForm(q, shown') \in [Fields -> Values]
      BY <1>0, <2>5 DEF FillForm, Data
    <3> QED
      BY <1>0, <3>1, <3>2
  <2>7. PagShape'
    BY <1>0, <2>1, <2>2, <2>5, <2>6 DEF PagShape
  <2>8. ASSUME ~disturbed' PROVE PartsShown' /\ PortsAsAsked'
    <3>1. PartsShown /\ PortsAsAsked
      BY <2>1, <2>8 DEF PagInv
    <3>2. ASSUME NEW part \in Parts, \A m \in Mutations : part \in PartsOf(m) => mutation'[m].pc = "idle",
                 part = "workloads" => ~moved'
          PROVE  /\ fetch'[QueryOf(part)].pc = "none" => SamePart(part, shown', saved')
                 /\ fetch'[QueryOf(part)].pc = "answered" => SamePart(part, fetch'[QueryOf(part)].answer, saved')
      <4>1. /\ fetch[QueryOf(part)].pc = "none" => SamePart(part, shown, saved)
            /\ fetch[QueryOf(part)].pc = "answered" => SamePart(part, fetch[QueryOf(part)].answer, saved)
        BY <2>1, <3>1, <3>2 DEF PartsShown
      <4>2. CASE QueryOf(part) = q
        <5>1. SamePart(part, a, saved)
          BY <2>1, <4>1, <4>2 DEF a
        <5>2. SamePart(part, shown', saved')
          BY <1>0, <2>1, <2>5, <4>2, <5>1
        <5> QED
          BY <2>2, <4>2, <5>2
      <4>3. CASE QueryOf(part) # q
        <5>1. fetch'[QueryOf(part)] = fetch[QueryOf(part)]
          BY <1>01, <2>2, <4>3
        <5>2. SamePart(part, shown', saved) <=> SamePart(part, shown, saved)
          BY <1>0, <2>5, <4>3
        <5> QED
          BY <2>1, <4>1, <5>1, <5>2
      <4> QED
        BY <4>2, <4>3
    <3>3. PartsShown'
      BY <3>2 DEF PartsShown
    <3> QED
      BY <2>1, <3>1, <3>3 DEF PortsAsAsked
  <2> QED
    BY <2>7, <2>8 DEF PagInv
<1>4. ASSUME NEW q \in Queries, FetchFails(q) PROVE PagInv'
  <2>1. UNCHANGED <<saved, shown, form, mutation, asked, moved, clicks, hasty>> /\ disturbed' = TRUE
    BY <1>4 DEF FetchFails
  <2>2. /\ fetch' \in [Queries -> [pc : {"none", "sent", "answered"}, answer : Load]]
        /\ fetch'[q].pc = "none" /\ \A r \in Queries \ {q} : fetch'[r] = fetch[r]
    BY <1>0, <1>4 DEF FetchFails, NoFetch
  <2>3. PagShape'
    BY <1>0, <2>1, <2>2 DEF PagShape
  <2> QED
    BY <2>1, <2>3 DEF PagInv
<1>5. CASE ChooseSecretEnvironment \/ \E f \in Fields : Type(f)
  <2>1. UNCHANGED <<saved, shown, fetch, mutation, asked, moved, clicks, hasty, disturbed>>
    BY <1>5 DEF ChooseSecretEnvironment, Type
  <2>2. form' \in [Fields -> Values]
    BY <1>0, <1>5 DEF ChooseSecretEnvironment, FillForm, Type, Data
  <2>3. PagShape'
    BY <1>0, <2>1, <2>2 DEF PagShape
  <2> QED
    BY <2>1, <2>3 DEF PagInv, PartsShown, SamePart, PortsAsAsked
<1>6. ASSUME NEW m \in Mutations, NEW l \in Load, Clicked(m, l) PROVE PagInv'
  <2> DEFINE r == [pc |-> "sent", todo |-> PartsOf(m), load |-> l]
  <2>1. UNCHANGED <<saved, shown, form, fetch, moved, disturbed>>
    BY <1>6 DEF Clicked
  <2>2. PartsOf(m) \subseteq Parts
    BY DEF PartsOf, Parts, Mutations, Items, Fields
  <2>3. /\ r \in [pc : {"idle", "sent"}, todo : SUBSET Parts, load : Load]
        /\ r.pc = "sent" /\ r.todo = PartsOf(m) /\ r.load = l
    BY <2>2
  <2>4. mutation' = [mutation EXCEPT ![m] = r]
    BY <1>6 DEF Clicked
  <2> HIDE DEF r
  <2>5. /\ mutation' \in [Mutations -> [pc : {"idle", "sent"}, todo : SUBSET Parts, load : Load]]
        /\ mutation'[m] = r /\ \A n \in Mutations \ {m} : mutation'[n] = mutation[n]
    BY <1>0, <2>3, <2>4
  <2>6. clicks' \in 0 .. MaxClicks /\ hasty' \in BOOLEAN /\ asked' \subseteq Ports
    <3>1. clicks' \in 0 .. MaxClicks
      BY <1>0, <1>6, ApplicationPageAssumption DEF Clicked, PagShape
    <3>2. hasty' \in BOOLEAN
      BY <1>0, <1>6 DEF Clicked, PagShape
    <3>3. asked' \subseteq Ports
      BY <1>0, <1>6 DEF Clicked, PagShape
    <3> QED
      BY <3>1, <3>2, <3>3
  <2>7. PagShape'
    BY <1>0, <1>6, <2>1, <2>3, <2>5, <2>6 DEF PagShape, Clicked
  <2>8. ASSUME ~disturbed' PROVE PartsShown' /\ PortsAsAsked'
    <3>1. PartsShown /\ PortsAsAsked /\ mutation[m].pc = "idle"
      BY <1>6, <2>1, <2>8 DEF PagInv, Clicked
    <3>2. ASSUME NEW part \in Parts, \A n \in Mutations : part \in PartsOf(n) => mutation'[n].pc = "idle"
          PROVE  \A n \in Mutations : part \in PartsOf(n) => mutation[n].pc = "idle"
      BY <2>3, <2>5, <3>2
    <3>3. PartsShown'
      BY <2>1, <3>1, <3>2 DEF PartsShown, SamePart
    <3>4. CASE m = "ports"
      <4>1. ASSUME ~hasty' PROVE "ports" \in mutation'["ports"].todo /\ mutation'["ports"].load.ports = asked'
        <5>1. ~hasty /\ fetch["configuration"].pc = "none"
          BY <1>0, <1>6, <3>4, <4>1 DEF Clicked, PagShape, Queries
        <5>2. "ports" \notin mutation["ports"].todo
          BY <1>0, <3>1, <3>4 DEF PagShape
        <5>3. saved.ports = asked
          BY <3>1, <5>1, <5>2 DEF PortsAsAsked
        <5>4. "ports" \in Parts /\ QueryOf("ports") = "configuration"
              /\ \A n \in Mutations : "ports" \in PartsOf(n) => n = "ports"
          BY DEF Parts, QueryOf, PartsOf, Mutations, Items
        <5>5. SamePart("ports", shown, saved)
          BY <3>1, <3>4, <5>1, <5>4 DEF PartsShown
        <5>6. shown.ports = asked
          BY <5>3, <5>5 DEF SamePart, Fields, Items
        <5>7. "ports" \in PartsOf(m)
          BY <3>4 DEF PartsOf
        <5>8. l.ports = asked'
          BY <1>6, <3>4, <5>6 DEF Clicked
        <5> QED
          BY <2>3, <2>5, <3>4, <5>7, <5>8
      <4> QED
        BY <3>3, <4>1 DEF PortsAsAsked
    <3>5. CASE m # "ports"
      <4>1. UNCHANGED <<asked, hasty>> /\ mutation'["ports"] = mutation["ports"]
        BY <1>6, <2>5, <3>5 DEF Clicked, Mutations
      <4> QED
        BY <2>1, <3>1, <3>3, <4>1 DEF PortsAsAsked
    <3> QED
      BY <3>3, <3>4, <3>5
  <2> QED
    BY <2>7, <2>8 DEF PagInv
<1>7. ASSUME NEW m \in Mutations, NEW part \in Parts, Store(m, part) PROVE PagInv'
  <2> DEFINE r == [mutation[m] EXCEPT !.todo = @ \ {part}]
             stored == mutation[m].load
  <2>1. UNCHANGED <<shown, form, fetch, asked, moved, clicks, hasty, disturbed>> /\ part \in mutation[m].todo
    BY <1>7 DEF Store
  <2>2. /\ r \in [pc : {"idle", "sent"}, todo : SUBSET Parts, load : Load]
        /\ r.pc = mutation[m].pc /\ r.load = mutation[m].load /\ r.todo = mutation[m].todo \ {part}
    BY <1>0
  <2>3. mutation' = [mutation EXCEPT ![m] = r]
    BY <1>7 DEF Store
  <2> HIDE DEF r
  <2>4. /\ mutation' \in [Mutations -> [pc : {"idle", "sent"}, todo : SUBSET Parts, load : Load]]
        /\ mutation'[m] = r /\ \A n \in Mutations \ {m} : mutation'[n] = mutation[n]
    BY <1>0, <2>2, <2>3
  <2>5. part \in PartsOf(m) /\ mutation[m].pc # "idle"
    BY <1>0, <2>1 DEF PagShape
  <2>0. PICK placed \in SUBSET stored.workloads :
          saved' = Stored(part, [stored EXCEPT !.workloads = placed])
    BY <1>7 DEF Store
  <2> DEFINE l == [stored EXCEPT !.workloads = placed]
  <2>6. l \in Load /\ (part \in Fields => part \in DOMAIN l.field) /\ l.items \subseteq {m}
        /\ l.ports = mutation[m].load.ports
    <3>1. stored \in Load /\ (part \in Fields => part \in DOMAIN stored.field) /\ stored.items \subseteq {m}
      BY <1>0, <2>1 DEF PagShape
    <3>2. placed \subseteq WorkloadStates
      BY <3>1 DEF Load
    <3> QED
      BY <3>1, <3>2 DEF Load
  <2>7. part \in Items => part = m
    BY <2>5 DEF PartsOf, Items, Mutations
  <2> HIDE DEF l
  <2>8. saved' = Stored(part, l)
    BY <2>0 DEF l
  <2>9. /\ saved' \in Data
        /\ saved'.ports = IF part = "ports" THEN l.ports ELSE saved.ports
        /\ \A other \in Parts \ {part} : \A x : SamePart(other, x, saved') <=> SamePart(other, x, saved)
    BY <1>0, <2>6, <2>7, <2>8, StoringLeavesTheRest
  <2>10. PagShape'
    BY <1>0, <2>1, <2>2, <2>4, <2>9 DEF PagShape
  <2>11. ASSUME ~disturbed' PROVE PartsShown' /\ PortsAsAsked'
    <3>1. PartsShown /\ PortsAsAsked
      BY <2>1, <2>11 DEF PagInv
    <3>2. ASSUME NEW other \in Parts, \A n \in Mutations : other \in PartsOf(n) => mutation'[n].pc = "idle",
                 other = "workloads" => ~moved'
          PROVE  /\ fetch'[QueryOf(other)].pc = "none" => SamePart(other, shown', saved')
                 /\ fetch'[QueryOf(other)].pc = "answered" => SamePart(other, fetch'[QueryOf(other)].answer, saved')
      <4>1. other # part
        BY <2>2, <2>4, <2>5, <3>2
      <4>2. \A n \in Mutations : other \in PartsOf(n) => mutation[n].pc = "idle"
        BY <2>2, <2>4, <3>2
      <4>3. /\ fetch[QueryOf(other)].pc = "none" => SamePart(other, shown, saved)
            /\ fetch[QueryOf(other)].pc = "answered" => SamePart(other, fetch[QueryOf(other)].answer, saved)
        BY <2>1, <3>1, <3>2, <4>2 DEF PartsShown
      <4> QED
        BY <2>1, <2>9, <4>1, <4>3
    <3>3. PartsShown'
      BY <3>2 DEF PartsShown
    <3>4. PortsAsAsked'
      <4>1. CASE part = "ports"
        <5>1. m = "ports"
          BY <2>5, <4>1 DEF PartsOf, Mutations, Items
        <5>2. "ports" \notin mutation'["ports"].todo
          BY <2>2, <2>4, <4>1, <5>1
        <5>3. ~hasty => l.ports = asked
          BY <2>1, <2>6, <3>1, <4>1, <5>1 DEF PortsAsAsked
        <5> QED
          BY <2>1, <2>9, <4>1, <5>2, <5>3 DEF PortsAsAsked
      <4>2. CASE part # "ports"
        <5>1. m # "ports"
          BY <2>5, <4>2 DEF PartsOf
        <5>2. mutation'["ports"] = mutation["ports"] /\ saved'.ports = saved.ports
          BY <2>4, <2>9, <4>2, <5>1 DEF Mutations
        <5> QED
          BY <2>1, <3>1, <5>2 DEF PortsAsAsked
      <4> QED
        BY <4>1, <4>2
    <3> QED
      BY <3>3, <3>4
  <2> QED
    BY <2>10, <2>11 DEF PagInv
<1>8. ASSUME NEW m \in Mutations, Succeed(m) PROVE PagInv'
  <2>1. UNCHANGED <<saved, shown, form, asked, moved, clicks, hasty, disturbed>> /\ mutation[m].todo = {}
    BY <1>8 DEF Succeed
  <2>2. /\ NoSaving \in [pc : {"idle", "sent"}, todo : SUBSET Parts, load : Load]
        /\ NoSaving.todo = {} /\ NoSaving.pc = "idle" /\ NoSaving.load.items = {}
    BY <1>0 DEF NoSaving
  <2>3. /\ mutation' \in [Mutations -> [pc : {"idle", "sent"}, todo : SUBSET Parts, load : Load]]
        /\ mutation'[m] = NoSaving /\ \A n \in Mutations \ {m} : mutation'[n] = mutation[n]
    BY <1>0, <1>8, <2>2 DEF Succeed
  <2> DEFINE f == [NoFetch EXCEPT !.pc = "sent"]
  <2>4. f \in [pc : {"none", "sent", "answered"}, answer : Load] /\ f.pc = "sent"
    BY <1>0 DEF NoFetch
  <2>5. fetch' = [q \in Queries |-> IF q \in Refreshes(m) THEN f ELSE fetch[q]]
    BY <1>8 DEF Succeed
  <2> HIDE DEF f
  <2>6. /\ fetch' \in [Queries -> [pc : {"none", "sent", "answered"}, answer : Load]]
        /\ \A q \in Queries : IF q \in Refreshes(m) THEN fetch'[q].pc = "sent" ELSE fetch'[q] = fetch[q]
    BY <1>0, <2>4, <2>5
  <2>7. PagShape'
    BY <1>0, <2>1, <2>2, <2>3, <2>6 DEF PagShape
  <2>8. \A part \in PartsOf(m) : QueryOf(part) \in Refreshes(m)
    BY DEF PartsOf, QueryOf, Refreshes, Mutations, Items, Queries
  <2>9. ASSUME ~disturbed' PROVE PartsShown' /\ PortsAsAsked'
    <3>1. PartsShown /\ PortsAsAsked
      BY <2>1, <2>9 DEF PagInv
    <3>2. ASSUME NEW part \in Parts, \A n \in Mutations : part \in PartsOf(n) => mutation'[n].pc = "idle",
                 part = "workloads" => ~moved'
          PROVE  /\ fetch'[QueryOf(part)].pc = "none" => SamePart(part, shown', saved')
                 /\ fetch'[QueryOf(part)].pc = "answered" => SamePart(part, fetch'[QueryOf(part)].answer, saved')
      <4>1. CASE QueryOf(part) \in Refreshes(m)
        BY <1>01, <2>6, <4>1
      <4>2. CASE QueryOf(part) \notin Refreshes(m)
        <5>1. \A n \in Mutations : part \in PartsOf(n) => mutation[n].pc = "idle"
          BY <2>3, <2>8, <3>2, <4>2
        <5>2. fetch'[QueryOf(part)] = fetch[QueryOf(part)]
          BY <1>01, <2>6, <4>2
        <5>3. /\ fetch[QueryOf(part)].pc = "none" => SamePart(part, shown, saved)
              /\ fetch[QueryOf(part)].pc = "answered" => SamePart(part, fetch[QueryOf(part)].answer, saved)
          BY <2>1, <3>1, <3>2, <5>1 DEF PartsShown
        <5> QED
          BY <2>1, <5>2, <5>3
      <4> QED
        BY <4>1, <4>2
    <3>3. PartsShown'
      BY <3>2 DEF PartsShown
    <3>4. PortsAsAsked'
      <4>1. CASE m = "ports"
        BY <2>1, <2>2, <2>3, <3>1, <4>1 DEF PortsAsAsked
      <4>2. CASE m # "ports"
        <5>1. mutation'["ports"] = mutation["ports"]
          BY <2>3, <4>2 DEF Mutations
        <5> QED
          BY <2>1, <3>1, <5>1 DEF PortsAsAsked
      <4> QED
        BY <4>1, <4>2
    <3> QED
      BY <3>3, <3>4
  <2> QED
    BY <2>7, <2>9 DEF PagInv
<1>9. ASSUME NEW m \in Mutations, Fail(m) PROVE PagInv'
  <2>1. UNCHANGED <<saved, shown, form, fetch, asked, moved, clicks, hasty>> /\ disturbed' = TRUE
    BY <1>9 DEF Fail
  <2>2. /\ NoSaving \in [pc : {"idle", "sent"}, todo : SUBSET Parts, load : Load]
        /\ NoSaving.todo = {} /\ NoSaving.load.items = {}
    BY <1>0 DEF NoSaving
  <2>3. /\ mutation' \in [Mutations -> [pc : {"idle", "sent"}, todo : SUBSET Parts, load : Load]]
        /\ mutation'[m] = NoSaving /\ \A n \in Mutations \ {m} : mutation'[n] = mutation[n]
    BY <1>0, <1>9, <2>2 DEF Fail
  <2>4. PagShape'
    BY <1>0, <2>1, <2>2, <2>3 DEF PagShape
  <2> QED
    BY <2>1, <2>4 DEF PagInv
<1>10. CASE OtherUserWrites
  <2>1. UNCHANGED <<shown, form, fetch, mutation, asked, moved, clicks, hasty>> /\ disturbed' = TRUE /\ saved' \in Data
    BY <1>0, <1>10 DEF OtherUserWrites, Data
  <2>2. PagShape'
    BY <1>0, <2>1 DEF PagShape
  <2> QED
    BY <2>1, <2>2 DEF PagInv
<1>12. CASE SupersedePrevious
  <2>1. UNCHANGED <<shown, form, fetch, mutation, asked, moved, clicks, hasty, disturbed>>
        /\ mutation["deployment"].todo # {} /\ saved' = RequestStop({})
    BY <1>12 DEF SupersedePrevious
  <2>2. /\ saved' \in Data /\ saved'.ports = saved.ports
        /\ \A part \in Parts \ {"workloads"} : \A x : SamePart(part, x, saved') <=> SamePart(part, x, saved)
    BY <1>0, <2>1, WorkloadsAlone DEF RequestStop
  <2>3. mutation["deployment"].pc # "idle" /\ "workloads" \in PartsOf("deployment")
    BY <1>0, <2>1 DEF PagShape, Mutations, PartsOf
  <2>4. PagShape'
    BY <1>0, <2>1, <2>2 DEF PagShape
  <2>5. PartsShown => PartsShown'
    BY <2>1, <2>2, <2>3 DEF PartsShown, Mutations
  <2> QED
    BY <2>1, <2>2, <2>4, <2>5 DEF PagInv, PortsAsAsked
<1>13. CASE WorkloadsMove
  <2>1. UNCHANGED <<shown, form, fetch, mutation, asked, clicks, hasty, disturbed>> /\ moved' = TRUE
    BY <1>13 DEF WorkloadsMove
  <2>2. PICK w \in WorkloadStates :
          saved' = [saved EXCEPT !.workloads = (saved.workloads \ {w}) \cup ({w} \ saved.workloads)]
    BY <1>13 DEF WorkloadsMove
  <2>3. /\ saved' \in Data /\ saved'.ports = saved.ports
        /\ \A part \in Parts \ {"workloads"} : \A x : SamePart(part, x, saved') <=> SamePart(part, x, saved)
    BY <1>0, <2>2, WorkloadsAlone
  <2>4. PagShape'
    BY <1>0, <2>1, <2>3 DEF PagShape
  <2>5. PartsShown => PartsShown'
    BY <2>1, <2>3 DEF PartsShown
  <2> QED
    BY <2>1, <2>3, <2>4, <2>5 DEF PagInv, PortsAsAsked
<1>11. CASE UNCHANGED pagVars
  <2>1. PagShape'
    BY <1>0, <1>11 DEF pagVars, PagShape
  <2> QED
    BY <1>11, <2>1 DEF pagVars, PagInv, PartsShown, SamePart, PortsAsAsked
<1> QED
  <2>1. CASE \E q \in Queries : Refetch(q) \/ Answer(q) \/ Arrive(q) \/ FetchFails(q)
    BY <1>1, <1>2, <1>3, <1>4, <2>1
  <2>2. CASE \E m \in Mutations : Succeed(m) \/ Fail(m) \/ \E part \in Parts : Store(m, part)
    BY <1>7, <1>8, <1>9, <2>2
  <2>3. CASE HeaderPanel \/ SourcePanel \/ DefaultsPanel \/ RuntimePanel \/ HealthPanel \/ BuildPanel
               \/ EnvironmentPanel \/ PortsPanel \/ VolumePanel \/ SecretPanel \/ VariablePanel
    BY <1>0, <1>5, <1>6, <2>3, PagPanelsClick
  <2> QED
    BY <1>10, <1>11, <1>12, <1>13, <2>1, <2>2, <2>3 DEF PagNext

LEMMA ApplicationPageImplied == PagInv => PageShowsStored /\ PagTypeOK
<1> SUFFICES ASSUME PagInv PROVE PageShowsStored /\ PagTypeOK
  OBVIOUS
<1>1. PagTypeOK
  BY DEF PagInv, PagShape, PagTypeOK
<1>2. ASSUME ~disturbed, AtRest
      PROVE  Configured(shown) = Configured(saved) /\ (~moved => shown.workloads = saved.workloads)
  <2>1. \A part \in Parts : QueryOf(part) \in Queries
    BY DEF Parts, Fields, Items, QueryOf, Queries
  <2>2. \A part \in Parts : (part = "workloads" => ~moved) => SamePart(part, shown, saved)
    BY <1>2, <2>1 DEF AtRest, PagInv, PartsShown
  <2>3. shown \in Data /\ saved \in Data
    BY DEF PagInv, PagShape
  <2>4. "workloads" \in Parts /\ (~moved => SamePart("workloads", shown, saved))
    BY <2>2 DEF Parts
  <2>5. ~moved => shown.workloads = saved.workloads
    BY <2>4 DEF SamePart, Fields, Items
  <2> QED
    BY <2>2, <2>3, <2>5, ConfiguredByParts
<1>3. ASSUME ~disturbed, ~hasty, mutation["ports"].pc = "idle" PROVE saved.ports = asked
  <2>1. mutation["ports"].todo = {}
    BY <1>3 DEF PagInv, PagShape, Mutations
  <2> QED
    BY <1>3, <2>1 DEF PagInv, PortsAsAsked
<1> QED
  BY <1>1, <1>2, <1>3 DEF PageShowsStored

-----------------------------------------------------------------------------
(* Game server page: GameServerPage. Its cards, its files and its grants   *)
(* have an invariant each.                                                 *)

CardsTyped ==
  /\ worldStatus \in [Worlds -> Statuses] /\ cards \in [Worlds -> Statuses]
  /\ cardFetch \in [pc : {"none", "sent", "answered"}, answer : [Worlds -> Statuses]]
  /\ creating \in [pc : {"idle", "sent", "done"}, server : Worlds]
  /\ button \in [pc : {"idle", "sent", "done"}, method : {"start", "stop", "delete"}, server : Worlds]
  /\ pendingDelete \in Worlds \cup {NoWorld} /\ estranged \in BOOLEAN

(* While no mutation has been carried out that the page has not heard of,  *)
(* the cards, or the answer that will replace them, tell the statuses or   *)
(* make the page poll.                                                     *)
CardsKeepUp ==
  creating.pc # "done" /\ button.pc # "done" =>
    /\ cardFetch.pc = "none" => cards = worldStatus \/ Polling
    /\ cardFetch.pc = "answered" =>
         cardFetch.answer = worldStatus \/ \E s \in Worlds : cardFetch.answer[s] \in Awaited
CardsInv == CardsTyped /\ (~estranged => CardsKeepUp)

FileOpType == [pc : {"idle", "waiting", "executed", "late"}, kind : {"list", "read", "write"},
               server : Worlds, path : Paths \cup {NoPath}, text : Texts]
FilesTyped ==
  /\ listing \in Worlds \cup {NoWorld}
  /\ editor \in [path : Paths \cup {NoPath}, text : Texts]
  /\ fileOp \in [FileOps -> FileOpType]
  /\ world \in [Worlds \X Paths -> Texts]
  /\ {busy, crowded, unread} \subseteq BOOLEAN
  /\ \A o \in FileOps : /\ fileOp[o].pc = "late" => fileOp[o].kind = "write"
                        /\ fileOp[o].kind # "list" => fileOp[o].path \in Paths

(* One operation at a time. What is written to a file was read from it,    *)
(* and the text in the editor is the one of its path, unless it is still   *)
(* being read or is not shown any more.                                    *)
ActiveOps == {o \in FileOps : fileOp[o].pc \in {"waiting", "executed"}}
ReadingOps == {o \in ActiveOps : fileOp[o].kind = "read"}
TextsAtHome ==
  /\ \A f \in Worlds \X Paths : world[f] = f
  /\ \A o, p \in ActiveOps : o = p
  /\ ~busy => ActiveOps = {}
  /\ \A o \in FileOps : fileOp[o].pc \in {"waiting", "late"} /\ fileOp[o].kind = "write" =>
       fileOp[o].text = <<fileOp[o].server, fileOp[o].path>>
  /\ \A o \in ReadingOps :
       /\ fileOp[o].pc = "executed" => fileOp[o].text = <<fileOp[o].server, fileOp[o].path>>
       /\ editor.path # NoPath /\ selected # NoWorld =>
            fileOp[o].server = selected /\ fileOp[o].path = editor.path
  /\ editor.path # NoPath /\ selected # NoWorld /\ ReadingOps = {} => editor.text = <<selected, editor.path>>
FilesInv == FilesTyped /\ (~crowded /\ ~unread => TextsAtHome)

GrantsTyped ==
  /\ grants \in [Worlds -> 0..MaxGrants] /\ grantCache \in [Worlds -> 0..MaxGrants]
  /\ grantFetch \in [Worlds -> [pc : {"none", "sent", "answered"}, answer : 0..MaxGrants]]
  /\ granting \in [GrantChanges -> [pc : {"idle", "sent", "done"}, server : Worlds]]
  /\ strayed \in BOOLEAN

(* Grants are changed at the server that is shown, and then fetched.       *)
GrantsKeepUp ==
  /\ \A c \in GrantChanges : granting[c].pc # "idle" => granting[c].server = selected
  /\ \A s \in Worlds : (\A c \in GrantChanges : granting[c].pc = "done" => granting[c].server # s) =>
       /\ grantFetch[s].pc = "none" => grantCache[s] = grants[s]
       /\ grantFetch[s].pc = "answered" => grantFetch[s].answer = grants[s]
GrantsInv == GrantsTyped /\ (~strayed => GrantsKeepUp)

GpInv == selected \in Worlds \cup {NoWorld} /\ CardsInv /\ FilesInv /\ GrantsInv

LEMMA GamePageStart == GpInit => GpInv
<1> SUFFICES ASSUME GpInit PROVE GpInv
  OBVIOUS
<1>1. AnyWorld \in Worlds
  BY GameServerPageAssumption DEF AnyWorld
<1>2. CardsInv
  BY <1>1 DEF GpInit, CardsInv, CardsTyped, CardsKeepUp, NoCardFetch, NoMutation, NoButton, Statuses
<1>3. FilesInv
  <2>1. \A f \in Worlds \X Paths : f \in Texts
    BY DEF Texts
  <2>2. NoOp \in FileOpType /\ NoOp.pc = "idle" /\ NoOp.kind = "list" /\ NoFile.path = NoPath
        /\ NoFile \in [path : Paths \cup {NoPath}, text : Texts]
    BY <1>1 DEF NoOp, NoFile, FileOpType, Texts
  <2>3. fileOp = [o \in FileOps |-> NoOp] /\ world = [f \in Worlds \X Paths |-> f] /\ editor = NoFile
        /\ listing = NoWorld /\ busy = FALSE /\ crowded = FALSE /\ unread = FALSE
    BY DEF GpInit
  <2>4. FilesTyped
    BY <2>1, <2>2, <2>3 DEF FilesTyped
  <2>5. TextsAtHome
    BY <2>2, <2>3 DEF TextsAtHome, ActiveOps, ReadingOps
  <2> QED
    BY <2>4, <2>5 DEF FilesInv
<1>4. GrantsInv
  <2>1. 0 \in 0 .. MaxGrants
    BY GameServerPageAssumption
  <2>2. /\ NoGrantFetch \in [pc : {"none", "sent", "answered"}, answer : 0 .. MaxGrants]
        /\ NoGrantFetch.pc = "none"
        /\ NoMutation \in [pc : {"idle", "sent", "done"}, server : Worlds] /\ NoMutation.pc = "idle"
    BY <1>1, <2>1 DEF NoGrantFetch, NoMutation
  <2>3. /\ grants = [s \in Worlds |-> 0] /\ grantCache = grants
        /\ grantFetch = [s \in Worlds |-> NoGrantFetch] /\ strayed = FALSE
        /\ granting = [c \in GrantChanges |-> NoMutation]
    BY DEF GpInit
  <2> QED
    BY <2>1, <2>2, <2>3 DEF GrantsInv, GrantsTyped, GrantsKeepUp
<1> QED
  BY <1>2, <1>3, <1>4 DEF GpInv, GpInit

(* The parts of the page that act.                                         *)
CardStep ==
  \/ \E s \in Worlds : Report(s) \/ StatusMoves(s) \/ CreateServerForm(s)
  \/ \E s \in Worlds, method \in {"start", "stop", "delete"} : Mutate(method, s)
  \/ DangerZone
  \/ /\ button.pc = "idle" /\ pendingDelete' = NoWorld
     /\ UNCHANGED <<worldStatus, cards, cardFetch, creating, button, estranged, selected, editVars, grantVars>>
  \/ HandleCreate \/ Handle \/ Created \/ PressFails
  \/ FetchCards \/ AnswerCards \/ ArriveCards \/ CardsFail
FileStep == \E o \in FileOps : \/ loadFiles(o) \/ SaveFile(o) \/ Execute(o) \/ FileDone(o) \/ FileFailed(o)
                               \/ \E p \in Paths : openFile(o, p)
GrantStep == \/ \E c \in GrantChanges : ChangeGrants(c) \/ StoreGrants(c) \/ GrantsChanged(c)
             \/ \E s \in Worlds : GrantsFail(s) \/ AnswerGrants(s) \/ ArriveGrants(s)
Leaves ==
  /\ selected' \in {selected, NoWorld}
  /\ strayed' = (strayed \/ (selected' # selected /\ Changing))
  /\ UNCHANGED <<editVars, grants, grantCache, grantFetch, granting>>

LEMMA GamePageSteps ==
  ASSUME selected \in Worlds \cup {NoWorld}, CardsTyped, [GpNext]_gpVars
  PROVE  \/ CardStep \/ FileStep \/ GrantStep \/ Pressed \/ CloseManagement \/ UNCHANGED gpVars
         \/ \E s \in Worlds : openManagement(s)
<1>1. ASSUME NEW s \in Worlds, TableButtons(s) PROVE CardStep
  BY <1>1 DEF TableButtons, CardStep
<1>2. ASSUME HeaderButtons PROVE CardStep
  BY <1>1, <1>2 DEF HeaderButtons
<1>3. ASSUME DeleteDialog PROVE CardStep
  <2>1. pendingDelete \in Worlds
    BY <1>3 DEF DeleteDialog, CardsTyped
  <2>2. CASE Mutate("delete", pendingDelete)
    BY <2>1, <2>2 DEF CardStep
  <2>3. CASE ~Mutate("delete", pendingDelete)
    BY <1>3, <2>3 DEF DeleteDialog, CardStep
  <2> QED
    BY <2>2, <2>3
<1>4. ASSUME NEW s \in Worlds, Report(s) \/ StatusMoves(s) \/ CreateServerForm(s) PROVE CardStep
  BY <1>4 DEF CardStep
<1>5. ASSUME DangerZone \/ HandleCreate \/ Handle \/ Created \/ PressFails \/ FetchCards \/ AnswerCards
               \/ ArriveCards \/ CardsFail
      PROVE  CardStep
  BY <1>5 DEF CardStep
<1>6. ASSUME \/ \E c \in GrantChanges : ChangeGrants(c) \/ StoreGrants(c) \/ GrantsChanged(c)
             \/ \E s \in Worlds : GrantsFail(s) \/ AnswerGrants(s) \/ ArriveGrants(s)
      PROVE  GrantStep
  BY <1>6 DEF GrantStep
<1>7. ASSUME NEW o \in FileOps, \/ loadFiles(o) \/ SaveFile(o) \/ Execute(o) \/ FileDone(o) \/ FileFailed(o)
                                \/ \E p \in Paths : openFile(o, p)
      PROVE  FileStep
  BY <1>7 DEF FileStep
<1>8. CASE GpNext
  BY <1>1, <1>2, <1>3, <1>4, <1>5, <1>6, <1>7, <1>8 DEF GpNext, CardButtons
<1> QED
  BY <1>8

LEMMA CardsLeaveTheRest == CardStep => UNCHANGED <<selected, editVars, grantVars>>
  BY DEF CardStep, Report, StatusMoves, CreateServerForm, Mutate, DangerZone, HandleCreate, Handle, Created,
     PressFails, FetchCards, AnswerCards, ArriveCards, CardsFail

LEMMA FilesLeaveTheRest == FileStep => UNCHANGED <<selected, cardVars, grantVars>>
  BY DEF FileStep, loadFiles, SaveFile, openFile, runFileCommand, Execute, FileDone, FileFailed

LEMMA GrantsLeaveTheRest == GrantStep => UNCHANGED <<selected, cardVars, editVars>>
  BY DEF GrantStep, ChangeGrants, StoreGrants, GrantsChanged, GrantsFail, AnswerGrants, ArriveGrants

LEMMA LeavingLeavesTheRest == Pressed \/ CloseManagement => Leaves
<1>1. CASE Pressed
  BY <1>1 DEF Pressed, Closes, Leaves
<1>2. CASE CloseManagement
  BY <1>2 DEF CloseManagement, Leaves
<1> QED
  BY <1>1, <1>2

LEMMA CardsStepOn == ASSUME selected \in Worlds \cup {NoWorld}, CardsInv, CardStep \/ Pressed PROVE CardsInv'
<1>0. CardsTyped /\ AnyWorld \in Worlds
  BY GameServerPageAssumption DEF CardsInv, AnyWorld
<1>00. /\ NoCardFetch \in [pc : {"none", "sent", "answered"}, answer : [Worlds -> Statuses]]
       /\ NoCardFetch.pc = "none"
       /\ NoMutation \in [pc : {"idle", "sent", "done"}, server : Worlds] /\ NoMutation.pc = "idle"
       /\ NoButton \in [pc : {"idle", "sent", "done"}, method : {"start", "stop", "delete"}, server : Worlds]
       /\ NoButton.pc = "idle"
  BY <1>0 DEF NoCardFetch, NoMutation, NoButton, Statuses
<1>1. CASE \E s \in Worlds : Report(s)
  <2>1. PICK s \in Worlds : Report(s)
    BY <1>1
  <2>2. worldStatus[s] \in Awaited /\ UNCHANGED <<cards, cardFetch, creating, button, pendingDelete, estranged>>
        /\ worldStatus' \in [Worlds -> Statuses]
    BY <1>0, <2>1 DEF Report, CardsTyped, Statuses
  <2>3. CardsTyped'
    BY <1>0, <2>2 DEF CardsTyped
  <2>4. ~estranged' => CardsKeepUp'
    BY <2>2 DEF CardsInv, CardsKeepUp, Polling
  <2> QED
    BY <2>3, <2>4 DEF CardsInv
<1>2. CASE \E s \in Worlds : StatusMoves(s)
  <2>1. /\ estranged' = TRUE /\ worldStatus' \in [Worlds -> Statuses]
        /\ UNCHANGED <<cards, cardFetch, creating, button, pendingDelete>>
    BY <1>0, <1>2 DEF StatusMoves, CardsTyped, Statuses
  <2> QED
    BY <1>0, <2>1 DEF CardsInv, CardsTyped
<1>3. CASE \E s \in Worlds : CreateServerForm(s)
  <2>1. /\ creating.pc = "idle" /\ creating' \in [pc : {"idle", "sent", "done"}, server : Worlds]
        /\ creating'.pc = "sent"
        /\ UNCHANGED <<worldStatus, cards, cardFetch, button, pendingDelete, estranged>>
    BY <1>3 DEF CreateServerForm
  <2>2. CardsTyped'
    BY <1>0, <2>1 DEF CardsTyped
  <2> QED
    BY <2>1, <2>2 DEF CardsInv, CardsKeepUp, Polling
<1>4. CASE \E s \in Worlds, method \in {"start", "stop", "delete"} : Mutate(method, s)
  <2>1. /\ button.pc = "idle" /\ button'.pc = "sent"
        /\ button' \in [pc : {"idle", "sent", "done"}, method : {"start", "stop", "delete"}, server : Worlds]
        /\ UNCHANGED <<worldStatus, cards, cardFetch, creating, pendingDelete, estranged>>
    BY <1>4 DEF Mutate
  <2>2. CardsTyped'
    BY <1>0, <2>1 DEF CardsTyped
  <2> QED
    BY <2>1, <2>2 DEF CardsInv, CardsKeepUp, Polling
<1>5. ASSUME pendingDelete' \in Worlds \cup {NoWorld},
             UNCHANGED <<worldStatus, cards, cardFetch, creating, button, estranged>>
      PROVE  CardsInv'
  BY <1>5 DEF CardsInv, CardsTyped, CardsKeepUp, Polling
<1>6. CASE HandleCreate
  <2>1. /\ creating' \in [pc : {"idle", "sent", "done"}, server : Worlds] /\ creating'.pc = "done"
        /\ worldStatus' \in [Worlds -> Statuses] /\ UNCHANGED <<cards, cardFetch, button, pendingDelete, estranged>>
    BY <1>0, <1>6 DEF HandleCreate, CardsTyped, Statuses
  <2> QED
    BY <1>0, <2>1 DEF CardsInv, CardsTyped, CardsKeepUp
<1>7. CASE Handle
  <2> DEFINE to == CASE button.method = "start" -> "provisioning"
                     [] button.method = "stop" -> "stopped"
                     [] OTHER -> "absent"
  <2>1. to \in Statuses
    BY DEF Statuses
  <2>2. worldStatus' = [worldStatus EXCEPT ![button.server] = to]
    BY <1>7 DEF Handle
  <2> HIDE DEF to
  <2>3. worldStatus' \in [Worlds -> Statuses]
    BY <1>0, <2>1, <2>2 DEF CardsTyped
  <2>4. button' = [button EXCEPT !.pc = "done"] /\ UNCHANGED <<cards, cardFetch, creating, pendingDelete, estranged>>
    BY <1>7 DEF Handle
  <2>5. /\ button' \in [pc : {"idle", "sent", "done"}, method : {"start", "stop", "delete"}, server : Worlds]
        /\ button'.pc = "done"
    BY <1>0, <2>4 DEF CardsTyped
  <2> QED
    BY <1>0, <2>3, <2>4, <2>5 DEF CardsInv, CardsTyped, CardsKeepUp
<1>8. CASE Created
  <2>1. /\ creating' = NoMutation /\ cardFetch' = [NoCardFetch EXCEPT !.pc = "sent"]
        /\ UNCHANGED <<worldStatus, cards, button, pendingDelete, estranged>>
    BY <1>8 DEF Created, Refresh
  <2>2. /\ cardFetch' \in [pc : {"none", "sent", "answered"}, answer : [Worlds -> Statuses]]
        /\ cardFetch'.pc = "sent"
    BY <1>00, <2>1
  <2> QED
    BY <1>0, <1>00, <2>1, <2>2 DEF CardsInv, CardsTyped, CardsKeepUp
<1>9. CASE Pressed
  <2>1. /\ button' = NoButton /\ cardFetch' = [NoCardFetch EXCEPT !.pc = "sent"]
        /\ pendingDelete' \in {pendingDelete, NoWorld}
        /\ UNCHANGED <<worldStatus, cards, creating, estranged>>
    BY <1>9 DEF Pressed, Refresh, Closes
  <2>2. /\ cardFetch' \in [pc : {"none", "sent", "answered"}, answer : [Worlds -> Statuses]]
        /\ cardFetch'.pc = "sent"
    BY <1>00, <2>1
  <2> QED
    BY <1>0, <1>00, <2>1, <2>2 DEF CardsInv, CardsTyped, CardsKeepUp
<1>10. CASE PressFails
  <2>1. /\ UNCHANGED <<worldStatus, cards, cardFetch, pendingDelete>>
        /\ estranged' = (estranged \/ button.pc = "done" \/ creating.pc = "done")
        /\ \/ button' = NoButton /\ creating' = creating
           \/ creating' = NoMutation /\ button' = button
    BY <1>10 DEF PressFails
  <2>2. CardsTyped'
    BY <1>0, <1>00, <2>1 DEF CardsTyped
  <2>3. ~estranged' => CardsKeepUp'
    BY <2>1 DEF CardsInv, CardsKeepUp, Polling
  <2> QED
    BY <2>2, <2>3 DEF CardsInv
<1>11. CASE FetchCards
  <2>1. /\ cardFetch' \in [pc : {"none", "sent", "answered"}, answer : [Worlds -> Statuses]]
        /\ cardFetch'.pc = "sent" /\ UNCHANGED <<worldStatus, cards, creating, button, pendingDelete, estranged>>
    BY <1>0, <1>11 DEF FetchCards, CardsTyped
  <2> QED
    BY <1>0, <2>1 DEF CardsInv, CardsTyped, CardsKeepUp
<1>12. CASE AnswerCards
  <2>1. /\ cardFetch' = [pc |-> "answered", answer |-> worldStatus]
        /\ UNCHANGED <<worldStatus, cards, creating, button, pendingDelete, estranged>>
    BY <1>12 DEF AnswerCards
  <2> QED
    BY <1>0, <2>1 DEF CardsInv, CardsTyped, CardsKeepUp
<1>13. CASE ArriveCards
  <2>1. /\ cardFetch.pc = "answered" /\ cards' = cardFetch.answer /\ cardFetch' = NoCardFetch
        /\ UNCHANGED <<worldStatus, creating, button, pendingDelete, estranged>>
    BY <1>13 DEF ArriveCards
  <2>2. CardsTyped'
    BY <1>0, <1>00, <2>1 DEF CardsTyped
  <2>3. ~estranged' => CardsKeepUp'
    BY <1>00, <2>1 DEF CardsInv, CardsKeepUp, Polling
  <2> QED
    BY <2>2, <2>3 DEF CardsInv
<1>14. CASE CardsFail
  <2>1. /\ cardFetch' = NoCardFetch /\ estranged' = (estranged \/ ~Polling)
        /\ UNCHANGED <<worldStatus, cards, creating, button, pendingDelete>>
    BY <1>14 DEF CardsFail
  <2>2. CardsTyped'
    BY <1>0, <1>00, <2>1 DEF CardsTyped
  <2>3. ~estranged' => CardsKeepUp'
    BY <1>00, <2>1 DEF CardsKeepUp, Polling
  <2> QED
    BY <2>2, <2>3 DEF CardsInv
<1>15. CASE DangerZone
  <2>1. pendingDelete' = selected /\ UNCHANGED <<worldStatus, cards, cardFetch, creating, button, estranged>>
    BY <1>15 DEF DangerZone
  <2> QED
    BY <1>5, <2>1
<1> QED
  BY <1>1, <1>2, <1>3, <1>4, <1>5, <1>6, <1>7, <1>8, <1>9, <1>10, <1>11, <1>12, <1>13, <1>14, <1>15 DEF CardStep

(* The text of a file operation has its type because a read has a path.    *)
LEMMA FilesStepOn ==
  ASSUME selected \in Worlds \cup {NoWorld}, FilesInv, FileStep
  PROVE  FilesInv'
<1>0. /\ FilesTyped /\ AnyWorld \in Worlds /\ NoText \in Texts /\ UNCHANGED selected
      /\ fileOp \in [FileOps -> FileOpType] /\ editor \in [path : Paths \cup {NoPath}, text : Texts]
  BY GameServerPageAssumption, FilesLeaveTheRest DEF FilesInv, FilesTyped, AnyWorld, Texts
<1>1. ASSUME NEW o \in FileOps, NEW kind \in {"list", "read", "write"}, NEW path \in Paths \cup {NoPath},
             NEW text \in Texts, runFileCommand(o, kind, path, text),
             kind # "list" => path \in Paths,
             kind = "write" => editor.path = path /\ editor.text = text,
             \/ kind # "read" /\ editor' = editor
             \/ kind = "read" /\ editor' = [path |-> path, text |-> NoText]
      PROVE  FilesInv'
  <2> DEFINE r == [pc |-> "waiting", kind |-> kind, server |-> selected, path |-> path, text |-> text]
  <2>1. /\ selected \in Worlds /\ fileOp[o].pc = "idle" /\ busy' = TRUE
        /\ crowded' = (crowded \/ \E other \in FileOps : fileOp[other].pc \in {"waiting", "executed"})
        /\ UNCHANGED <<listing, world, unread>>
    BY <1>1 DEF runFileCommand, Managed
  <2>2. /\ r \in FileOpType /\ r.pc = "waiting" /\ r.kind = kind /\ r.server = selected
        /\ r.path = path /\ r.text = text
    BY <2>1 DEF FileOpType
  <2>3. fileOp' = [fileOp EXCEPT ![o] = r]
    BY <1>1 DEF runFileCommand
  <2> HIDE DEF r
  <2>4. /\ fileOp' \in [FileOps -> FileOpType] /\ fileOp'[o] = r
        /\ \A p \in FileOps \ {o} : fileOp'[p] = fileOp[p]
    BY <1>0, <2>2, <2>3
  <2>5. editor' \in [path : Paths \cup {NoPath}, text : Texts]
    BY <1>0, <1>1
  <2>6. crowded' \in BOOLEAN
    BY <1>0, <2>1 DEF FilesTyped
  <2>7. FilesTyped'
    BY <1>0, <1>1, <2>1, <2>2, <2>4, <2>5, <2>6 DEF FilesTyped
  <2>8. ASSUME ~crowded', ~unread' PROVE TextsAtHome'
    <3>1. TextsAtHome /\ ActiveOps = {} /\ ReadingOps = {}
      BY <2>1, <2>8 DEF FilesInv, ActiveOps, ReadingOps
    <3>2. ActiveOps' = {o}
      BY <2>2, <2>4, <3>1 DEF ActiveOps
    <3>3. ReadingOps' = IF kind = "read" THEN {o} ELSE {}
      BY <2>2, <2>4, <3>2 DEF ReadingOps
    <3>4. editor.path # NoPath => editor.text = <<selected, editor.path>>
      BY <2>1, <3>1, GameServerPageAssumption DEF TextsAtHome
    <3>5. \A p \in FileOps : fileOp'[p].pc \in {"waiting", "late"} /\ fileOp'[p].kind = "write" =>
            fileOp'[p].text = <<fileOp'[p].server, fileOp'[p].path>>
      <4>1. kind = "write" => text = <<selected, path>>
        BY <1>1, <3>4, GameServerPageAssumption
      <4>2. \A p \in FileOps \ {o} : fileOp'[p].pc \in {"waiting", "late"} /\ fileOp'[p].kind = "write" =>
              fileOp'[p].text = <<fileOp'[p].server, fileOp'[p].path>>
        BY <2>4, <3>1 DEF TextsAtHome
      <4> QED
        BY <2>2, <2>4, <4>1, <4>2
    <3>6. \A p \in ReadingOps' :
            /\ fileOp'[p].pc = "executed" => fileOp'[p].text = <<fileOp'[p].server, fileOp'[p].path>>
            /\ editor'.path # NoPath /\ selected' # NoWorld =>
                 fileOp'[p].server = selected' /\ fileOp'[p].path = editor'.path
      BY <1>0, <1>1, <2>2, <2>4, <3>3
    <3>7. editor'.path # NoPath /\ selected' # NoWorld /\ ReadingOps' = {}
            => editor'.text = <<selected', editor'.path>>
      BY <1>0, <1>1, <3>3, <3>4
    <3> QED
      BY <2>1, <3>1, <3>2, <3>5, <3>6, <3>7 DEF TextsAtHome
  <2> QED
    BY <2>7, <2>8 DEF FilesInv
<1>2. ASSUME NEW o \in FileOps, loadFiles(o) PROVE FilesInv'
  BY <1>0, <1>1, <1>2 DEF loadFiles
<1>3. ASSUME NEW o \in FileOps, NEW p \in Paths, openFile(o, p) PROVE FilesInv'
  BY <1>0, <1>1, <1>3 DEF openFile
<1>4. ASSUME NEW o \in FileOps, SaveFile(o) PROVE FilesInv'
  <2>1. editor.path \in Paths /\ editor.text \in Texts
    BY <1>0, <1>4 DEF SaveFile
  <2> QED
    BY <1>1, <1>4, <2>1 DEF SaveFile
<1>5. ASSUME NEW o \in FileOps, Execute(o) PROVE FilesInv'
  <2> DEFINE op == fileOp[o]
             read == IF op.kind = "read" THEN world[<<op.server, op.path>>] ELSE NoText
             r == IF op.pc = "late" THEN NoOp ELSE [op EXCEPT !.pc = "executed", !.text = read]
  <2>1. op \in FileOpType /\ (op.pc = "late" => op.kind = "write") /\ (op.kind # "list" => op.path \in Paths)
    BY <1>0 DEF FilesTyped
  <2>2. /\ op.pc \in {"waiting", "late"} /\ UNCHANGED <<listing, editor, busy, crowded, unread>>
        /\ world' = IF op.kind = "write" THEN [world EXCEPT ![<<op.server, op.path>>] = op.text] ELSE world
        /\ fileOp' = [fileOp EXCEPT ![o] = r]
    BY <1>5 DEF Execute
  <2> HIDE DEF op
  <2>3. read \in Texts /\ (op.kind = "read" => read = world[<<op.server, op.path>>])
    <3>1. op.kind = "read" => <<op.server, op.path>> \in Worlds \X Paths
      BY <2>1 DEF FileOpType
    <3> QED
      BY <1>0, <3>1 DEF FilesTyped
  <2> HIDE DEF read
  <2>4. /\ r \in FileOpType
        /\ op.pc = "late" => r.pc = "idle" /\ r.kind = "list"
        /\ op.pc = "waiting" => /\ r.pc = "executed" /\ r.kind = op.kind /\ r.server = op.server
                                /\ r.path = op.path /\ r.text = read
    <3>1. NoOp \in FileOpType /\ NoOp.pc = "idle" /\ NoOp.kind = "list"
      BY <1>0 DEF NoOp, FileOpType
    <3>2. CASE op.pc = "late"
      BY <3>1, <3>2
    <3>3. CASE op.pc = "waiting"
      BY <2>1, <2>3, <3>3 DEF FileOpType
    <3> QED
      BY <2>2, <3>2, <3>3
  <2> HIDE DEF r
  <2>5. /\ fileOp' \in [FileOps -> FileOpType] /\ fileOp'[o] = r
        /\ \A p \in FileOps \ {o} : fileOp'[p] = fileOp[p]
    BY <1>0, <2>2, <2>4
  <2>6. world' \in [Worlds \X Paths -> Texts]
    <3>1. op.text \in Texts /\ world \in [Worlds \X Paths -> Texts]
      BY <1>0, <2>1 DEF FilesTyped, FileOpType
    <3> QED
      BY <2>2, <3>1
  <2>7. FilesTyped'
    <3>1. \A p \in FileOps : /\ fileOp'[p].pc = "late" => fileOp'[p].kind = "write"
                             /\ fileOp'[p].kind # "list" => fileOp'[p].path \in Paths
      BY <1>0, <2>1, <2>2, <2>4, <2>5 DEF FilesTyped
    <3> QED
      BY <1>0, <2>2, <2>5, <2>6, <3>1 DEF FilesTyped
  <2>8. ASSUME ~crowded', ~unread' PROVE TextsAtHome'
    <3>1. TextsAtHome
      BY <2>2, <2>8 DEF FilesInv
    <3>2. op.kind = "write" => op.text = <<op.server, op.path>>
      BY <2>2, <3>1 DEF TextsAtHome, op
    <3>3. \A f \in Worlds \X Paths : world'[f] = f
      <4>1. world \in [Worlds \X Paths -> Texts] /\ \A f \in Worlds \X Paths : world[f] = f
        BY <1>0, <3>1 DEF FilesTyped, TextsAtHome
      <4> QED
        BY <2>2, <3>2, <4>1
    <3>4. op.kind = "read" => read = <<op.server, op.path>>
      <4>1. op.kind = "read" => <<op.server, op.path>> \in Worlds \X Paths
        BY <2>1 DEF FileOpType
      <4> QED
        BY <2>3, <3>1, <4>1 DEF TextsAtHome
    <3>5. ActiveOps' = ActiveOps
      BY <2>2, <2>4, <2>5 DEF ActiveOps, op
    <3>6. ReadingOps' = ReadingOps
      BY <2>1, <2>2, <2>4, <2>5, <3>5 DEF ReadingOps, ActiveOps, op
    <3>7. \A p \in FileOps : fileOp'[p].pc \in {"waiting", "late"} /\ fileOp'[p].kind = "write" =>
            fileOp'[p].text = <<fileOp'[p].server, fileOp'[p].path>>
      BY <2>2, <2>4, <2>5, <3>1 DEF TextsAtHome
    <3>8. \A p \in ReadingOps' :
            /\ fileOp'[p].pc = "executed" => fileOp'[p].text = <<fileOp'[p].server, fileOp'[p].path>>
            /\ editor'.path # NoPath /\ selected' # NoWorld =>
                 fileOp'[p].server = selected' /\ fileOp'[p].path = editor'.path
      <4> SUFFICES ASSUME NEW p \in ReadingOps
                   PROVE  /\ fileOp'[p].pc = "executed" => fileOp'[p].text = <<fileOp'[p].server, fileOp'[p].path>>
                          /\ editor'.path # NoPath /\ selected' # NoWorld =>
                               fileOp'[p].server = selected' /\ fileOp'[p].path = editor'.path
        BY <3>6
      <4>1. p \in FileOps /\ fileOp[p].kind = "read"
        BY DEF ReadingOps, ActiveOps
      <4>2. CASE p # o
        BY <1>0, <2>2, <2>5, <3>1, <4>1, <4>2 DEF TextsAtHome
      <4>3. CASE p = o
        <5>1. op.kind = "read" /\ op.pc = "waiting" /\ fileOp'[p] = r
          BY <2>1, <2>2, <2>5, <4>1, <4>3 DEF op
        <5>2. fileOp'[p].text = <<fileOp'[p].server, fileOp'[p].path>>
          BY <2>4, <3>4, <5>1
        <5>3. editor.path # NoPath /\ selected # NoWorld => op.server = selected /\ op.path = editor.path
          BY <3>1, <4>3 DEF TextsAtHome, op
        <5> QED
          BY <1>0, <2>2, <2>4, <5>1, <5>2, <5>3
      <4> QED
        BY <4>2, <4>3
    <3>9. editor'.path # NoPath /\ selected' # NoWorld /\ ReadingOps' = {}
            => editor'.text = <<selected', editor'.path>>
      BY <1>0, <2>2, <3>1, <3>6 DEF TextsAtHome
    <3> QED
      BY <2>2, <3>1, <3>3, <3>5, <3>7, <3>8, <3>9 DEF TextsAtHome
  <2> QED
    BY <2>7, <2>8 DEF FilesInv
<1>6. ASSUME NEW o \in FileOps, FileDone(o) PROVE FilesInv'
  <2> DEFINE op == fileOp[o]
             r == IF op.kind = "write" THEN [NoOp EXCEPT !.pc = "waiting", !.server = op.server] ELSE NoOp
  <2>1. op \in FileOpType /\ op.pc = "executed"
    BY <1>0, <1>6 DEF FileDone
  <2>2. /\ listing' = IF op.kind = "list" THEN op.server ELSE listing
        /\ editor' = IF op.kind = "read" THEN [editor EXCEPT !.text = op.text] ELSE editor
        /\ busy' = (op.kind = "write") /\ fileOp' = [fileOp EXCEPT ![o] = r]
        /\ UNCHANGED <<world, crowded, unread>>
    BY <1>6 DEF FileDone
  <2> HIDE DEF op
  <2>3. r \in FileOpType /\ r.kind = "list" /\ r.pc = IF op.kind = "write" THEN "waiting" ELSE "idle"
    BY <1>0, <2>1 DEF NoOp, FileOpType
  <2> HIDE DEF r
  <2>4. /\ fileOp' \in [FileOps -> FileOpType] /\ fileOp'[o] = r
        /\ \A p \in FileOps \ {o} : fileOp'[p] = fileOp[p]
    BY <1>0, <2>2, <2>3
  <2>5. editor' \in [path : Paths \cup {NoPath}, text : Texts] /\ listing' \in Worlds \cup {NoWorld}
    BY <1>0, <2>1, <2>2 DEF FilesTyped, FileOpType
  <2>6. FilesTyped'
    <3>1. \A p \in FileOps : /\ fileOp'[p].pc = "late" => fileOp'[p].kind = "write"
                             /\ fileOp'[p].kind # "list" => fileOp'[p].path \in Paths
      BY <1>0, <2>3, <2>4 DEF FilesTyped
    <3> QED
      BY <1>0, <2>2, <2>4, <2>5, <3>1 DEF FilesTyped
  <2>7. ASSUME ~crowded', ~unread' PROVE TextsAtHome'
    <3>1. TextsAtHome
      BY <2>2, <2>7 DEF FilesInv
    <3>2. o \in ActiveOps /\ \A p \in ActiveOps : p = o
      BY <2>1, <3>1 DEF ActiveOps, TextsAtHome, op
    <3>3. ActiveOps' = IF op.kind = "write" THEN {o} ELSE {}
      BY <2>3, <2>4, <3>2 DEF ActiveOps
    <3>4. ReadingOps' = {}
      BY <2>3, <2>4, <3>3 DEF ReadingOps
    <3>5. \A p \in FileOps : fileOp'[p].pc \in {"waiting", "late"} /\ fileOp'[p].kind = "write" =>
            fileOp'[p].text = <<fileOp'[p].server, fileOp'[p].path>>
      BY <2>3, <2>4, <3>1 DEF TextsAtHome
    <3>6. editor'.path # NoPath /\ selected' # NoWorld => editor'.text = <<selected', editor'.path>>
      <4>1. CASE op.kind = "read"
        <5>1. o \in ReadingOps
          BY <3>2, <4>1 DEF ReadingOps, op
        <5>2. /\ op.text = <<op.server, op.path>>
              /\ editor.path # NoPath /\ selected # NoWorld => op.server = selected /\ op.path = editor.path
          BY <2>1, <3>1, <5>1 DEF TextsAtHome, op
        <5>3. editor'.path = editor.path /\ editor'.text = op.text
          BY <1>0, <2>2, <4>1
        <5> QED
          BY <1>0, <5>2, <5>3
      <4>2. CASE op.kind # "read"
        <5>1. ReadingOps = {}
          BY <3>2, <4>2 DEF ReadingOps, op
        <5> QED
          BY <1>0, <2>2, <3>1, <4>2, <5>1 DEF TextsAtHome
      <4> QED
        BY <4>1, <4>2
    <3> QED
      BY <2>2, <3>1, <3>3, <3>4, <3>5, <3>6 DEF TextsAtHome
  <2> QED
    BY <2>6, <2>7 DEF FilesInv
<1>7. ASSUME NEW o \in FileOps, FileFailed(o) PROVE FilesInv'
  <2> DEFINE op == fileOp[o]
             r == IF op.kind = "write" /\ op.pc = "waiting" THEN [op EXCEPT !.pc = "late"] ELSE NoOp
  <2>1. /\ op \in FileOpType /\ op.pc \in {"waiting", "executed"} /\ (op.kind # "list" => op.path \in Paths)
    BY <1>0, <1>7 DEF FileFailed, FilesTyped
  <2>2. /\ fileOp' = [fileOp EXCEPT ![o] = r] /\ busy' = FALSE /\ unread' = (unread \/ op.kind = "read")
        /\ UNCHANGED <<listing, editor, world, crowded>>
    BY <1>7 DEF FileFailed
  <2> HIDE DEF op
  <2>3. /\ r \in FileOpType
        /\ \/ r.pc = "idle" /\ r.kind = "list"
           \/ /\ r.pc = "late" /\ r.kind = "write" /\ r.server = op.server /\ r.path = op.path /\ r.text = op.text
              /\ op.kind = "write" /\ op.pc = "waiting"
    <3>1. NoOp \in FileOpType /\ NoOp.pc = "idle" /\ NoOp.kind = "list"
      BY <1>0 DEF NoOp, FileOpType
    <3>2. CASE op.kind = "write" /\ op.pc = "waiting"
      BY <2>1, <3>2 DEF FileOpType
    <3>3. CASE ~(op.kind = "write" /\ op.pc = "waiting")
      BY <3>1, <3>3
    <3> QED
      BY <3>2, <3>3
  <2> HIDE DEF r
  <2>4. /\ fileOp' \in [FileOps -> FileOpType] /\ fileOp'[o] = r
        /\ \A p \in FileOps \ {o} : fileOp'[p] = fileOp[p]
    BY <1>0, <2>2, <2>3
  <2>5. FilesTyped'
    <3>1. \A p \in FileOps : /\ fileOp'[p].pc = "late" => fileOp'[p].kind = "write"
                             /\ fileOp'[p].kind # "list" => fileOp'[p].path \in Paths
      BY <1>0, <2>1, <2>3, <2>4 DEF FilesTyped
    <3>2. unread' \in BOOLEAN
      BY <1>0, <2>2 DEF FilesTyped
    <3> QED
      BY <1>0, <2>2, <2>4, <3>1, <3>2 DEF FilesTyped
  <2>6. ASSUME ~crowded', ~unread' PROVE TextsAtHome'
    <3>1. TextsAtHome /\ op.kind # "read"
      BY <1>0, <2>2, <2>6 DEF FilesInv
    <3>2. o \in ActiveOps /\ \A p \in ActiveOps : p = o
      BY <2>1, <3>1 DEF ActiveOps, TextsAtHome, op
    <3>3. ActiveOps' = {} /\ ReadingOps' = {}
      BY <2>3, <2>4, <3>2 DEF ActiveOps, ReadingOps
    <3>4. ReadingOps = {}
      BY <3>1, <3>2 DEF ReadingOps, op
    <3>5. \A p \in FileOps : fileOp'[p].pc \in {"waiting", "late"} /\ fileOp'[p].kind = "write" =>
            fileOp'[p].text = <<fileOp'[p].server, fileOp'[p].path>>
      <4>1. op.kind = "write" /\ op.pc = "waiting" => op.text = <<op.server, op.path>>
        BY <3>1 DEF TextsAtHome, op
      <4>2. \A p \in FileOps \ {o} : fileOp'[p].pc \in {"waiting", "late"} /\ fileOp'[p].kind = "write" =>
              fileOp'[p].text = <<fileOp'[p].server, fileOp'[p].path>>
        BY <2>4, <3>1 DEF TextsAtHome
      <4> QED
        BY <2>3, <2>4, <4>1, <4>2
    <3> QED
      BY <1>0, <2>2, <3>1, <3>3, <3>4, <3>5 DEF TextsAtHome
  <2> QED
    BY <2>5, <2>6 DEF FilesInv
<1> QED
  BY <1>2, <1>3, <1>4, <1>5, <1>6, <1>7 DEF FileStep

LEMMA GrantsStepOn ==
  ASSUME selected \in Worlds \cup {NoWorld}, GrantsInv, GrantStep
  PROVE  GrantsInv'
<1>0. /\ GrantsTyped /\ AnyWorld \in Worlds /\ UNCHANGED selected /\ MaxGrants \in Nat /\ 0 \in 0 .. MaxGrants
      /\ grantFetch \in [Worlds -> [pc : {"none", "sent", "answered"}, answer : 0..MaxGrants]]
  BY GameServerPageAssumption, GrantsLeaveTheRest DEF GrantsInv, GrantsTyped, AnyWorld
<1>00. /\ NoGrantFetch \in [pc : {"none", "sent", "answered"}, answer : 0..MaxGrants] /\ NoGrantFetch.pc = "none"
       /\ NoMutation \in [pc : {"idle", "sent", "done"}, server : Worlds] /\ NoMutation.pc = "idle"
  BY <1>0 DEF NoGrantFetch, NoMutation
<1>01. granting \in [GrantChanges -> [pc : {"idle", "sent", "done"}, server : Worlds]]
  BY <1>0 DEF GrantsTyped
<1>1. ASSUME NEW c \in GrantChanges, ChangeGrants(c) PROVE GrantsInv'
  <2>1. /\ selected \in Worlds /\ granting[c].pc = "idle"
        /\ granting' = [granting EXCEPT ![c] = [pc |-> "sent", server |-> selected]]
        /\ UNCHANGED <<grants, grantCache, grantFetch, strayed>>
    BY <1>1 DEF ChangeGrants, Managed
  <2>2. GrantsTyped'
    BY <1>0, <2>1 DEF GrantsTyped
  <2>3. ~strayed' => GrantsKeepUp'
    BY <1>0, <1>01, <2>1 DEF GrantsInv, GrantsKeepUp
  <2> QED
    BY <2>2, <2>3 DEF GrantsInv
<1>2. ASSUME NEW c \in GrantChanges, StoreGrants(c) PROVE GrantsInv'
  <2> DEFINE w == granting[c].server
             r == [granting[c] EXCEPT !.pc = "done"]
  <2>1. /\ granting[c].pc = "sent" /\ grants[w] < MaxGrants /\ grants' = [grants EXCEPT ![w] = grants[w] + 1]
        /\ granting' = [granting EXCEPT ![c] = r] /\ UNCHANGED <<grantCache, grantFetch, strayed>>
    BY <1>2 DEF StoreGrants
  <2>2. /\ w \in Worlds /\ r \in [pc : {"idle", "sent", "done"}, server : Worlds]
        /\ r.pc = "done" /\ r.server = w
    BY <1>01
  <2> HIDE DEF r
  <2>3. /\ granting' \in [GrantChanges -> [pc : {"idle", "sent", "done"}, server : Worlds]]
        /\ granting'[c].pc = "done" /\ granting'[c].server = w
        /\ \A d \in GrantChanges \ {c} : granting'[d] = granting[d]
    BY <1>01, <2>1, <2>2
  <2> HIDE DEF w
  <2>4. /\ grants' \in [Worlds -> 0..MaxGrants] /\ \A s \in Worlds \ {w} : grants'[s] = grants[s]
    <3>1. grants[w] + 1 \in 0 .. MaxGrants
      BY <1>0, <2>1, <2>2 DEF GrantsTyped
    <3> QED
      BY <1>0, <2>1, <2>2, <3>1 DEF GrantsTyped
  <2>5. GrantsTyped'
    BY <1>0, <2>1, <2>3, <2>4 DEF GrantsTyped
  <2>6. ~strayed' => GrantsKeepUp'
    <3> SUFFICES ASSUME ~strayed' PROVE GrantsKeepUp'
      OBVIOUS
    <3>1. GrantsKeepUp
      BY <2>1 DEF GrantsInv
    <3>2. granting[c].server = w
      BY DEF w
    <3>3. \A d \in GrantChanges : granting'[d].pc # "idle" => granting'[d].server = selected
      BY <1>0, <2>1, <2>3, <3>1, <3>2 DEF GrantsKeepUp
    <3>4. ASSUME NEW s \in Worlds, \A d \in GrantChanges : granting'[d].pc = "done" => granting'[d].server # s
          PROVE  /\ grantFetch'[s].pc = "none" => grantCache'[s] = grants'[s]
                 /\ grantFetch'[s].pc = "answered" => grantFetch'[s].answer = grants'[s]
      <4>1. s # w /\ \A d \in GrantChanges : granting[d].pc = "done" => granting[d].server # s
        BY <2>1, <2>3, <3>4
      <4> QED
        BY <2>1, <2>4, <3>1, <4>1 DEF GrantsKeepUp
    <3> QED
      BY <1>0, <3>3, <3>4 DEF GrantsKeepUp
  <2> QED
    BY <2>5, <2>6 DEF GrantsInv
<1>3. ASSUME NEW c \in GrantChanges, GrantsChanged(c) PROVE GrantsInv'
  <2> DEFINE f == [NoGrantFetch EXCEPT !.pc = "sent"]
  <2>1. f \in [pc : {"none", "sent", "answered"}, answer : 0..MaxGrants] /\ f.pc = "sent"
    BY <1>00
  <2>2. /\ granting[c].pc = "done" /\ granting' = [granting EXCEPT ![c] = NoMutation]
        /\ UNCHANGED <<grants, grantCache, strayed>>
        /\ grantFetch' = IF selected # NoWorld THEN [grantFetch EXCEPT ![selected] = f] ELSE grantFetch
    BY <1>3 DEF GrantsChanged
  <2> HIDE DEF f
  <2>3. /\ grantFetch' \in [Worlds -> [pc : {"none", "sent", "answered"}, answer : 0..MaxGrants]]
        /\ \A s \in Worlds : IF s = selected THEN grantFetch'[s].pc = "sent" ELSE grantFetch'[s] = grantFetch[s]
    BY <1>0, <2>1, <2>2, GameServerPageAssumption
  <2>4. /\ granting' \in [GrantChanges -> [pc : {"idle", "sent", "done"}, server : Worlds]]
        /\ granting'[c].pc = "idle" /\ \A d \in GrantChanges \ {c} : granting'[d] = granting[d]
    BY <1>00, <1>01, <2>2
  <2>5. GrantsTyped'
    BY <1>0, <2>2, <2>3, <2>4 DEF GrantsTyped
  <2>6. ~strayed' => GrantsKeepUp'
    <3> SUFFICES ASSUME ~strayed' PROVE GrantsKeepUp'
      OBVIOUS
    <3>1. GrantsKeepUp
      BY <2>2 DEF GrantsInv
    <3>2. \A d \in GrantChanges : granting'[d].pc # "idle" => granting'[d].server = selected'
      BY <1>0, <2>4, <3>1 DEF GrantsKeepUp
    <3>3. ASSUME NEW s \in Worlds, s # selected,
                 \A d \in GrantChanges : granting'[d].pc = "done" => granting'[d].server # s
          PROVE  /\ grantFetch'[s].pc = "none" => grantCache'[s] = grants'[s]
                 /\ grantFetch'[s].pc = "answered" => grantFetch'[s].answer = grants'[s]
      <4>1. \A d \in GrantChanges : granting[d].pc = "done" => granting[d].server # s
        BY <2>2, <2>4, <3>1, <3>3 DEF GrantsKeepUp
      <4> QED
        BY <2>2, <2>3, <3>1, <3>3, <4>1 DEF GrantsKeepUp
    <3> QED
      BY <2>3, <3>2, <3>3 DEF GrantsKeepUp
  <2> QED
    BY <2>5, <2>6 DEF GrantsInv
<1>4. ASSUME NEW s \in Worlds, GrantsFail(s) PROVE GrantsInv'
  <2>1. strayed' = TRUE /\ UNCHANGED <<grants, grantCache>>
    BY <1>4 DEF GrantsFail
  <2>2. granting' \in [GrantChanges -> [pc : {"idle", "sent", "done"}, server : Worlds]]
    BY <1>00, <1>01, <1>4 DEF GrantsFail
  <2>3. grantFetch' \in [Worlds -> [pc : {"none", "sent", "answered"}, answer : 0..MaxGrants]]
    BY <1>0, <1>00, <1>4 DEF GrantsFail
  <2>4. GrantsTyped'
    BY <1>0, <2>1, <2>2, <2>3 DEF GrantsTyped
  <2> QED
    BY <2>1, <2>4 DEF GrantsInv
<1>5. ASSUME NEW s \in Worlds, AnswerGrants(s) PROVE GrantsInv'
  <2> DEFINE f == [pc |-> "answered", answer |-> grants[s]]
  <2>1. f \in [pc : {"none", "sent", "answered"}, answer : 0..MaxGrants] /\ f.pc = "answered" /\ f.answer = grants[s]
    BY <1>0 DEF GrantsTyped
  <2>2. grantFetch' = [grantFetch EXCEPT ![s] = f] /\ UNCHANGED <<grants, grantCache, granting, strayed>>
    BY <1>5 DEF AnswerGrants
  <2> HIDE DEF f
  <2>3. /\ grantFetch' \in [Worlds -> [pc : {"none", "sent", "answered"}, answer : 0..MaxGrants]]
        /\ grantFetch'[s] = f /\ \A t \in Worlds \ {s} : grantFetch'[t] = grantFetch[t]
    BY <1>0, <2>1, <2>2
  <2>4. GrantsTyped'
    BY <1>0, <2>2, <2>3 DEF GrantsTyped
  <2>5. ~strayed' => GrantsKeepUp'
    BY <1>0, <2>1, <2>2, <2>3 DEF GrantsInv, GrantsKeepUp
  <2> QED
    BY <2>4, <2>5 DEF GrantsInv
<1>6. ASSUME NEW s \in Worlds, ArriveGrants(s) PROVE GrantsInv'
  <2>1. /\ grantFetch[s].pc = "answered" /\ grantCache' = [grantCache EXCEPT ![s] = grantFetch[s].answer]
        /\ grantFetch' = [grantFetch EXCEPT ![s] = NoGrantFetch] /\ UNCHANGED <<grants, granting, strayed>>
    BY <1>6 DEF ArriveGrants
  <2>2. /\ grantFetch' \in [Worlds -> [pc : {"none", "sent", "answered"}, answer : 0..MaxGrants]]
        /\ grantFetch'[s].pc = "none" /\ \A t \in Worlds \ {s} : grantFetch'[t] = grantFetch[t]
    BY <1>0, <1>00, <2>1
  <2>3. /\ grantCache' \in [Worlds -> 0..MaxGrants] /\ grantCache'[s] = grantFetch[s].answer
        /\ \A t \in Worlds \ {s} : grantCache'[t] = grantCache[t]
    BY <1>0, <2>1 DEF GrantsTyped
  <2>4. GrantsTyped'
    BY <1>0, <2>1, <2>2, <2>3 DEF GrantsTyped
  <2>5. ~strayed' => GrantsKeepUp'
    BY <1>0, <2>1, <2>2, <2>3 DEF GrantsInv, GrantsKeepUp
  <2> QED
    BY <2>4, <2>5 DEF GrantsInv
<1> QED
  BY <1>1, <1>2, <1>3, <1>4, <1>5, <1>6 DEF GrantStep

LEMMA GamePageStep == GpInv /\ [GpNext]_gpVars => GpInv'
<1> SUFFICES ASSUME GpInv, [GpNext]_gpVars PROVE GpInv'
  OBVIOUS
<1>0. selected \in Worlds \cup {NoWorld} /\ CardsInv /\ CardsTyped /\ FilesInv /\ GrantsInv
  BY DEF GpInv, CardsInv
<1>1. CASE CardStep
  <2>1. CardsInv' /\ UNCHANGED <<selected, editVars, grantVars>>
    BY <1>0, <1>1, CardsStepOn, CardsLeaveTheRest
  <2>2. FilesInv'
    BY <1>0, <2>1 DEF FilesInv, FilesTyped, TextsAtHome, ActiveOps, ReadingOps, editVars
  <2>3. GrantsInv'
    BY <1>0, <2>1 DEF GrantsInv, GrantsTyped, GrantsKeepUp, grantVars
  <2> QED
    BY <1>0, <2>1, <2>2, <2>3 DEF GpInv
<1>2. CASE FileStep
  <2>1. FilesInv' /\ UNCHANGED <<selected, cardVars, grantVars>>
    BY <1>0, <1>2, FilesStepOn, FilesLeaveTheRest
  <2>2. CardsInv'
    BY <1>0, <2>1 DEF CardsInv, CardsTyped, CardsKeepUp, Polling, cardVars
  <2>3. GrantsInv'
    BY <1>0, <2>1 DEF GrantsInv, GrantsTyped, GrantsKeepUp, grantVars
  <2> QED
    BY <1>0, <2>1, <2>2, <2>3 DEF GpInv
<1>3. CASE GrantStep
  <2>1. GrantsInv' /\ UNCHANGED <<selected, cardVars, editVars>>
    BY <1>0, <1>3, GrantsStepOn, GrantsLeaveTheRest
  <2>2. CardsInv'
    BY <1>0, <2>1 DEF CardsInv, CardsTyped, CardsKeepUp, Polling, cardVars
  <2>3. FilesInv'
    BY <1>0, <2>1 DEF FilesInv, FilesTyped, TextsAtHome, ActiveOps, ReadingOps, editVars
  <2> QED
    BY <1>0, <2>1, <2>2, <2>3 DEF GpInv
<1>4. CASE Pressed \/ CloseManagement
  <2>1. Leaves
    BY <1>4, LeavingLeavesTheRest
  <2>2. CardsInv'
    <3>1. CASE Pressed
      BY <1>0, <3>1, CardsStepOn
    <3>2. CASE CloseManagement
      <4>1. UNCHANGED cardVars
        BY <3>2 DEF CloseManagement
      <4> QED
        BY <1>0, <4>1 DEF CardsInv, CardsTyped, CardsKeepUp, Polling, cardVars
    <3> QED
      BY <1>4, <3>1, <3>2
  <2>3. FilesInv'
    <3>1. UNCHANGED <<listing, editor, busy, fileOp, world, crowded, unread>> /\ selected' \in {selected, NoWorld}
      BY <2>1 DEF Leaves, editVars
    <3>2. ActiveOps' = ActiveOps /\ ReadingOps' = ReadingOps
      BY <3>1 DEF ActiveOps, ReadingOps
    <3>3. TextsAtHome => TextsAtHome'
      BY <3>1, <3>2 DEF TextsAtHome
    <3> QED
      BY <1>0, <3>1, <3>3 DEF FilesInv, FilesTyped
  <2>4. GrantsInv'
    <3>1. /\ UNCHANGED <<grants, grantCache, grantFetch, granting>> /\ selected' \in {selected, NoWorld}
          /\ strayed' = (strayed \/ (selected' # selected /\ Changing))
      BY <2>1 DEF Leaves
    <3> QED
      BY <1>0, <3>1 DEF GrantsInv, GrantsTyped, GrantsKeepUp, Changing
  <2> QED
    BY <1>0, <2>1, <2>2, <2>3, <2>4 DEF GpInv, Leaves
<1>5. ASSUME NEW s \in Worlds, openManagement(s) PROVE GpInv'
  <2>1. /\ selected' = s /\ listing' = NoWorld /\ editor' = NoFile /\ ShowGrants(s)
        /\ UNCHANGED <<busy, fileOp, world, crowded, unread, cardVars>>
    BY <1>5 DEF openManagement
  <2>2. CardsInv'
    BY <1>0, <2>1 DEF CardsInv, CardsTyped, CardsKeepUp, Polling, cardVars
  <2>3. FilesInv'
    <3>1. editor'.path = NoPath /\ editor' \in [path : Paths \cup {NoPath}, text : Texts]
      BY <2>1 DEF NoFile, Texts
    <3>2. ActiveOps' = ActiveOps /\ ReadingOps' = ReadingOps
      BY <2>1 DEF ActiveOps, ReadingOps
    <3>3. TextsAtHome => TextsAtHome'
      BY <2>1, <3>1, <3>2 DEF TextsAtHome
    <3>4. FilesTyped'
      BY <1>0, <2>1, <3>1 DEF FilesInv, FilesTyped
    <3> QED
      BY <1>0, <2>1, <3>3, <3>4 DEF FilesInv
  <2>4. GrantsInv'
    <3>1. /\ UNCHANGED <<grants, grantCache, granting>> /\ strayed' = (strayed \/ Changing)
          /\ grantFetch' \in [Worlds -> [pc : {"none", "sent", "answered"}, answer : 0..MaxGrants]]
          /\ \A t \in Worlds : grantFetch'[t] = grantFetch[t] \/ grantFetch'[t].pc = "sent"
      <4> DEFINE f == [grantFetch[s] EXCEPT !.pc = "sent"]
      <4>1. grantFetch \in [Worlds -> [pc : {"none", "sent", "answered"}, answer : 0..MaxGrants]]
        BY <1>0 DEF GrantsInv, GrantsTyped
      <4>2. f \in [pc : {"none", "sent", "answered"}, answer : 0..MaxGrants] /\ f.pc = "sent"
        BY <4>1
      <4>3. grantFetch' = [grantFetch EXCEPT ![s] = f] \/ grantFetch' = grantFetch
        BY <2>1 DEF ShowGrants
      <4> HIDE DEF f
      <4>4. UNCHANGED <<grants, grantCache, granting>> /\ strayed' = (strayed \/ Changing)
        BY <2>1 DEF ShowGrants
      <4> QED
        BY <4>1, <4>2, <4>3, <4>4
    <3>2. GrantsTyped'
      BY <1>0, <3>1 DEF GrantsInv, GrantsTyped
    <3>3. ~strayed' => GrantsKeepUp'
      BY <1>0, <3>1 DEF GrantsInv, GrantsKeepUp, Changing
    <3> QED
      BY <3>2, <3>3 DEF GrantsInv
  <2> QED
    BY <2>1, <2>2, <2>3, <2>4 DEF GpInv
<1>6. CASE UNCHANGED gpVars
  <2>1. UNCHANGED <<cardVars, selected, editVars, grantVars>>
    BY <1>6 DEF gpVars
  <2>2. CardsInv'
    BY <1>0, <2>1 DEF CardsInv, CardsTyped, CardsKeepUp, Polling, cardVars
  <2>3. FilesInv'
    BY <1>0, <2>1 DEF FilesInv, FilesTyped, TextsAtHome, ActiveOps, ReadingOps, editVars
  <2>4. GrantsInv'
    BY <1>0, <2>1 DEF GrantsInv, GrantsTyped, GrantsKeepUp, grantVars
  <2> QED
    BY <1>0, <2>1, <2>2, <2>3, <2>4 DEF GpInv
<1> QED
  BY <1>0, <1>1, <1>2, <1>3, <1>4, <1>5, <1>6, GamePageSteps

LEMMA GamePageImplied == GpInv => GameServerPageSound /\ GpTypeOK
<1> SUFFICES ASSUME GpInv PROVE GameServerPageSound /\ GpTypeOK
  OBVIOUS
<1>1. GpTypeOK
  BY DEF GpInv, CardsInv, CardsTyped, FilesInv, FilesTyped, FileOpType, GrantsInv, GrantsTyped, GpTypeOK
<1>2. GameServerPageSound
  BY DEF GpInv, CardsInv, CardsKeepUp, FilesInv, TextsAtHome, GrantsInv, GrantsKeepUp, Changing,
     GameServerPageSound
<1> QED
  BY <1>1, <1>2

-----------------------------------------------------------------------------
(* The pages of the dashboard, for all values, worlds, files and tabs: a   *)
(* page at rest shows what is stored, whatever the order of saves,         *)
(* refetches and their answers; a file of a game server never gets the     *)
(* text of another one; a form is saved to the row that it was opened for; *)
(* and the pair that is installed is served and shown, with the exceptions *)
(* that the histories name (apps/dashboard, ssl/dashboard-certificates.ts).*)
THEOREM DashboardHolds == PlatformSpec => []DashboardSound
<1> DEFINE PagesInv == TlsInv /\ DpInv /\ PagInv /\ GpInv
<1>1. PlatformInit => PagesInv
  BY CertificatesStart, DomainsPageStart, ApplicationPageStart, GamePageStart DEF PlatformInit
<1>2. PagesInv /\ [PlatformNext]_PlatformVars => PagesInv'
  <2> SUFFICES ASSUME PagesInv, [PlatformNext]_PlatformVars PROVE PagesInv'
    OBVIOUS
  <2>1. [TlsNext]_tlsVars /\ [DpNext]_dpVars /\ [PagNext]_pagVars /\ [GpNext]_gpVars
    BY DEF PlatformNext, PlatformVars
  <2> QED
    BY <2>1, CertificatesStep, DomainsPageStep, ApplicationPageStep, GamePageStep
<1>3. PagesInv => DashboardSound
  BY CertificatesImplied, DomainsPageImplied, ApplicationPageImplied, GamePageImplied
    DEF DashboardSound, Of
<1> QED
  BY <1>1, <1>2, <1>3, PTL DEF PlatformSpec

-----------------------------------------------------------------------------
(* Types of the projects: a row that refers to another one goes with it,   *)
(* since ids are never used again while a request still carries them.      *)
Linked(a, v) == a \in DOMAIN app /\ v \in DOMAIN variable => Holds(app[a].project, variable[v].env)

RowsTyped ==
  /\ \A p \in DOMAIN defaultEnv : defaultEnv[p] \in Envs
  /\ environment \subseteq (DOMAIN defaultEnv) \X Envs
  /\ protected \subseteq Envs
  /\ DOMAIN variable \subseteq Variables /\ \A v \in DOMAIN variable : variable[v] \in VariableRow
  /\ attachment \subseteq (DOMAIN app) \X (DOMAIN variable)

(* An environment is of one project.                                       *)
OneOwner ==
  /\ \A row, other \in environment : row[2] = other[2] => row[1] = other[1]
  /\ \A row \in environment : \A p \in Projects : row[2] = Production[p] => row[1] = p

(* What is being created exists nowhere yet.                               *)
EnvsAreNew == \A r \in pending : r.op = "createEnv" =>
  /\ \A p \in Projects : r.env # Production[p]
  /\ \A row \in environment : row[2] # r.env
  /\ \A s \in pending : s.op = "createEnv" /\ s.env = r.env => s = r
AppsAreNew == \A r \in pending : r.op = "createApp" =>
  /\ r.app \notin DOMAIN app
  /\ \A s \in pending : s.op \in AppOps /\ s.app = r.app => s = r

(* An application and its secrets are of one project.                      *)
SecretsLinked ==
  /\ \A row \in attachment : Linked(row[1], row[2])
  /\ \A r \in pending : r.op = "attach" => Linked(r.app, r.var)

LinksInv == RowsTyped /\ OneOwner /\ EnvsAreNew /\ AppsAreNew /\ SecretsLinked

(* What a request finds when it is asked.                                  *)
Begins(r) ==
  /\ r.op = "createEnv" => /\ \A p \in Projects : r.env # Production[p]
                           /\ \A row \in environment : row[2] # r.env
                           /\ \A s \in pending : s.op = "createEnv" => s.env # r.env
  /\ r.op = "createApp" => r.app \notin DOMAIN app /\ \A s \in pending : s.op \in AppOps => s.app # r.app
  /\ r.op \in AppOps \ {"createApp"} => r.app \in DOMAIN app
  /\ r.op = "attach" => Linked(r.app, r.var)

LEMMA LinksAsked ==
  ASSUME LinksInv, UNCHANGED PrjRows, NEW r, pending' = pending \cup {r}, Begins(r)
  PROVE  LinksInv'
<1>1. UNCHANGED <<archived, defaultEnv, environment, protected, app, variable, attachment>>
  BY DEF PrjRows, prjVars
<1>2. RowsTyped' /\ OneOwner'
  BY <1>1 DEF LinksInv, RowsTyped, OneOwner
<1>3. \A a, v : Linked(a, v)' <=> Linked(a, v)
  BY <1>1 DEF Linked, Holds
<1>4. SecretsLinked'
  BY <1>1, <1>3 DEF LinksInv, SecretsLinked, Begins
<1>5. EnvsAreNew'
  BY <1>1 DEF LinksInv, EnvsAreNew, Begins
<1>6. AppsAreNew'
  BY <1>1 DEF LinksInv, AppsAreNew, Begins, AppOps
<1> QED
  BY <1>2, <1>4, <1>5, <1>6 DEF LinksInv

(* A write that creates no environment, application, variable or           *)
(* attachment.                                                             *)
LEMMA LinksKept ==
  ASSUME LinksInv, pending' \subseteq pending, RowsTyped',
         environment' \subseteq environment, attachment' \subseteq attachment,
         DOMAIN app' \subseteq DOMAIN app, \A a \in DOMAIN app' : app'[a].project = app[a].project,
         DOMAIN variable' \subseteq DOMAIN variable, \A v \in DOMAIN variable' : variable'[v].env = variable[v].env,
         \A a \in DOMAIN app' : \A v \in DOMAIN variable' :
            Holds(app[a].project, variable[v].env) => Holds(app[a].project, variable[v].env)'
  PROVE  LinksInv'
<1>1. OneOwner'
  BY DEF LinksInv, OneOwner
<1>2. EnvsAreNew' /\ AppsAreNew'
  BY DEF LinksInv, EnvsAreNew, AppsAreNew
<1>3. \A a, v : Linked(a, v) => Linked(a, v)'
  BY DEF Linked, Holds
<1>4. SecretsLinked'
  BY <1>3 DEF LinksInv, SecretsLinked
<1> QED
  BY <1>1, <1>2, <1>4 DEF LinksInv

LEMMA LinksStart == PrjInit /\ TenInit => LinksInv
BY DEF PrjInit, TenInit, LinksInv, RowsTyped, OneOwner, EnvsAreNew, AppsAreNew, SecretsLinked

LEMMA LinksStep == PrjInv /\ LinksInv /\ PrjNext => LinksInv'
<1> SUFFICES ASSUME PrjInv, LinksInv, PrjNext PROVE LinksInv'
  OBVIOUS
<1> USE DEF EnvOps, AppOps
<1>0. /\ \A r \in pending : r \in PrjRequest \cup OpenProject
      /\ DOMAIN defaultEnv \subseteq Projects /\ DOMAIN defaultEnv = DOMAIN accessMode
      /\ \A a \in DOMAIN app : app[a] \in AppRow
      /\ RowsTyped
  BY DEF PrjInv, ProjectsShape, LinksInv
<1>1. ASSUME NEW p \in Projects, CreateProject(p, "organization", {}), UNCHANGED prjVars PROVE LinksInv'
  <2> DEFINE q == [op |-> "createProject", project |-> p, mode |-> "organization", teams |-> {}]
  <2>1. pending' = pending \cup {q} /\ UNCHANGED PrjRows /\ Begins(q)
    BY <1>1 DEF CreateProject, PrjRows, Ask, Begins
  <2> HIDE DEF q
  <2> QED
    BY <2>1, LinksAsked
<1>2. ASSUME NEW p \in Projects, DeleteProject(p) PROVE LinksInv'
  <2> DEFINE q == [op |-> "deleteProject", project |-> p]
  <2>1. pending' = pending \cup {q} /\ UNCHANGED PrjRows /\ Begins(q)
    BY <1>2 DEF DeleteProject, Ask, Begins
  <2> HIDE DEF q
  <2> QED
    BY <2>1, LinksAsked
<1>3. ASSUME NEW p \in Projects, NEW e \in Envs,
             CreateEnvironment(p, e) \/ DeleteEnvironment(p, e) \/ SetDefaultEnvironment(p, e)
      PROVE  LinksInv'
  <2> DEFINE q(op) == [op |-> op, project |-> p, env |-> e]
  <2>1. CASE CreateEnvironment(p, e)
    <3>1. /\ \A s \in pending : s.op = "createEnv" => s.env # e
          /\ \A x \in Projects : e # Production[x]
          /\ \A x \in Projects : <<x, e>> \notin environment
      BY <2>1 DEF CreateEnvironment, Holds
    <3>2. \A row \in environment : row[2] # e
      BY <1>0, <3>1 DEF RowsTyped
    <3>3. pending' = pending \cup {q("createEnv")} /\ UNCHANGED PrjRows /\ Begins(q("createEnv"))
      BY <2>1, <3>1, <3>2 DEF CreateEnvironment, Ask, Begins
    <3> HIDE DEF q
    <3> QED
      BY <3>3, LinksAsked
  <2>2. CASE DeleteEnvironment(p, e) \/ SetDefaultEnvironment(p, e)
    <3>1. PICK op \in {"deleteEnv", "setDefault"} : pending' = pending \cup {q(op)} /\ UNCHANGED PrjRows
      BY <2>2 DEF DeleteEnvironment, SetDefaultEnvironment, Ask
    <3>2. Begins(q(op))
      BY <3>1 DEF Begins
    <3> HIDE DEF q
    <3> QED
      BY <3>1, <3>2, LinksAsked
  <2> QED
    BY <1>3, <2>1, <2>2
<1>4. ASSUME NEW p \in Projects, NEW a \in Apps, NEW e \in Envs \cup {NoEnv},
             CreateApplication(p, a, e) \/ PatchApplication(p, a, e)
      PROVE  LinksInv'
  <2> DEFINE q(op) == [op |-> op, app |-> a, project |-> p, env |-> e]
  <2>1. PICK op \in {"createApp", "patchApp"} :
          /\ pending' = pending \cup {q(op)} /\ UNCHANGED PrjRows
          /\ op = "createApp" => a \notin DOMAIN app /\ \A s \in pending : s.op \in AppOps => s.app # a
          /\ op = "patchApp" => a \in DOMAIN app
    BY <1>4 DEF CreateApplication, PatchApplication, Ask, AppsOf
  <2>2. Begins(q(op))
    BY <2>1 DEF Begins
  <2> HIDE DEF q
  <2> QED
    BY <2>1, <2>2, LinksAsked
<1>5. ASSUME NEW p \in Projects, NEW a \in Apps,
             DeleteApplication(p, a) \/ \E e \in Envs \cup {NoEnv} : DeployApp(p, a, e)
      PROVE  LinksInv'
  <2> DEFINE q(op) == [op |-> op, app |-> a]
  <2>1. PICK op \in {"deleteApp", "deploy"} : pending' = pending \cup {q(op)} /\ UNCHANGED PrjRows /\ a \in DOMAIN app
    BY <1>5 DEF DeleteApplication, DeployApp, Ask, AppsOf
  <2>2. Begins(q(op))
    BY <2>1 DEF Begins
  <2> HIDE DEF q
  <2> QED
    BY <2>1, <2>2, LinksAsked
<1>6. ASSUME NEW p \in Projects, NEW a \in Apps, NEW v \in Variables, AttachSecret(p, a, v) PROVE LinksInv'
  <2> DEFINE q == [op |-> "attach", app |-> a, var |-> v]
  <2>1. pending' = pending \cup {q} /\ UNCHANGED PrjRows /\ Begins(q)
    BY <1>6 DEF AttachSecret, Ask, Begins, Linked, AppsOf
  <2> HIDE DEF q
  <2> QED
    BY <2>1, LinksAsked
<1>7. ASSUME NEW p \in Projects, ArchiveProject(p) \/ RestoreProject(p) PROVE LinksInv'
  <2>1. UNCHANGED <<pending, defaultEnv, environment, protected, app, variable, attachment>>
    BY <1>7 DEF ArchiveProject, RestoreProject, AtOnce
  <2>2. RowsTyped'
    BY <1>0, <2>1 DEF RowsTyped
  <2> QED
    BY <2>1, <2>2, LinksKept DEF Holds
<1>8. ASSUME NEW p \in Projects, NEW e \in Envs, ProtectEnvironment(p, e) PROVE LinksInv'
  <2>1. UNCHANGED <<pending, defaultEnv, environment, app, variable, attachment>> /\ protected' \subseteq protected \cup {e}
    BY <1>8 DEF ProtectEnvironment, AtOnce
  <2>2. RowsTyped'
    BY <1>0, <2>1 DEF RowsTyped
  <2> QED
    BY <2>1, <2>2, LinksKept DEF Holds
<1>9. ASSUME NEW p \in Projects, NEW v \in Variables, DeleteVariable(p, v) PROVE LinksInv'
  <2>1. /\ UNCHANGED <<pending, defaultEnv, environment, protected, app, attachment>>
        /\ DOMAIN variable' = DOMAIN variable \ {v} /\ \A w \in DOMAIN variable' : variable'[w] = variable[w]
        /\ \A row \in attachment : row[2] # v
    BY <1>9 DEF DeleteVariable, AtOnce, Without
  <2>2. RowsTyped'
    BY <1>0, <2>1 DEF RowsTyped
  <2> QED
    BY <2>1, <2>2, LinksKept DEF Holds
<1>10. ASSUME NEW p \in Projects, NEW a \in Apps, NEW v \in Variables, DetachSecret(p, a, v) PROVE LinksInv'
  <2>1. /\ UNCHANGED <<pending, defaultEnv, environment, protected, app, variable>>
        /\ attachment' \subseteq attachment
    BY <1>10 DEF DetachSecret, AtOnce
  <2>2. RowsTyped'
    BY <1>0, <2>1 DEF RowsTyped
  <2> QED
    BY <2>1, <2>2, LinksKept DEF Holds
<1>11. ASSUME NEW p \in Projects, NEW e \in Envs, NEW v \in Variables, NEW secret \in BOOLEAN,
              PutVariable(p, e, v, secret)
       PROVE  LinksInv'
  <2> DEFINE row == [env |-> e, secret |-> secret]
  <2>1. row \in VariableRow /\ row.env = e
    BY DEF VariableRow
  <2>2. /\ UNCHANGED <<pending, defaultEnv, environment, protected, app, attachment>>
        /\ variable' = WithRow(variable, v, row)
        /\ v \in DOMAIN variable => variable[v].env = e
        /\ \A r \in pending : r.op = "attach" /\ r.var = v => v \in DOMAIN variable
    BY <1>11 DEF PutVariable, AtOnce
  <2> HIDE DEF row
  <2>3. /\ DOMAIN variable' = DOMAIN variable \cup {v} /\ variable'[v] = row
        /\ \A w \in DOMAIN variable : w # v => variable'[w] = variable[w]
    BY <2>2 DEF WithRow
  <2>4. RowsTyped'
    BY <1>0, <2>1, <2>2, <2>3 DEF RowsTyped
  <2>5. OneOwner' /\ EnvsAreNew' /\ AppsAreNew'
    BY <2>2 DEF LinksInv, OneOwner, EnvsAreNew, AppsAreNew
  <2>6. \A a, w : Linked(a, w) /\ (w = v => v \in DOMAIN variable) => Linked(a, w)'
    BY <2>1, <2>2, <2>3 DEF Linked, Holds
  <2>7. SecretsLinked'
    BY <1>0, <2>2, <2>6 DEF LinksInv, SecretsLinked, RowsTyped
  <2> QED
    BY <2>4, <2>5, <2>7 DEF LinksInv
<1>12. ASSUME NEW r \in pending, SecretAttached(r) PROVE LinksInv'
  <2>1. /\ UNCHANGED <<defaultEnv, environment, protected, app, variable>>
        /\ r.op = "attach" /\ pending' \subseteq pending
        /\ attachment' = attachment \/ /\ r.app \in DOMAIN app /\ r.var \in DOMAIN variable
                                       /\ attachment' = attachment \cup {<<r.app, r.var>>}
    BY <1>12 DEF SecretAttached, Done
  <2>2. RowsTyped'
    BY <1>0, <2>1 DEF RowsTyped
  <2>3. OneOwner' /\ EnvsAreNew' /\ AppsAreNew'
    BY <2>1 DEF LinksInv, OneOwner, EnvsAreNew, AppsAreNew
  <2>4. \A a, v : Linked(a, v)' <=> Linked(a, v)
    BY <2>1 DEF Linked, Holds
  <2>5. SecretsLinked'
    BY <2>1, <2>4 DEF LinksInv, SecretsLinked
  <2> QED
    BY <2>2, <2>3, <2>5 DEF LinksInv
<1>13. ASSUME (\E r \in pending : Deployed(r)) \/ \E p \in Projects, a \in Apps : ArchiveApplication(p, a)
       PROVE  LinksInv'
  <2>1. pending' \subseteq pending /\ UNCHANGED <<defaultEnv, environment, protected, variable, attachment>>
    BY <1>13 DEF ArchiveApplication, Deployed, AtOnce, Done
  <2>2. DOMAIN app' = DOMAIN app /\ \A x \in DOMAIN app : app'[x].project = app[x].project
    <3>1. \A x \in DOMAIN app : /\ [app[x] EXCEPT !.archived = ~@].project = app[x].project
                                /\ [app[x] EXCEPT !.deployed = TRUE].project = app[x].project
      BY <1>0 DEF AppRow
    <3>2. app' = app \/ \E y \in DOMAIN app : app' = [app EXCEPT ![y] = [app[y] EXCEPT !.archived = ~@]]
                     \/ app' = [app EXCEPT ![y] = [app[y] EXCEPT !.deployed = TRUE]]
      BY <1>13 DEF ArchiveApplication, Deployed, AppsOf
    <3> QED
      BY <3>1, <3>2
  <2>3. RowsTyped'
    BY <1>0, <2>1, <2>2 DEF RowsTyped
  <2> QED
    BY <2>1, <2>2, <2>3, LinksKept DEF Holds
<1>14. ASSUME NEW r \in pending, ApplicationWritten(r) PROVE LinksInv'
  <2>1. pending' = pending \ {r} /\ UNCHANGED <<defaultEnv, environment, protected, variable, attachment>>
    BY <1>14 DEF ApplicationWritten, Done
  <2>2. CASE app' = app
    <3>1. RowsTyped'
      BY <1>0, <2>1, <2>2 DEF RowsTyped
    <3> QED
      BY <2>1, <2>2, <3>1, LinksKept DEF Holds
  <2> DEFINE row == [project |-> r.project, archived |-> FALSE, env |-> r.env, deployed |-> FALSE]
  <2>3. CASE r.op = "createApp" /\ r.app \notin DOMAIN app /\ app' = WithRow(app, r.app, row)
    <3> HIDE DEF row
    <3>1. DOMAIN app' = DOMAIN app \cup {r.app} /\ \A x \in DOMAIN app : app'[x] = app[x]
      BY <2>3 DEF WithRow
    <3>2. RowsTyped'
      BY <1>0, <2>1, <3>1 DEF RowsTyped
    <3>3. OneOwner' /\ EnvsAreNew'
      BY <2>1 DEF LinksInv, OneOwner, EnvsAreNew
    <3>4. \A s \in pending' : s.op \in AppOps => s.app # r.app
      BY <2>1, <2>3 DEF LinksInv, AppsAreNew
    <3>5. AppsAreNew'
      BY <2>1, <3>1, <3>4 DEF LinksInv, AppsAreNew
    <3>6. \A a, v : a # r.app /\ Linked(a, v) => Linked(a, v)'
      BY <2>1, <3>1 DEF Linked, Holds
    <3>7. SecretsLinked'
      BY <1>0, <2>1, <2>3, <3>4, <3>6 DEF LinksInv, SecretsLinked, RowsTyped
    <3> QED
      BY <3>2, <3>3, <3>5, <3>7 DEF LinksInv
  <2>4. CASE r.app \in DOMAIN app /\ app' = [app EXCEPT ![r.app].env = r.env]
    <3>1. DOMAIN app' = DOMAIN app /\ \A x \in DOMAIN app : app'[x].project = app[x].project
      <4> DEFINE new == [app[r.app] EXCEPT !.env = r.env]
      <4>1. new.project = app[r.app].project
        BY <1>0, <2>4 DEF AppRow
      <4>2. app' = [app EXCEPT ![r.app] = new]
        BY <2>4
      <4> HIDE DEF new
      <4> QED
        BY <4>1, <4>2
    <3>2. RowsTyped'
      BY <1>0, <2>1, <3>1 DEF RowsTyped
    <3> QED
      BY <2>1, <3>1, <3>2, LinksKept DEF Holds
  <2> QED
    BY <1>14, <2>2, <2>3, <2>4 DEF ApplicationWritten
<1>15. ASSUME NEW r \in pending, ApplicationDeleted(r) PROVE LinksInv'
  <2>1. /\ pending' \subseteq pending /\ UNCHANGED <<defaultEnv, environment, protected, variable>>
        /\ DOMAIN app' = DOMAIN app \ {r.app} /\ \A x \in DOMAIN app' : app'[x] = app[x]
        /\ attachment' = {row \in attachment : row[1] # r.app}
    BY <1>15 DEF ApplicationDeleted, Done, Without
  <2>2. RowsTyped'
    BY <1>0, <2>1 DEF RowsTyped
  <2> QED
    BY <2>1, <2>2, LinksKept DEF Holds
<1>16. ASSUME NEW r \in pending, EnvironmentCreated(r) PROVE LinksInv'
  <2>1. /\ pending' = pending \ {r} /\ UNCHANGED <<defaultEnv, protected, app, variable, attachment>>
        /\ r.op = "createEnv"
        /\ environment' = environment \/ /\ r.project \in DOMAIN defaultEnv
                                         /\ environment' = environment \cup {<<r.project, r.env>>}
    BY <1>16 DEF EnvironmentCreated, Done, Exists
  <2>2. r.env \in Envs
    BY <1>0, <2>1, ProjectRequests
  <2>3. /\ \A p \in Projects : r.env # Production[p]
        /\ \A row \in environment : row[2] # r.env
        /\ \A s \in pending : s.op = "createEnv" /\ s.env = r.env => s = r
    BY <2>1 DEF LinksInv, EnvsAreNew
  <2>4. RowsTyped'
    BY <1>0, <2>1, <2>2 DEF RowsTyped
  <2>5. OneOwner'
    BY <2>1, <2>3 DEF LinksInv, OneOwner
  <2>6. EnvsAreNew' /\ AppsAreNew'
    BY <2>1, <2>3 DEF LinksInv, EnvsAreNew, AppsAreNew
  <2>7. \A a, v : Linked(a, v) => Linked(a, v)'
    BY <2>1 DEF Linked, Holds
  <2>8. SecretsLinked'
    BY <2>1, <2>7 DEF LinksInv, SecretsLinked
  <2> QED
    BY <2>4, <2>5, <2>6, <2>8 DEF LinksInv
<1>17. ASSUME NEW r \in pending, EnvironmentDeleted(r) PROVE LinksInv'
  <2> DEFINE gone == {v \in DOMAIN variable : variable[v].env = r.env}
  <2>1. pending' \subseteq pending /\ UNCHANGED <<defaultEnv, app>>
    BY <1>17 DEF EnvironmentDeleted, Done
  <2>2. CASE /\ environment' = environment \ {<<r.project, r.env>>} /\ protected' = protected \ {r.env}
             /\ variable' = Without(variable, gone)
             /\ attachment' = {row \in attachment : row[2] \notin gone}
    <3>1. DOMAIN variable' = DOMAIN variable \ gone /\ \A v \in DOMAIN variable' : variable'[v] = variable[v]
      BY <2>2 DEF Without
    <3>2. \A v \in DOMAIN variable' : variable[v].env # r.env
      BY <3>1
    <3> HIDE DEF gone
    <3>3. RowsTyped'
      BY <1>0, <2>1, <2>2, <3>1 DEF RowsTyped
    <3>4. /\ environment' \subseteq environment /\ attachment' \subseteq attachment
          /\ \A p : \A v \in DOMAIN variable' : Holds(p, variable[v].env) => Holds(p, variable[v].env)'
      BY <2>2, <3>1, <3>2 DEF Holds
    <3> QED
      BY <2>1, <3>1, <3>3, <3>4, LinksKept
  <2>3. CASE UNCHANGED <<environment, protected, variable, attachment>>
    <3>1. RowsTyped'
      BY <1>0, <2>1, <2>3 DEF RowsTyped
    <3> QED
      BY <2>1, <2>3, <3>1, LinksKept DEF Holds
  <2> QED
    BY <1>17, <2>2, <2>3 DEF EnvironmentDeleted
<1>18. ASSUME NEW r \in pending, DefaultEnvironmentSet(r) PROVE LinksInv'
  <2>1. /\ pending' \subseteq pending /\ UNCHANGED <<environment, protected, app, variable, attachment>>
        /\ r.op = "setDefault" /\ DOMAIN defaultEnv' = DOMAIN defaultEnv
        /\ \A p \in DOMAIN defaultEnv : defaultEnv'[p] = IF p = r.project THEN r.env ELSE defaultEnv[p]
    BY <1>18 DEF DefaultEnvironmentSet, Done, Exists
  <2>2. r.env \in Envs
    BY <1>0, <2>1, ProjectRequests
  <2>3. RowsTyped'
    BY <1>0, <2>1, <2>2 DEF RowsTyped
  <2> QED
    BY <2>1, <2>3, LinksKept DEF Holds
<1>19. ASSUME NEW r \in pending, ProjectCreated(r) PROVE LinksInv'
  <2>1. /\ r.op = "createProject" /\ pending' \subseteq pending /\ UNCHANGED <<app, variable, attachment>>
        /\ protected' = protected \cup {Production[r.project]}
        /\ environment' = environment \cup {<<r.project, Production[r.project]>>}
    BY <1>19 DEF ProjectCreated, AccessWritten, Done
  <2>2. r.project \in Projects /\ Production[r.project] \in Envs
    BY <1>0, <2>1, ProjectRequests, ProjectsAssumption
  <2>3. /\ DOMAIN defaultEnv' = DOMAIN defaultEnv \cup {r.project}
        /\ \A p \in DOMAIN defaultEnv' : defaultEnv'[p] = IF p = r.project THEN Production[p] ELSE defaultEnv[p]
    BY <1>19 DEF ProjectCreated, WithRow
  <2>4. RowsTyped'
    BY <1>0, <2>1, <2>2, <2>3 DEF RowsTyped
  <2>5. OneOwner'
    BY <2>1, <2>2, ProjectsAssumption DEF LinksInv, OneOwner
  <2>6. EnvsAreNew' /\ AppsAreNew'
    BY <2>1, <2>2 DEF LinksInv, EnvsAreNew, AppsAreNew
  <2>7. \A a, v : Linked(a, v) => Linked(a, v)'
    BY <2>1 DEF Linked, Holds
  <2>8. SecretsLinked'
    BY <2>1, <2>7 DEF LinksInv, SecretsLinked
  <2> QED
    BY <2>4, <2>5, <2>6, <2>8 DEF LinksInv
<1>20. ASSUME NEW r \in pending, ProjectDeleted(r) PROVE LinksInv'
  <2> DEFINE gone == {v \in DOMAIN variable : Holds(r.project, variable[v].env)}
  <2>1. /\ pending' \subseteq pending
        /\ environment' = {row \in environment : row[1] # r.project}
        /\ protected' \subseteq protected
        /\ attachment' = {row \in attachment : row[1] \notin AppsOf(r.project)}
    BY <1>20 DEF ProjectDeleted, Done
  <2>2. /\ DOMAIN defaultEnv' = DOMAIN defaultEnv \ {r.project}
        /\ \A p \in DOMAIN defaultEnv' : defaultEnv'[p] = defaultEnv[p]
        /\ DOMAIN app' = DOMAIN app \ AppsOf(r.project) /\ \A a \in DOMAIN app' : app'[a] = app[a]
        /\ DOMAIN variable' = DOMAIN variable \ gone /\ \A v \in DOMAIN variable' : variable'[v] = variable[v]
    BY <1>20 DEF ProjectDeleted, Without
  <2>3. \A a \in DOMAIN app' : app[a].project # r.project
    BY <2>2 DEF AppsOf
  <2>4. \A row \in attachment' : row[2] \notin gone
    <3> SUFFICES ASSUME NEW row \in attachment, row[1] \notin AppsOf(r.project),
                        Holds(r.project, variable[row[2]].env) PROVE FALSE
      BY <2>1
    <3>1. row[1] \in DOMAIN app /\ row[2] \in DOMAIN variable
      BY <1>0 DEF RowsTyped
    <3>2. Holds(app[row[1]].project, variable[row[2]].env)
      BY <3>1 DEF LinksInv, SecretsLinked, Linked
    <3>3. app[row[1]].project = r.project
      BY <3>2 DEF LinksInv, OneOwner, Holds
    <3> QED
      BY <3>1, <3>3 DEF AppsOf
  <2> HIDE DEF gone
  <2>5. RowsTyped'
    BY <1>0, <2>1, <2>2, <2>4 DEF RowsTyped
  <2>6. \A p, e : p # r.project /\ Holds(p, e) => Holds(p, e)'
    BY <2>1 DEF Holds
  <2> QED
    BY <2>1, <2>2, <2>3, <2>5, <2>6, LinksKept
<1>21. CASE ProjectsRestart
  <2>1. pending' = {} /\ UNCHANGED <<defaultEnv, environment, protected, app, variable, attachment>>
    BY <1>21 DEF ProjectsRestart, TenancyRestart, prjVars
  <2>2. RowsTyped'
    BY <1>0, <2>1 DEF RowsTyped
  <2> QED
    BY <2>1, <2>2, LinksKept DEF Holds
<1> QED
  <2>1. ASSUME NEW p \in Projects, NEW a \in Apps,
               \/ ArchiveApplication(p, a) \/ DeleteApplication(p, a)
               \/ \E e \in Envs \cup {NoEnv} :
                    CreateApplication(p, a, e) \/ PatchApplication(p, a, e) \/ DeployApp(p, a, e)
               \/ \E v \in Variables : AttachSecret(p, a, v) \/ DetachSecret(p, a, v)
        PROVE  LinksInv'
    BY <1>4, <1>5, <1>6, <1>10, <1>13, <2>1
  <2>2. ASSUME NEW p \in Projects, NEW e \in Envs,
               \/ CreateEnvironment(p, e) \/ ProtectEnvironment(p, e)
               \/ DeleteEnvironment(p, e) \/ SetDefaultEnvironment(p, e)
               \/ \E v \in Variables : \E secret \in BOOLEAN : PutVariable(p, e, v, secret)
        PROVE  LinksInv'
    BY <1>3, <1>8, <1>11, <2>2
  <2> QED
    BY <1>1, <1>2, <1>7, <1>9, <1>12, <1>13, <1>14, <1>15, <1>16, <1>17, <1>18, <1>19, <1>20, <1>21,
       <2>1, <2>2 DEF PrjNext

LEMMA ProjectsImplied == PrjInv /\ LinksInv => PrjTypeOK
<1> SUFFICES ASSUME PrjInv, LinksInv PROVE PrjTypeOK
  OBVIOUS
<1>1. OpenProject \subseteq TenRequest
  BY DEF OpenProject, TenRequest, Modes
<1> QED
  BY <1>1 DEF PrjInv, ProjectsShape, LinksInv, RowsTyped, PrjTypeOK

(* The projects among the other parts.                                     *)
ProjectLinks == moving = "projects" => LinksInv

LEMMA ProjectLinksStart == PlatformInit => ProjectLinks
BY LinksStart DEF PlatformInit, ProjectLinks

LEMMA ProjectLinksStep == AdmInv /\ ProjectLinks /\ [PlatformNext]_PlatformVars => ProjectLinks'
<1> SUFFICES ASSUME AdmInv, ProjectLinks, [PlatformNext]_PlatformVars, moving' = "projects" PROVE LinksInv'
  BY DEF ProjectLinks
<1>0. moving' = moving
  BY DEF PlatformNext, PlatformVars
<1>1. moving = "projects"
  BY <1>0
<1>2. PrjInv /\ LinksInv
  BY <1>1 DEF AdmInv, ProjectLinks
<1>3. CASE PlatformNext
  <2>1. PrjNext
    BY <1>1, <1>3 DEF PlatformNext
  <2> QED
    BY <1>2, <2>1, LinksStep
<1>4. CASE UNCHANGED PlatformVars
  <2>1. UNCHANGED <<pending, defaultEnv, environment, protected, app, variable, attachment>>
    BY <1>4 DEF PlatformVars, tenVars, prjVars
  <2>2. RowsTyped'
    BY <1>2, <2>1 DEF LinksInv, RowsTyped
  <2> QED
    BY <1>2, <2>1, <2>2, LinksKept DEF Holds
<1> QED
  BY <1>3, <1>4

(* Grants: what GaInv leaves out.                                          *)
GrantIdsKept == DOMAIN grant \subseteq GrantIds /\ grantRaced \in BOOLEAN

LEMMA GrantIdsKeptStart == GaInit => GrantIdsKept
<1>1. (CHOOSE g \in GrantIds : TRUE) \in GrantIds
  BY GameServersAssumption
<1> QED
  BY <1>1 DEF GaInit, GrantIdsKept

LEMMA GrantIdsKeptStep == GrantIdsKept /\ [GaNext]_gaVars => GrantIdsKept'
<1> SUFFICES ASSUME GrantIdsKept, [GaNext]_gaVars PROVE GrantIdsKept'
  OBVIOUS
<1>1. ASSUME NEW subject \in Players \cup Crews, NEW r \in GameRoles, PutGrant(subject, r) PROVE GrantIdsKept'
  BY <1>1 DEF PutGrant, GrantIdsKept
<1>2. ASSUME NEW request \in grantRequests, GrantWritten(request) PROVE GrantIdsKept'
  BY <1>2 DEF GrantWritten, GrantIdsKept
<1>3. ASSUME NEW id \in GrantIds, DeleteGrant(id) PROVE GrantIdsKept'
  BY <1>3 DEF DeleteGrant, GrantIdsKept
<1>4. CASE UNCHANGED gaVars
  BY <1>4 DEF gaVars, GrantIdsKept
<1> QED
  BY <1>1, <1>2, <1>3, <1>4 DEF GaNext

(* Each part where it moves.                                               *)
LEMMA TypesImplied ==
  ASSUME moving \in MovingParts,
         WfInv, FcInv, AdmInv, ProjectLinks, EnrInv, GsInv, GaInv, GrantIdsKept, AccInv,
         PagInv, GpInv, RlInv, OsInv, TlsInv, DpInv
  PROVE  PlatformTypeOK
<1>1. WfTypeOK /\ FcTypeOK /\ EnrTypeOK /\ AccTypeOK /\ OsTypeOK
  BY DEF WfInv, FcInv, EnrInv, AccInv, OsInv
<1>2. PagTypeOK /\ GpTypeOK /\ TlsTypeOK /\ DpTypeOK
  BY ApplicationPageImplied, GamePageImplied, CertificatesImplied, DomainsPageImplied
<1>3. moving = "tenancy" => TenTypeOK
  BY DEF AdmInv, TenInv
<1>4. moving = "projects" => PrjTypeOK
  BY ProjectsImplied DEF AdmInv, ProjectLinks
<1>5. GsTypeOK
  BY DEF GsInv, GsShape, GsWorkload, GsCommand, GaInv, GrantIdsKept, GsTypeOK
<1>6. RlTypeOK
  BY DEF RlInv, LimitShape, HitType, RlTypeOK
<1> QED
  <2>1. moving \in {"tenancy"} => moving = "tenancy"
    OBVIOUS
  <2>2. moving \in {"projects"} => moving = "projects"
    OBVIOUS
  <2> QED
    BY <1>1, <1>2, <1>3, <1>4, <1>5, <1>6, <2>1, <2>2, Zenon DEF PlatformTypeOK, Of

(* Every part keeps to its types, for all values of the constants and for  *)
(* all overlaps, crashes and clicks, those after which the other           *)
(* properties promise nothing included: what a row, a request, a cache     *)
(* entry or a form refers to exists, and has the form that the handlers    *)
(* and the pages of apps/api, apps/builder, apps/builder-firecracker and   *)
(* apps/dashboard rely on when they read it.                               *)
THEOREM PlatformTypesHold == PlatformSpec => []PlatformTypeOK
<1> DEFINE Stores == OsInv /\ RlInv
           Games == GsInv /\ GaInv /\ GrantIdsKept
           Access == AdmInv /\ ProjectLinks /\ EnrInv /\ AccInv
           Running == WfInv /\ FcInv
           Pages == TlsInv /\ DpInv /\ PagInv /\ GpInv
           All == moving \in MovingParts /\ Stores /\ Games /\ Access /\ Running /\ Pages
<1>1. PlatformInit => All
  <2> SUFFICES ASSUME PlatformInit PROVE All
    OBVIOUS
  <2>1. /\ WfInit /\ FcInit /\ EnrInit /\ GsInit /\ GaInit /\ AccInit /\ PagInit /\ OsInit /\ TlsInit
        /\ RlInit /\ GpInit /\ DpInit
    BY DEF PlatformInit
  <2>5. moving \in MovingParts
    BY DEF PlatformInit
  <2>2. Stores /\ Games /\ Running
    BY <2>1, BucketsStart, LimitsStart, GamesStart, GrantsStart, GrantIdsKeptStart, WorkflowStart, MachinesStart
  <2>3. Access
    BY <2>1, AdministrationStart, ProjectLinksStart, EnrolmentStart, AccountsStart
  <2>4. Pages
    BY <2>1, CertificatesStart, DomainsPageStart, ApplicationPageStart, GamePageStart
  <2> QED
    BY <2>2, <2>3, <2>4, <2>5
<1>2. All /\ [PlatformNext]_PlatformVars => All'
  <2> SUFFICES ASSUME All, [PlatformNext]_PlatformVars PROVE All'
    OBVIOUS
  <2>0. moving' = moving
    BY DEF PlatformNext, PlatformVars
  <2>1. [OsNext]_osVars /\ [RlNext]_rlVars /\ [GsNext]_gsVars /\ [GaNext]_gaVars
    BY DEF PlatformNext, PlatformVars
  <2>2. [EnrNext]_enrVars /\ [AccNext]_accVars
    BY DEF PlatformNext, PlatformVars
  <2>6. [WfNext]_wfVars /\ [FcNext]_fcVars
    BY DEF PlatformNext, PlatformVars
  <2>7. [TlsNext]_tlsVars /\ [DpNext]_dpVars /\ [PagNext]_pagVars /\ [GpNext]_gpVars
    BY DEF PlatformNext, PlatformVars
  <2>3. Stores' /\ Games'
    BY <2>1, BucketsStep, LimitsStep, GamesStep, GrantsStep, GrantIdsKeptStep
  <2>4. Access'
    BY <2>2, AdministrationStep, ProjectLinksStep, EnrolmentStep, AccountsStep
  <2>5. Running' /\ Pages'
    BY <2>6, <2>7, WorkflowStep, MachinesStep, CertificatesStep, DomainsPageStep, ApplicationPageStep, GamePageStep
  <2> QED
    BY <2>0, <2>3, <2>4, <2>5
<1>3. All => PlatformTypeOK
  BY TypesImplied
<1> QED
  BY <1>1, <1>2, <1>3, PTL DEF PlatformSpec
=============================================================================
