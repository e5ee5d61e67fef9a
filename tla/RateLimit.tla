------------------------------- MODULE RateLimit -------------------------------
(***************************************************************************)
(* Request limits (packages/core/src/firewall/rate-limit.ts): fixed        *)
(* windows that are counted in PostgreSQL, in Redis or in the process.     *)
(* A request passes the limiters of its path one after the other (apps/    *)
(* api/src/index.ts) and is refused by the first whose count is above the  *)
(* maximum.                                                                *)
(*                                                                         *)
(* A limiter's counter is known by its key; every key has the same window  *)
(* and maximum.  The three stores differ in where a request may be         *)
(* overtaken:                                                              *)
(*   postgres  one upsert, with the time at which the statement began;     *)
(*   redis     INCR, then PEXPIRE by the request that counted 1;           *)
(*   memory    atomic, but the answer is the entry itself, so that a       *)
(*             request reads the count that the entry has by then.         *)
(*                                                                         *)
(* Simplifications: the headers are left out; the clock counts half        *)
(* windows; the windows of a key are numbered.                             *)
(***************************************************************************)
EXTENDS Naturals, Sequences

CONSTANTS
  LimitKeys,   \* keys that the key generators make
  Chains,      \* the limiters of a path: sequences of keys
  Hits,        \* requests that may be under way at once
  MaxHits,     \* the limit
  MaxClock     \* bound: the clock's last reading

ASSUME RateLimitAssumption ==
  /\ MaxHits \in Nat \ {0} /\ MaxClock \in Nat
  /\ \A ch \in Chains : ch \in Seq(LimitKeys) /\ ch # <<>>

VARIABLES
  store,       \* the RateLimitStore in use
  clock,
  counter,     \* of each key: count and resetAt; a window is open when count # 0
  window,      \* history: the number of the key's last window
  hit,         \* the requests
  counted,     \* history: requests counted in each window
  passed,      \* history: requests that passed the limiter in each window
  aliased,     \* history: a request read a count that was raised by another
  cut          \* history: a request ended between INCR and PEXPIRE

rlVars == <<store, clock, counter, window, hit, counted, passed, aliased, cut>>

WindowMs == 2
NoReset == MaxClock + WindowMs + 1          \* a Redis key without an expiry
Windows == 1..MaxClock + 1
NoHit == [pc |-> "idle", chain |-> <<>>, began |-> 0, count |-> 0, window |-> 0, until |-> 0]

RlTypeOK ==
  /\ store \in {"postgres", "redis", "memory"} /\ clock \in 0..MaxClock
  /\ \A k \in LimitKeys : counter[k].count \in Nat /\ counter[k].resetAt \in 0..NoReset
  /\ window \in [LimitKeys -> {0} \cup Windows]
  /\ \A h \in Hits : hit[h].pc \in {"idle", "asked", "unset", "counted"} /\ hit[h].window \in {0} \cup Windows
  /\ {aliased, cut} \subseteq BOOLEAN

RlInit ==
  /\ store \in {"postgres", "redis", "memory"} /\ clock = 0
  /\ counter = [k \in LimitKeys |-> [count |-> 0, resetAt |-> 0]]
  /\ window = [k \in LimitKeys |-> 0]
  /\ hit = [h \in Hits |-> NoHit]
  /\ counted = [k \in LimitKeys |-> [w \in Windows |-> 0]] /\ passed = counted
  /\ aliased = FALSE /\ cut = FALSE

-----------------------------------------------------------------------------
Key(h) == Head(hit[h].chain)

(* The middleware makes the key and calls increment.                       *)
Hit(h, ch) ==
  /\ hit[h].pc = "idle"
  /\ hit' = [hit EXCEPT ![h] = [NoHit EXCEPT !.pc = "asked", !.chain = ch, !.began = clock]]
  /\ UNCHANGED <<store, clock, counter, window, counted, passed, aliased, cut>>

(* The counter is raised, or opened for a new window.                      *)
Raise(h, opens, resetAt, pc) ==
  LET k == Key(h)
      w == IF opens THEN window[k] + 1 ELSE window[k]
      n == IF opens THEN 1 ELSE counter[k].count + 1
  IN  /\ w \in Windows
      /\ window' = [window EXCEPT ![k] = w]
      /\ counter' = [counter EXCEPT ![k] = [count |-> n, resetAt |-> resetAt]]
      /\ hit' = [hit EXCEPT ![h].pc = pc, ![h].count = n, ![h].window = w, ![h].until = resetAt]
      /\ counted' = [counted EXCEPT ![k][w] = @ + 1]

(* Faulty variant of PostgresIncrement: the expired counter is not reset.  *)
PostgresIncrementOn(h) ==
  /\ store = "postgres" /\ hit[h].pc = "asked"
  /\ LET k == Key(h)
         opens == counter[k].count = 0
     IN  Raise(h, opens, IF opens THEN hit[h].began + WindowMs ELSE counter[k].resetAt, "counted")
  /\ UNCHANGED <<store, clock, passed, aliased, cut>>

(* now() is the time at which the statement began.                         *)
PostgresIncrement(h) ==
  /\ store = "postgres" /\ hit[h].pc = "asked"
  /\ LET k == Key(h)
         opens == counter[k].count = 0 \/ counter[k].resetAt <= hit[h].began
     IN  Raise(h, opens, IF opens THEN hit[h].began + WindowMs ELSE counter[k].resetAt, "counted")
  /\ UNCHANGED <<store, clock, passed, aliased, cut>>

(* INCR of a key that does not exist makes one without an expiry.          *)
RedisIncr(h) ==
  /\ store = "redis" /\ hit[h].pc = "asked"
  /\ LET opens == counter[Key(h)].count = 0
     IN  Raise(h, opens, IF opens THEN NoReset ELSE counter[Key(h)].resetAt,
               IF opens THEN "unset" ELSE "counted")
  /\ UNCHANGED <<store, clock, passed, aliased, cut>>

RedisPexpire(h) ==
  /\ hit[h].pc = "unset"
  /\ counter' = [counter EXCEPT ![Key(h)].resetAt = clock + WindowMs]
  /\ hit' = [hit EXCEPT ![h].pc = "counted"]
  /\ UNCHANGED <<store, clock, window, counted, passed, aliased, cut>>

(* PEXPIRE fails or the process ends: the request does, the key stays.     *)
RedisCut(h) ==
  /\ hit[h].pc = "unset"
  /\ hit' = [hit EXCEPT ![h] = NoHit]
  /\ cut' = TRUE
  /\ UNCHANGED <<store, clock, counter, window, counted, passed, aliased>>

(* Requests that hold the entry see its count grow.                        *)
MemoryIncrement(h) ==
  LET k == Key(h)
      opens == counter[k].count = 0 \/ counter[k].resetAt <= clock
      w == IF opens THEN window[k] + 1 ELSE window[k]
      holding == {o \in Hits \ {h} : hit[o].pc = "counted" /\ Key(o) = k /\ hit[o].window = w}
      n == IF opens THEN 1 ELSE counter[k].count + 1
  IN  /\ store = "memory" /\ hit[h].pc = "asked" /\ w \in Windows
      /\ window' = [window EXCEPT ![k] = w]
      /\ counter' = [counter EXCEPT ![k] =
                       [count |-> n, resetAt |-> IF opens THEN clock + WindowMs ELSE @.resetAt]]
      /\ hit' = [o \in Hits |->
           IF o = h THEN [hit[o] EXCEPT !.pc = "counted", !.count = n, !.window = w,
                                         !.until = counter'[k].resetAt]
           ELSE IF o \in holding THEN [hit[o] EXCEPT !.count = n] ELSE hit[o]]
      /\ counted' = [counted EXCEPT ![k][w] = @ + 1]
      /\ aliased' = (aliased \/ holding # {})
      /\ UNCHANGED <<store, clock, passed, cut>>

(* The limiter decides; a request that passes goes on to the next one.     *)
Decide(h) ==
  /\ hit[h].pc = "counted"
  /\ \/ /\ hit[h].count > MaxHits
        /\ hit' = [hit EXCEPT ![h] = NoHit]
        /\ UNCHANGED passed
     \/ /\ hit[h].count <= MaxHits
        /\ passed' = [passed EXCEPT ![Key(h)][hit[h].window] = @ + 1]
        /\ hit' = [hit EXCEPT ![h] =
             IF Len(@.chain) = 1 THEN NoHit
             ELSE [NoHit EXCEPT !.pc = "asked", !.chain = Tail(hit[h].chain), !.began = clock]]
  /\ UNCHANGED <<store, clock, counter, window, counted, aliased, cut>>

Expired(k) == counter[k].count # 0 /\ counter[k].resetAt <= clock

(* MemoryStore.cleanup on its timer.                                       *)
Cleanup ==
  /\ store = "memory" /\ \E k \in LimitKeys : Expired(k)
  /\ counter' = [k \in LimitKeys |-> IF Expired(k) THEN [count |-> 0, resetAt |-> 0] ELSE counter[k]]
  /\ UNCHANGED <<store, clock, window, hit, counted, passed, aliased, cut>>

(* Time passes; Redis drops the keys that expire.                          *)
RlTick ==
  /\ clock < MaxClock
  /\ clock' = clock + 1
  /\ counter' = [k \in LimitKeys |->
       IF store = "redis" /\ counter[k].resetAt <= clock' THEN [count |-> 0, resetAt |-> 0] ELSE counter[k]]
  /\ UNCHANGED <<store, window, hit, counted, passed, aliased, cut>>

RlNext ==
  \/ RlTick \/ Cleanup
  \/ \E h \in Hits :
       \/ \E ch \in Chains : Hit(h, ch)
       \/ PostgresIncrement(h) \/ RedisIncr(h) \/ RedisPexpire(h) \/ RedisCut(h)
       \/ MemoryIncrement(h) \/ Decide(h)

-----------------------------------------------------------------------------
(* "It keeps rate-limit counters consistent across replicas" (apps/api/    *)
(* src/index.ts:41).  However requests overtake each other around the end  *)
(* of a window, a limiter passes no more than its maximum in one, and      *)
(* refuses nobody before: once no request is under way, it has passed      *)
(* those it counted, up to the maximum.  (With the store in memory the     *)
(* second half takes that no two requests read one entry.)  Nobody is      *)
(* counted in a window that had ended before the request began.  And a     *)
(* window ends: its end lies at most one window ahead, unless PEXPIRE was  *)
(* never reached.                                                          *)
RateLimitSound ==
  LET least(a, b) == IF a < b THEN a ELSE b
      quiet == \A h \in Hits : hit[h].pc = "idle"
  IN  /\ \A k \in LimitKeys, w \in Windows : passed[k][w] <= MaxHits
      /\ quiet /\ ~aliased /\ ~cut =>
           \A k \in LimitKeys, w \in Windows : passed[k][w] = least(counted[k][w], MaxHits)
      /\ \A h \in Hits : hit[h].pc = "counted" => hit[h].began < hit[h].until
      /\ quiet /\ ~cut => \A k \in LimitKeys : counter[k].resetAt <= clock + WindowMs
=============================================================================
