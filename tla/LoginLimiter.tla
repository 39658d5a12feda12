---------------------------- MODULE LoginLimiter ----------------------------
(***************************************************************************)
(* The counting of failed logins of one client, app/services/              *)
(* login_rate_limit.py, under the two login handlers (auth.py and ui.py)   *)
(* that run on a pool of threads.  A handler asks IsBlocked, verifies the *)
(* password (bcrypt, slow), and then counts the failure or resets the      *)
(* count: other handlers run in between.                                   *)
(*                                                                         *)
(* The count lives in Redis if Redis answered when the process started,    *)
(* and for every call that Redis does not answer, in the memory of the     *)
(* process.  The two are never reconciled.                                 *)
(*                                                                         *)
(* Time is kept relative: how long the key still lives, how old a failure  *)
(* is, with Window units in login_window_seconds.                          *)
(***************************************************************************)
EXTENDS Naturals, FiniteSets, Functions

CONSTANTS
  LoginRequests,      (* the threads that run login handlers of the client *)
  LoginMaxAttempts,   (* login_max_attempts                                *)
  Window,       (* login_window_seconds                                    *)
  MaxRestarts,  (* bound: restarts of the API                              *)
  MaxSwitches   (* bound: how often Redis goes away, comes back or breaks  *)
                (* a connection                                            *)

ASSUME LimiterAssumption ==
  /\ {LoginMaxAttempts, Window} \subseteq Nat \ {0}
  /\ {MaxRestarts, MaxSwitches} \subseteq Nat
  /\ IsFiniteSet(LoginRequests)

Ages == 0 .. Window - 1

VARIABLES
  redisUp,      (* Redis answers                                           *)
  hasRedis,     (* self._redis: it answered when the process started       *)
  redisCount,   (* the value of login_fail:client, 0 without the key       *)
  redisTTL,     (* how long the key lives                                  *)
  memory,       (* how many timestamps of an age self._memory holds        *)
  verifying,    (* the requests between IsBlocked and what follows it     *)
  failed,       (* failures answered with 401, by age, since the last      *)
                (* success: what the two counts are about                  *)
  restarts, switches

counts == <<redisCount, redisTTL, memory>>
faults == <<hasRedis, redisUp, restarts, switches>>
loginVars == <<counts, faults, verifying, failed>>

None == [a \in Ages |-> 0]

Total(f) == FoldFunction(+, 0, f)

LoginTypeOK ==
  /\ redisUp \in BOOLEAN /\ hasRedis \in BOOLEAN
  /\ redisCount \in Nat
  /\ redisTTL \in 0 .. Window
  /\ redisCount = 0 <=> redisTTL = 0
  /\ memory \in [Ages -> Nat]
  /\ verifying \subseteq LoginRequests
  /\ failed \in [Ages -> Nat]
  /\ restarts \in 0 .. MaxRestarts
  /\ switches \in 0 .. MaxSwitches

LoginInit ==
  /\ redisUp \in BOOLEAN
  /\ hasRedis = redisUp
  /\ redisCount = 0 /\ redisTTL = 0
  /\ memory = None
  /\ verifying = {}
  /\ failed = None
  /\ restarts = 0
  /\ switches = 0

-----------------------------------------------------------------------------
(* LoginRateLimiter *)

UsesRedis == hasRedis /\ redisUp

IsBlocked ==
  IF UsesRedis THEN redisCount >= LoginMaxAttempts ELSE Total(memory) >= LoginMaxAttempts

(* Faulty variants: the key is only given a time to live when it is new;    *)
(* it is never given one.                                                   *)
CountInFirstWindow ==
  /\ redisCount' = redisCount + 1
  /\ redisTTL' = IF redisCount = 0 THEN Window ELSE redisTTL

CountWithoutExpiry ==
  /\ redisCount' = redisCount + 1
  /\ redisTTL' = redisTTL

(* INCR and EXPIRE in one transaction: every failure renews the key.        *)
CountInRedis ==
  /\ redisCount' = redisCount + 1
  /\ redisTTL' = Window

CountInMemory == memory' = [memory EXCEPT ![0] = @ + 1]

(* Redis may count the failure and the connection break before it answers:  *)
(* then the memory counts it, too.                                          *)
RegisterFailure ==
  \/ UsesRedis /\ CountInRedis /\ UNCHANGED <<memory, switches>>
  \/ /\ UsesRedis /\ switches < MaxSwitches
     /\ CountInRedis /\ CountInMemory /\ switches' = switches + 1
  \/ ~UsesRedis /\ CountInMemory /\ UNCHANGED <<redisCount, redisTTL, switches>>

ResetCount ==
  IF UsesRedis THEN redisCount' = 0 /\ redisTTL' = 0 /\ UNCHANGED memory
               ELSE memory' = None /\ UNCHANGED <<redisCount, redisTTL>>

-----------------------------------------------------------------------------
(* login, ui_login_submit *)

(* Faulty variant: an attempt that is refused counts, too.                  *)
AttemptCounting(r) ==
  /\ r \notin verifying
  /\ \/ ~IsBlocked /\ verifying' = verifying \cup {r} /\ UNCHANGED <<counts, switches>>
     \/ IsBlocked /\ RegisterFailure /\ UNCHANGED verifying
  /\ UNCHANGED <<hasRedis, redisUp, restarts, failed>>

(* A blocked attempt is answered with 429 and leaves the counts alone.      *)
Attempt(r) ==
  /\ r \notin verifying
  /\ ~IsBlocked
  /\ verifying' = verifying \cup {r}
  /\ UNCHANGED <<faults, counts, failed>>

(* An unknown user or a wrong password.                                     *)
Fail(r) ==
  /\ r \in verifying
  /\ RegisterFailure
  /\ failed' = [failed EXCEPT ![0] = @ + 1]
  /\ verifying' = verifying \ {r}
  /\ UNCHANGED <<hasRedis, redisUp, restarts>>

(* The right password of a user who is not active: 403, and no count.       *)
RefuseInactive(r) ==
  /\ r \in verifying
  /\ verifying' = verifying \ {r}
  /\ UNCHANGED <<faults, counts, failed>>

Succeed(r) ==
  /\ r \in verifying
  /\ ResetCount
  /\ failed' = None
  /\ verifying' = verifying \ {r}
  /\ UNCHANGED faults

-----------------------------------------------------------------------------
(* Time, Redis and restarts *)

Older(f) == [a \in Ages |-> IF a = 0 THEN 0 ELSE f[a - 1]]

LoginTick ==
  /\ redisTTL' = IF redisTTL = 0 THEN 0 ELSE redisTTL - 1
  /\ redisCount' = IF redisTTL <= 1 THEN 0 ELSE redisCount
  /\ memory' = Older(memory)
  /\ failed' = Older(failed)
  /\ UNCHANGED <<faults, verifying>>

RedisChanges ==
  /\ switches < MaxSwitches
  /\ switches' = switches + 1
  /\ redisUp' = ~redisUp
  /\ UNCHANGED <<hasRedis, restarts, counts, verifying, failed>>

(* The process and its memory are gone; its successor pings Redis.          *)
Restart ==
  /\ restarts < MaxRestarts
  /\ restarts' = restarts + 1
  /\ hasRedis' = redisUp
  /\ memory' = None
  /\ verifying' = {}
  /\ UNCHANGED <<redisUp, switches, redisCount, redisTTL, failed>>

LoginNext ==
  \/ \E r \in LoginRequests : Attempt(r) \/ Fail(r) \/ RefuseInactive(r) \/ Succeed(r)
  \/ LoginTick
  \/ RedisChanges
  \/ Restart

LoginSpec == LoginInit /\ [][LoginNext]_loginVars

(* Time passes.                                                             *)
LoginFairness == WF_loginVars(LoginTick)

-----------------------------------------------------------------------------
(* Properties *)

(* How far the failures of a window can exceed login_max_attempts: by the   *)
(* handlers that pass IsBlocked together; and whenever Redis changes or the *)
(* memory is emptied, by those that are under way and a count begun anew.   *)
FailuresBounded ==
  LET events == switches + restarts IN
  Total(failed) <= LoginMaxAttempts * (1 + events) + Cardinality(LoginRequests) * events
                   + Cardinality(LoginRequests) - 1

(* A client that is refused is let in again in the end, also if it keeps    *)
(* trying while it is refused, and whatever Redis does: refused attempts do *)
(* not count.                                                               *)
LockoutEnds == IsBlocked ~> ~IsBlocked
=============================================================================
