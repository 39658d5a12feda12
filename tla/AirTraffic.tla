----------------------------- MODULE AirTraffic -----------------------------
(***************************************************************************)
(* GET /v1/air-traffic/opensky (app/services/opensky.py): the aircraft of  *)
(* a provider on the internet, read with a bearer token.  A snapshot and a *)
(* token are kept in two variables of the process, without a lock, while   *)
(* the handlers run on a pool of threads: a request looks for a snapshot,  *)
(* then for a token, asks for what is missing, and stores what it gets.    *)
(*                                                                         *)
(* OpenSky itself is what the code makes of its answers: it may be out of  *)
(* reach, answer something else than what is asked for, and stop accepting *)
(* a token before its time.  A request that is refused for the             *)
(* configuration (503) has no further effect and is left out.              *)
(*                                                                         *)
(* Time is kept relative: how old data is, how long it is kept.            *)
(* AirTimeout is a total for a request.  The code gives httpx              *)
(* opensky_timeout_seconds for each connect and each read: an answer that  *)
(* trickles in for longer is not among the behaviours.                     *)
(***************************************************************************)
EXTENDS Naturals

CONSTANTS
  AirRequests,  (* the threads that run the handler                        *)
  CacheTTL,     (* opensky_cache_ttl_seconds, 0: nothing is kept           *)
  TokenTTL,     (* expires_in of a token less the margin                   *)
  AirTimeout,   (* the time a request takes, which is how old an answer is *)
  MaxTokens     (* bound: tokens that are ever issued                      *)

ASSUME AirAssumption ==
  /\ {CacheTTL, AirTimeout, MaxTokens} \subseteq Nat
  /\ TokenTTL \in Nat \ {0}

NoToken == 0
Tokens  == 1 .. MaxTokens

(* One more than any age the properties allow: ages are counted up to it.   *)
TooOld == CacheTTL + AirTimeout + 1
AirAges == 0 .. TooOld

VARIABLES
  credentials,  (* opensky_client_id and _secret are set                   *)
  reachable,    (* OpenSky can be reached                                  *)
  lastToken,    (* tokens issued so far                                    *)
  accepted,     (* the tokens it accepts                                   *)
  token,        (* _token_cache: the token, or NoToken                     *)
  tokenLeft,    (* and how long it is used                                 *)
  snapAge,      (* _aircraft_cache: how old the data is                    *)
  snapLeft,     (* and how long it is used, 0 without any                  *)
  air           (* what each request has got, and where it is              *)

provider  == <<credentials, reachable, lastToken, accepted>>
tokenVars == <<token, tokenLeft>>
snapVars  == <<snapAge, snapLeft>>
airVars   == <<provider, tokenVars, snapVars, air>>

(* An answer, or where the request is: about to test the cached token, to   *)
(* use it, to ask for one, to keep it, to read the aircraft, to store them. *)
AirPCs == {"data", "502", "500", "test", "use", "ask", "keep", "read", "store"}

(* token: what it sends; tries: reads so far; lost: whether a token was     *)
(* revoked, or a revoked one kept, since it started; age: of the data that  *)
(* it has or has answered with.                                             *)
AirState == [pc : AirPCs, token : Tokens \cup {NoToken}, tries : 0 .. 2,
             lost : BOOLEAN, age : AirAges]

Answered == {"data", "502", "500"}
Resting  == [pc |-> "data", token |-> NoToken, tries |-> 0, lost |-> FALSE, age |-> 0]

AirTypeOK ==
  /\ credentials \in BOOLEAN /\ reachable \in BOOLEAN
  /\ lastToken \in 0 .. MaxTokens
  /\ accepted \subseteq 1 .. lastToken
  /\ token \in 0 .. lastToken
  /\ tokenLeft \in 0 .. TokenTTL
  /\ snapAge \in AirAges
  /\ snapLeft \in 0 .. CacheTTL
  /\ air \in [AirRequests -> AirState]

AirInit ==
  /\ credentials \in BOOLEAN
  /\ reachable \in BOOLEAN
  /\ lastToken = 0 /\ accepted = {}
  /\ token = NoToken /\ tokenLeft = 0
  /\ snapAge = 0 /\ snapLeft = 0
  /\ air = [r \in AirRequests |-> Resting]

At(r, pc) == air[r].pc = pc

Move(r, record) == air' = [air EXCEPT ![r] = record]

Answer(r, code) ==
  Move(r, [Resting EXCEPT !.pc = code, !.age = IF code = "data" THEN air[r].age ELSE 0])

-----------------------------------------------------------------------------
(* fetch_opensky_aircraft *)

(* Faulty variant: a hit keeps the snapshot for longer.                     *)
AirHitKeeping(r) ==
  /\ air[r].pc \in Answered
  /\ snapLeft > 0
  /\ snapLeft' = CacheTTL
  /\ Move(r, [Resting EXCEPT !.age = snapAge])
  /\ UNCHANGED <<provider, tokenVars, snapAge>>

AirHit(r) ==
  /\ air[r].pc \in Answered
  /\ snapLeft > 0
  /\ Move(r, [Resting EXCEPT !.age = snapAge])
  /\ UNCHANGED <<provider, tokenVars, snapVars>>

(* Without credentials no token is sent.                                    *)
AirMiss(r) ==
  /\ air[r].pc \in Answered
  /\ snapLeft = 0
  /\ Move(r, [Resting EXCEPT !.pc = IF credentials THEN "test" ELSE "read", !.tries = 1])
  /\ UNCHANGED <<provider, tokenVars, snapVars>>

(* _get_access_token tests the cached token in one statement ...            *)
TestToken(r) ==
  /\ At(r, "test")
  /\ Move(r, [air[r] EXCEPT !.pc = IF token # NoToken /\ tokenLeft > 0
                                   THEN "use" ELSE "ask"])
  /\ UNCHANGED <<provider, tokenVars, snapVars>>

(* ... and reads it in the next, from the variable: None has no token.      *)
UseToken(r) ==
  /\ At(r, "use")
  /\ IF token # NoToken
     THEN Move(r, [air[r] EXCEPT !.pc = "read", !.token = token])
     ELSE Answer(r, "500")
  /\ UNCHANGED <<provider, tokenVars, snapVars>>

(* The token's way back may be slow.                                        *)
AskToken(r) ==
  /\ At(r, "ask")
  /\ reachable /\ lastToken < MaxTokens
  /\ lastToken' = lastToken + 1
  /\ accepted' = accepted \cup {lastToken'}
  /\ Move(r, [air[r] EXCEPT !.pc = "keep", !.token = lastToken'])
  /\ UNCHANGED <<credentials, reachable, tokenVars, snapVars>>

(* What happens to the requests that are running when C holds.              *)
Disturb(C, requests) ==
  [q \in AirRequests |-> IF C /\ requests[q].pc \notin Answered
                         THEN [requests[q] EXCEPT !.lost = TRUE] ELSE requests[q]]

KeepToken(r) ==
  /\ At(r, "keep")
  /\ token' = air[r].token /\ tokenLeft' = TokenTTL
  /\ air' = Disturb(air[r].token \notin accepted,
                    [air EXCEPT ![r] = [air[r] EXCEPT !.pc = "read"]])
  /\ UNCHANGED <<provider, snapVars>>

(* No answer, no JSON or no token in it.                                    *)
AskTokenFails(r) ==
  /\ At(r, "ask")
  /\ Answer(r, "502")
  /\ UNCHANGED <<provider, tokenVars, snapVars>>

(* JSON that is not an object: it has no method get.                        *)
AskTokenGarbled(r) ==
  /\ At(r, "ask")
  /\ reachable
  /\ Answer(r, "500")
  /\ UNCHANGED <<provider, tokenVars, snapVars>>

TokenRefused(r) == credentials /\ air[r].token \notin accepted

ReadStates(r) ==
  /\ At(r, "read")
  /\ reachable /\ ~TokenRefused(r)
  /\ Move(r, [air[r] EXCEPT !.pc = "store", !.age = 0])
  /\ UNCHANGED <<provider, tokenVars, snapVars>>

(* Faulty variant: the second try finds the same token.                     *)
RetryKeepingToken(r) ==
  /\ At(r, "read")
  /\ reachable /\ TokenRefused(r) /\ air[r].tries = 1
  /\ Move(r, [air[r] EXCEPT !.pc = "test", !.tries = 2])
  /\ UNCHANGED <<provider, tokenVars, snapVars>>

(* The first 401 clears the cached token, whichever it is by now.           *)
Retry(r) ==
  /\ At(r, "read")
  /\ reachable /\ TokenRefused(r) /\ air[r].tries = 1
  /\ token' = NoToken /\ tokenLeft' = 0
  /\ Move(r, [air[r] EXCEPT !.pc = "test", !.tries = 2])
  /\ UNCHANGED <<provider, snapVars>>

(* The second 401.                                                          *)
GiveUp(r) ==
  /\ At(r, "read")
  /\ reachable /\ TokenRefused(r) /\ air[r].tries = 2
  /\ Answer(r, "502")
  /\ UNCHANGED <<provider, tokenVars, snapVars>>

(* Out of reach, another status, or no JSON.                                *)
ReadStatesFails(r) ==
  /\ At(r, "read")
  /\ ~(reachable /\ TokenRefused(r))
  /\ Answer(r, "502")
  /\ UNCHANGED <<provider, tokenVars, snapVars>>

(* The clock starts when the answer is stored, not when it was current.     *)
StoreStates(r) ==
  /\ At(r, "store")
  /\ snapAge' = IF CacheTTL = 0 THEN 0 ELSE air[r].age
  /\ snapLeft' = CacheTTL
  /\ Answer(r, "data")
  /\ UNCHANGED <<provider, tokenVars>>

-----------------------------------------------------------------------------
(* OpenSky and time *)

RevokeToken(t) ==
  /\ t \in accepted
  /\ accepted' = accepted \ {t}
  /\ air' = Disturb(TRUE, air)
  /\ UNCHANGED <<credentials, reachable, lastToken, tokenVars, snapVars>>

ReachabilityChanges ==
  /\ reachable' = ~reachable
  /\ UNCHANGED <<credentials, lastToken, accepted, tokenVars, snapVars, air>>

(* Lowered(n): what is left of n.                                           *)
Lowered(n) == IF n = 0 THEN 0 ELSE n - 1

(* Bound: an answer is stored, or given up, within AirTimeout.              *)
AirTick ==
  /\ \A r \in AirRequests : At(r, "store") => air[r].age < AirTimeout
  /\ tokenLeft' = Lowered(tokenLeft)
  /\ snapLeft' = Lowered(snapLeft)
  /\ snapAge' = IF snapAge = TooOld \/ snapLeft = 0 THEN snapAge ELSE snapAge + 1
  /\ air' = [r \in AirRequests |-> IF At(r, "store") THEN [air[r] EXCEPT !.age = @ + 1]
                                   ELSE air[r]]
  /\ UNCHANGED <<provider, token>>

AirNext ==
  \/ \E r \in AirRequests :
       \/ AirHit(r) \/ AirMiss(r)
       \/ TestToken(r) \/ UseToken(r) \/ AskToken(r) \/ KeepToken(r)
       \/ AskTokenFails(r) \/ AskTokenGarbled(r)
       \/ ReadStates(r) \/ Retry(r) \/ GiveUp(r) \/ ReadStatesFails(r)
       \/ StoreStates(r)
  \/ \E t \in Tokens : RevokeToken(t)
  \/ ReachabilityChanges
  \/ AirTick

AirSpec == AirInit /\ [][AirNext]_airVars

-----------------------------------------------------------------------------
(* Properties *)

(* What the map shows is at most CacheTTL and one slow answer old, whichever *)
(* request stored it, also when a slow answer replaces a newer one.         *)
AircraftAreFresh ==
  \A r \in AirRequests : At(r, "data") => air[r].age < TooOld

(* One retry is enough: a request is refused twice for its token only if,   *)
(* while it ran, OpenSky revoked a token or another request kept one that   *)
(* was revoked on its way.  Otherwise requests that clear and keep tokens   *)
(* for one another never hand it a refused token again.                     *)
OneRetryIsEnough ==
  [][\A r \in AirRequests : GiveUp(r) => air[r].lost]_airVars
=============================================================================
