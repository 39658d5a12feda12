---------------------------- MODULE PartsProofs ----------------------------
(***************************************************************************)
(* What holds of the parts that share no state: the cache of aircraft, for *)
(* every number of threads, tokens and times to live; the login limiter,   *)
(* for every number of threads, limit and window; the playback of the      *)
(* flights, for every map of distances and step of time; the field layers, *)
(* for every set of rings; the link monitor, for every set of drones and   *)
(* alerts; and the database schema, for every way through its revisions.   *)
(* With EdgeSpoolProofs, the types of all parts.                           *)
(***************************************************************************)
EXTENDS MCParts, LinkMonitor, EdgeSpoolProofs,
        FiniteSetTheorems, SequenceTheorems, WellFoundedInduction, TLAPS

-----------------------------------------------------------------------------
(* Induction over the natural numbers, in sets *)

LEMMA Counting ==
  ASSUME NEW T, 0 \in T, \A n \in Nat : n \in T => n + 1 \in T
  PROVE  \A n \in Nat : n \in T
<1> SUFFICES ASSUME NEW n \in Nat, n \notin T PROVE FALSE
  OBVIOUS
<1> DEFINE R == OpToRel(<, Nat)
           Missing == Nat \ T
<1>1. IsWellFoundedOn(R, Nat)
  BY NatLessThanWellFounded
<1>2. \A x, y \in Nat : y < x => <<y, x>> \in R
  BY DEF OpToRel
<1> HIDE DEF R
<1>3. PICK m \in Missing : \A y \in Missing : ~ (<<y, m>> \in R)
  BY <1>1, WFMin
<1>4. m # 0 /\ m \in Nat /\ m \notin T
  BY <1>3
<1>5. m - 1 \in Nat /\ m - 1 < m /\ (m - 1) + 1 = m
  BY <1>4
<1>6. m - 1 \in T
  BY <1>2, <1>3, <1>5
<1> QED
  BY <1>4, <1>5, <1>6

(* A nonempty set of natural numbers has a least member.                    *)
LEMMA LeastMember ==
  ASSUME NEW S \in SUBSET Nat, S # {}
  PROVE  \E m \in S : \A n \in S : m <= n
<1> DEFINE R == OpToRel(<, Nat)
<1>1. IsWellFoundedOn(R, Nat)
  BY NatLessThanWellFounded
<1>2. \A x, y \in Nat : y < x => <<y, x>> \in R
  BY DEF OpToRel
<1> HIDE DEF R
<1>3. PICK m \in S : \A y \in S : ~ (<<y, m>> \in R)
  BY <1>1, WFMin
<1>4. \A n \in S : m \in Nat /\ n \in Nat /\ ~ (n < m)
  BY <1>2, <1>3
<1>5. \A n \in S : m <= n
  BY <1>4
<1> QED
  BY <1>3, <1>5

-----------------------------------------------------------------------------
(* The cache of aircraft *)

(* What a request keeps as the token has been issued.                       *)
TokensAreIssued == \A r \in AirRequests : air[r].token \in 0 .. lastToken

(* Data and what is left of its time add up to at most a time to live and   *)
(* a slow answer: without it a snapshot in use could be older than that.    *)
SnapshotInTime == snapLeft > 0 => snapAge + snapLeft <= CacheTTL + AirTimeout

AnswersInTime ==
  \A r \in AirRequests : At(r, "store") => air[r].age <= AirTimeout

AirInv ==
  AirTypeOK /\ TokensAreIssued /\ SnapshotInTime /\ AnswersInTime /\ AircraftAreFresh

(* After a 401 the cached token has been cleared; whatever a request that   *)
(* has met no revoked token finds there since, or gets itself, is accepted. *)
SecondTry(r) == air[r].pc \notin Answered /\ air[r].tries = 2 /\ ~air[r].lost

CachedTokenGood ==
  (\E r \in AirRequests : SecondTry(r)) /\ token # NoToken => token \in accepted

HeldTokenGood ==
  \A r \in AirRequests :
    SecondTry(r) /\ air[r].pc \in {"keep", "read"} => air[r].token \in accepted

-----------------------------------------------------------------------------
(* Typing *)

LEMMA AgesTyped == AirAges \subseteq Nat /\ 0 \in AirAges /\ TooOld \in AirAges
BY AirAssumption DEF AirAges, TooOld

LEMMA RestingTyped == Resting \in AirState
BY AgesTyped DEF Resting, AirState, AirPCs

(* An answer is a resting request with a code and an age.                   *)
LEMMA AnswerTyped ==
  ASSUME NEW code \in Answered, NEW old \in AirAges
  PROVE  [Resting EXCEPT !.pc = code, !.age = old] \in AirState
BY RestingTyped DEF AirState, AirPCs, Answered

(* Storing a typed record keeps the requests typed.                         *)
LEMMA MoveTyped ==
  ASSUME AirTypeOK, NEW r \in AirRequests, NEW s \in AirState, Move(r, s)
  PROVE  air' \in [AirRequests -> AirState]
BY DEF AirTypeOK, Move

LEMMA AnswerMoves ==
  ASSUME AirTypeOK, NEW r \in AirRequests, NEW code \in Answered, Answer(r, code)
  PROVE  air' \in [AirRequests -> AirState]
<1> DEFINE old == IF code = "data" THEN air[r].age ELSE 0
<1>1. old \in AirAges
  BY AgesTyped DEF AirTypeOK, AirState
<1>2. Move(r, [Resting EXCEPT !.pc = code, !.age = old])
  BY DEF Answer
<1> QED
  BY <1>1, <1>2, AnswerTyped, MoveTyped

LEMMA DisturbTyped ==
  ASSUME NEW requests \in [AirRequests -> AirState], NEW C \in BOOLEAN
  PROVE  Disturb(C, requests) \in [AirRequests -> AirState]
BY DEF Disturb, AirState

LEMMA AirInitTyped == AirInit => AirTypeOK
BY RestingTyped, AgesTyped, AirAssumption DEF AirInit, AirTypeOK, NoToken

(* One step per action.                                                     *)
LEMMA AirStepTyped == AirTypeOK /\ TokensAreIssued /\ [AirNext]_airVars => AirTypeOK'
<1> SUFFICES ASSUME AirTypeOK, TokensAreIssued, [AirNext]_airVars PROVE AirTypeOK'
  OBVIOUS
<1> USE AirAssumption
<1> DEFINE Rest == /\ credentials' \in BOOLEAN /\ reachable' \in BOOLEAN
                   /\ lastToken' \in 0 .. MaxTokens /\ accepted' \subseteq 1 .. lastToken'
                   /\ token' \in 0 .. lastToken' /\ tokenLeft' \in 0 .. TokenTTL
                   /\ snapAge' \in AirAges /\ snapLeft' \in 0 .. CacheTTL
<1>0. SUFFICES Rest /\ air' \in [AirRequests -> AirState]
  BY DEF AirTypeOK
<1>s. ASSUME UNCHANGED <<provider, tokenVars, snapVars>> PROVE Rest
  BY <1>s DEF AirTypeOK, provider, tokenVars, snapVars
<1>1. CASE UNCHANGED airVars
  BY <1>1, <1>s DEF airVars, AirTypeOK
<1>2. ASSUME NEW r \in AirRequests, AirHit(r) PROVE Rest /\ air' \in [AirRequests -> AirState]
  <2>1. [Resting EXCEPT !.age = snapAge] \in AirState
    BY RestingTyped DEF AirState, AirTypeOK
  <2> QED
    BY <1>2, <1>s, <2>1, MoveTyped DEF AirHit
<1>3. ASSUME NEW r \in AirRequests, AirMiss(r) PROVE Rest /\ air' \in [AirRequests -> AirState]
  <2> DEFINE pc == IF credentials THEN "test" ELSE "read"
  <2>t. 1 \in 0 .. 2
    OBVIOUS
  <2>1. [Resting EXCEPT !.pc = pc, !.tries = 1] \in AirState
    BY RestingTyped, <2>t DEF AirState, AirPCs
  <2>2. Move(r, [Resting EXCEPT !.pc = pc, !.tries = 1])
    BY <1>3 DEF AirMiss
  <2> QED
    BY <1>3, <1>s, <2>1, <2>2, MoveTyped DEF AirMiss
<1>r. ASSUME NEW r \in AirRequests PROVE air[r] \in AirState
  BY DEF AirTypeOK
<1>4. ASSUME NEW r \in AirRequests, TestToken(r) PROVE Rest /\ air' \in [AirRequests -> AirState]
  <2> DEFINE pc == IF token # NoToken /\ tokenLeft > 0 THEN "use" ELSE "ask"
  <2>1. [air[r] EXCEPT !.pc = pc] \in AirState
    BY <1>r DEF AirState, AirPCs
  <2>2. Move(r, [air[r] EXCEPT !.pc = pc])
    BY <1>4 DEF TestToken
  <2> QED
    BY <1>4, <1>s, <2>1, <2>2, MoveTyped DEF TestToken
<1>5. ASSUME NEW r \in AirRequests, UseToken(r) PROVE Rest /\ air' \in [AirRequests -> AirState]
  <2>1. CASE token # NoToken
    <3>1. token \in Tokens
      BY <2>1 DEF AirTypeOK, NoToken, Tokens
    <3>2. [air[r] EXCEPT !.pc = "read", !.token = token] \in AirState
      BY <1>r, <3>1 DEF AirState, AirPCs
    <3> QED
      BY <1>5, <1>s, <2>1, <3>2, MoveTyped DEF UseToken
  <2>2. CASE token = NoToken
    BY <1>5, <1>s, <2>2, AnswerMoves DEF UseToken, Answered
  <2> QED
    BY <2>1, <2>2
<1>6. ASSUME NEW r \in AirRequests, AskToken(r) PROVE Rest /\ air' \in [AirRequests -> AirState]
  <2>1. lastToken' \in Tokens
    BY <1>6 DEF AskToken, AirTypeOK, Tokens
  <2>2. [air[r] EXCEPT !.pc = "keep", !.token = lastToken'] \in AirState
    BY <1>r, <2>1 DEF AirState, AirPCs
  <2>3. Rest
    BY <1>6 DEF AskToken, AirTypeOK, tokenVars, snapVars
  <2> QED
    BY <1>6, <2>2, <2>3, MoveTyped DEF AskToken
<1>7. ASSUME NEW r \in AirRequests, KeepToken(r) PROVE Rest /\ air' \in [AirRequests -> AirState]
  <2>1. [air EXCEPT ![r] = [air[r] EXCEPT !.pc = "read"]] \in [AirRequests -> AirState]
    BY <1>r DEF AirState, AirPCs, AirTypeOK
  <2>2. air' \in [AirRequests -> AirState]
    BY <1>7, <2>1, DisturbTyped DEF KeepToken
  <2>3. token' \in 0 .. lastToken /\ tokenLeft' \in 0 .. TokenTTL
    BY <1>7 DEF KeepToken, TokensAreIssued
  <2> QED
    BY <1>7, <2>2, <2>3 DEF KeepToken, AirTypeOK, provider, snapVars
<1>8. ASSUME NEW r \in AirRequests,
             AskTokenFails(r) \/ AskTokenGarbled(r) \/ GiveUp(r) \/ ReadStatesFails(r)
      PROVE  Rest /\ air' \in [AirRequests -> AirState]
  BY <1>8, <1>s, AnswerMoves
  DEF AskTokenFails, AskTokenGarbled, GiveUp, ReadStatesFails, Answered
<1>9. ASSUME NEW r \in AirRequests, ReadStates(r) PROVE Rest /\ air' \in [AirRequests -> AirState]
  <2>1. [air[r] EXCEPT !.pc = "store", !.age = 0] \in AirState
    BY <1>r, AgesTyped DEF AirState, AirPCs
  <2> QED
    BY <1>9, <1>s, <2>1, MoveTyped DEF ReadStates
<1>10. ASSUME NEW r \in AirRequests, Retry(r) PROVE Rest /\ air' \in [AirRequests -> AirState]
  <2>t. 2 \in 0 .. 2
    OBVIOUS
  <2>1. [air[r] EXCEPT !.pc = "test", !.tries = 2] \in AirState
    BY <1>r, <2>t DEF AirState, AirPCs
  <2> QED
    BY <1>10, <2>1, MoveTyped DEF Retry, AirTypeOK, NoToken, provider, snapVars
<1>11. ASSUME NEW r \in AirRequests, StoreStates(r) PROVE Rest /\ air' \in [AirRequests -> AirState]
  <2>1. snapAge' \in AirAges /\ snapLeft' \in 0 .. CacheTTL
    BY <1>11, <1>r, AgesTyped DEF StoreStates, AirState
  <2> QED
    BY <1>11, <2>1, AnswerMoves DEF StoreStates, AirTypeOK, provider, tokenVars, Answered
<1>12. ASSUME NEW t \in Tokens, RevokeToken(t) PROVE Rest /\ air' \in [AirRequests -> AirState]
  BY <1>12, DisturbTyped DEF RevokeToken, AirTypeOK, tokenVars, snapVars
<1>13. CASE ReachabilityChanges
  BY <1>13 DEF ReachabilityChanges, AirTypeOK, tokenVars, snapVars
<1>14. CASE AirTick
  <2>1. ASSUME NEW r \in AirRequests, At(r, "store") PROVE [air[r] EXCEPT !.age = @ + 1] \in AirState
    BY <1>14, <2>1, <1>r DEF AirTick, AirState, AirAges, TooOld
  <2>2. air' \in [AirRequests -> AirState]
    BY <1>14, <1>r, <2>1 DEF AirTick
  <2>3. snapAge' \in AirAges
    BY <1>14 DEF AirTick, AirTypeOK, AirAges, TooOld
  <2>4. tokenLeft' \in 0 .. TokenTTL /\ snapLeft' \in 0 .. CacheTTL
    BY <1>14 DEF AirTick, AirTypeOK, Lowered
  <2> QED
    BY <1>14, <2>2, <2>3, <2>4 DEF AirTick, AirTypeOK, provider
<1> QED
  BY <1>1, <1>2, <1>3, <1>4, <1>5, <1>6, <1>7, <1>8, <1>9, <1>10, <1>11, <1>12, <1>13, <1>14
  DEF AirNext

LEMMA MoveIssued ==
  ASSUME AirTypeOK, TokensAreIssued, NEW r \in AirRequests, NEW s, Move(r, s),
         s.token \in 0 .. lastToken', lastToken' \in Nat, lastToken <= lastToken'
  PROVE  TokensAreIssued'
BY DEF AirTypeOK, TokensAreIssued, Move

LEMMA AnswerIssued ==
  ASSUME AirTypeOK, TokensAreIssued, NEW r \in AirRequests, NEW code, Answer(r, code),
         lastToken' = lastToken
  PROVE  TokensAreIssued'
<1>1. lastToken \in Nat
  BY AirAssumption DEF AirTypeOK
<1> DEFINE old == IF code = "data" THEN air[r].age ELSE 0
           s == [Resting EXCEPT !.pc = code, !.age = old]
<1>2. s.token \in 0 .. lastToken
  BY <1>1 DEF Resting, NoToken
<1>3. Move(r, s)
  BY DEF Answer
<1> HIDE DEF s
<1> QED
  BY <1>1, <1>2, <1>3, MoveIssued

LEMMA StepIssued == AirTypeOK /\ TokensAreIssued /\ [AirNext]_airVars => TokensAreIssued'
<1> SUFFICES ASSUME AirTypeOK, TokensAreIssued, [AirNext]_airVars PROVE TokensAreIssued'
  OBVIOUS
<1>n. lastToken \in Nat
  BY AirAssumption DEF AirTypeOK
<1>r. ASSUME NEW r \in AirRequests PROVE air[r] \in AirState /\ air[r].token \in 0 .. lastToken
  BY DEF AirTypeOK, TokensAreIssued
<1>1. CASE UNCHANGED airVars
  BY <1>1 DEF airVars, provider, TokensAreIssued
<1>2. ASSUME NEW r \in AirRequests, AirHit(r) PROVE TokensAreIssued'
  <2> DEFINE s == [Resting EXCEPT !.age = snapAge]
  <2>1. s.token \in 0 .. lastToken /\ Move(r, s) /\ lastToken' = lastToken
    BY <1>2, <1>n DEF Resting, NoToken, AirHit, provider
  <2> HIDE DEF s
  <2> QED
    BY <1>n, <2>1, MoveIssued
<1>3. ASSUME NEW r \in AirRequests, AirMiss(r) PROVE TokensAreIssued'
  <2> DEFINE s == [Resting EXCEPT !.pc = IF credentials THEN "test" ELSE "read", !.tries = 1]
  <2>1. s.token \in 0 .. lastToken
    BY <1>n DEF Resting, NoToken
  <2>2. Move(r, s) /\ lastToken' = lastToken
    BY <1>3 DEF AirMiss, provider
  <2> HIDE DEF s
  <2> QED
    BY <1>n, <2>1, <2>2, MoveIssued
<1>4. ASSUME NEW r \in AirRequests, TestToken(r) PROVE TokensAreIssued'
  <2> DEFINE s == [air[r] EXCEPT !.pc = IF token # NoToken /\ tokenLeft > 0
                                        THEN "use" ELSE "ask"]
  <2>1. s.token \in 0 .. lastToken
    BY <1>r DEF AirState
  <2>2. Move(r, s) /\ lastToken' = lastToken
    BY <1>4 DEF TestToken, provider
  <2> HIDE DEF s
  <2> QED
    BY <1>n, <2>1, <2>2, MoveIssued
<1>5. ASSUME NEW r \in AirRequests, UseToken(r) PROVE TokensAreIssued'
  <2>1. CASE token # NoToken
    <3> DEFINE s == [air[r] EXCEPT !.pc = "read", !.token = token]
    <3>1. s.token \in 0 .. lastToken
      BY <1>r DEF AirState, AirTypeOK
    <3>2. Move(r, s) /\ lastToken' = lastToken
      BY <1>5, <2>1 DEF UseToken, provider
    <3> HIDE DEF s
    <3> QED
      BY <1>n, <3>1, <3>2, MoveIssued
  <2>2. CASE token = NoToken
    BY <1>5, <2>2, AnswerIssued DEF UseToken, provider
  <2> QED
    BY <2>1, <2>2
<1>6. ASSUME NEW r \in AirRequests, AskToken(r) PROVE TokensAreIssued'
  <2> DEFINE s == [air[r] EXCEPT !.pc = "keep", !.token = lastToken']
  <2>1. s.token = lastToken'
    BY <1>r DEF AirState
  <2>2. Move(r, s) /\ lastToken' = lastToken + 1
    BY <1>6 DEF AskToken
  <2> HIDE DEF s
  <2> QED
    BY <1>n, <2>1, <2>2, MoveIssued
<1>7. ASSUME NEW r \in AirRequests, KeepToken(r) PROVE TokensAreIssued'
  BY <1>7, <1>r DEF KeepToken, Disturb, TokensAreIssued, provider, AirState, AirTypeOK
<1>8. ASSUME NEW r \in AirRequests,
             AskTokenFails(r) \/ AskTokenGarbled(r) \/ GiveUp(r) \/ ReadStatesFails(r)
      PROVE  TokensAreIssued'
  BY <1>8, AnswerIssued DEF AskTokenFails, AskTokenGarbled, GiveUp, ReadStatesFails, provider
<1>9. ASSUME NEW r \in AirRequests, ReadStates(r) PROVE TokensAreIssued'
  <2> DEFINE s == [air[r] EXCEPT !.pc = "store", !.age = 0]
  <2>1. s.token \in 0 .. lastToken
    BY <1>r DEF AirState
  <2>2. Move(r, s) /\ lastToken' = lastToken
    BY <1>9 DEF ReadStates, provider
  <2> HIDE DEF s
  <2> QED
    BY <1>n, <2>1, <2>2, MoveIssued
<1>10. ASSUME NEW r \in AirRequests, Retry(r) PROVE TokensAreIssued'
  <2> DEFINE s == [air[r] EXCEPT !.pc = "test", !.tries = 2]
  <2>1. s.token \in 0 .. lastToken
    BY <1>r DEF AirState
  <2>2. Move(r, s) /\ lastToken' = lastToken
    BY <1>10 DEF Retry, provider
  <2> HIDE DEF s
  <2> QED
    BY <1>n, <2>1, <2>2, MoveIssued
<1>11. ASSUME NEW r \in AirRequests, StoreStates(r) PROVE TokensAreIssued'
  BY <1>11, AnswerIssued DEF StoreStates, provider
<1>12. ASSUME NEW t \in Tokens, RevokeToken(t) PROVE TokensAreIssued'
  BY <1>12, <1>r DEF RevokeToken, Disturb, TokensAreIssued, AirState
<1>13. CASE ReachabilityChanges
  BY <1>13 DEF ReachabilityChanges, TokensAreIssued
<1>14. CASE AirTick
  BY <1>14, <1>r DEF AirTick, TokensAreIssued, provider, AirState
<1> QED
  BY <1>1, <1>2, <1>3, <1>4, <1>5, <1>6, <1>7, <1>8, <1>9, <1>10, <1>11, <1>12, <1>13, <1>14
  DEF AirNext

-----------------------------------------------------------------------------
(* Fresh data *)

(* A request that does not get or store aircraft keeps its age, if it has   *)
(* any, and is not about to store.                                          *)
LEMMA StepInTime ==
  ASSUME AirInv, [AirNext]_airVars
  PROVE  SnapshotInTime' /\ AnswersInTime' /\ AircraftAreFresh'
<1> USE AirAssumption
<1> DEFINE Fine == AnswersInTime /\ AircraftAreFresh
<1>n. CacheTTL \in Nat /\ AirTimeout \in Nat /\ snapAge \in Nat /\ snapLeft \in Nat
  BY DEF AirInv, AirTypeOK, AirAges, TooOld
<1>r. ASSUME NEW r \in AirRequests PROVE air[r] \in AirState /\ air[r].age \in Nat
  BY AgesTyped DEF AirInv, AirTypeOK, AirState
<1>s. ASSUME UNCHANGED snapVars PROVE SnapshotInTime'
  BY <1>s DEF AirInv, SnapshotInTime, snapVars
<1>m. ASSUME NEW r \in AirRequests, NEW s, Move(r, s),
             s.pc = "store" => s.age <= AirTimeout, s.pc = "data" => s.age < TooOld
      PROVE  Fine'
  BY <1>m DEF AirInv, AirTypeOK, Move, At, AnswersInTime, AircraftAreFresh
<1>a. ASSUME NEW r \in AirRequests, NEW code \in Answered, Answer(r, code),
             code = "data" => air[r].age < TooOld
      PROVE  Fine'
  <2> DEFINE old == IF code = "data" THEN air[r].age ELSE 0
             s == [Resting EXCEPT !.pc = code, !.age = old]
  <2>1. s.pc = code /\ s.age = old
    BY DEF Resting
  <2>2. Move(r, s)
    BY <1>a DEF Answer
  <2> HIDE DEF s
  <2> QED
    BY <1>a, <1>m, <2>1, <2>2 DEF Answered
<1>1. CASE UNCHANGED airVars
  BY <1>1 DEF airVars, snapVars, AirInv, SnapshotInTime, AnswersInTime, AircraftAreFresh, At
<1>2. ASSUME NEW r \in AirRequests, AirHit(r) PROVE SnapshotInTime' /\ Fine'
  <2> DEFINE s == [Resting EXCEPT !.age = snapAge]
  <2>1. Move(r, s) /\ s.pc = "data" /\ s.age = snapAge
    BY <1>2 DEF AirHit, Resting
  <2>2. snapAge < TooOld
    BY <1>2, <1>n DEF AirHit, AirInv, SnapshotInTime, TooOld
  <2> HIDE DEF s
  <2>3. Fine'
    BY <1>m, <2>1, <2>2
  <2> QED
    BY <1>2, <1>s, <2>3 DEF AirHit
<1>3. ASSUME NEW r \in AirRequests, AirMiss(r) PROVE SnapshotInTime' /\ Fine'
  <2> DEFINE pc == IF credentials THEN "test" ELSE "read"
             s == [Resting EXCEPT !.pc = pc, !.tries = 1]
  <2>1. Move(r, s)
    BY <1>3 DEF AirMiss
  <2>2. s.pc \notin {"store", "data"}
    BY DEF Resting
  <2> HIDE DEF s
  <2>3. Fine'
    BY <1>m, <2>1, <2>2
  <2> QED
    BY <1>3, <1>s, <2>3 DEF AirMiss
<1>4. ASSUME NEW r \in AirRequests, TestToken(r) PROVE SnapshotInTime' /\ Fine'
  <2> DEFINE pc == IF token # NoToken /\ tokenLeft > 0 THEN "use" ELSE "ask"
             s == [air[r] EXCEPT !.pc = pc]
  <2>1. Move(r, s)
    BY <1>4 DEF TestToken
  <2>2. s.pc \notin {"store", "data"}
    BY <1>r DEF AirState
  <2> HIDE DEF s
  <2>3. Fine'
    BY <1>m, <2>1, <2>2
  <2> QED
    BY <1>4, <1>s, <2>3 DEF TestToken
<1>5. ASSUME NEW r \in AirRequests, UseToken(r) PROVE SnapshotInTime' /\ Fine'
  <2>1. CASE token # NoToken
    <3> DEFINE s == [air[r] EXCEPT !.pc = "read", !.token = token]
    <3>1. Move(r, s)
      BY <1>5, <2>1 DEF UseToken
    <3>2. s.pc = "read"
      BY <1>r DEF AirState
    <3> HIDE DEF s
    <3> QED
      BY <1>5, <1>m, <1>s, <3>1, <3>2 DEF UseToken
  <2>2. CASE token = NoToken
    BY <1>5, <1>a, <1>s, <2>2 DEF UseToken, Answered
  <2> QED
    BY <2>1, <2>2
<1>6. ASSUME NEW r \in AirRequests, AskToken(r) PROVE SnapshotInTime' /\ Fine'
  <2> DEFINE s == [air[r] EXCEPT !.pc = "keep", !.token = lastToken']
  <2>1. Move(r, s) /\ s.pc = "keep"
    BY <1>6, <1>r DEF AskToken, AirState
  <2> HIDE DEF s
  <2> QED
    BY <1>6, <1>m, <1>s, <2>1 DEF AskToken
<1>7. ASSUME NEW r \in AirRequests, KeepToken(r) PROVE SnapshotInTime' /\ Fine'
  <2>1. ASSUME NEW q \in AirRequests
        PROVE  air'[q].age = air[q].age /\ air'[q].pc = IF q = r THEN "read" ELSE air[q].pc
    BY <1>7, <1>r DEF KeepToken, Disturb, AirInv, AirTypeOK, AirState
  <2>2. Fine'
    BY <2>1 DEF AirInv, AnswersInTime, AircraftAreFresh, At
  <2> QED
    BY <1>7, <1>s, <2>2 DEF KeepToken
<1>8. ASSUME NEW r \in AirRequests,
             AskTokenFails(r) \/ AskTokenGarbled(r) \/ GiveUp(r) \/ ReadStatesFails(r)
      PROVE  SnapshotInTime' /\ Fine'
  BY <1>8, <1>a, <1>s
  DEF AskTokenFails, AskTokenGarbled, GiveUp, ReadStatesFails, Answered
<1>9. ASSUME NEW r \in AirRequests, ReadStates(r) PROVE SnapshotInTime' /\ Fine'
  <2> DEFINE s == [air[r] EXCEPT !.pc = "store", !.age = 0]
  <2>1. s.pc = "store" /\ s.age = 0
    BY <1>r DEF AirState
  <2>2. Move(r, s)
    BY <1>9 DEF ReadStates
  <2> HIDE DEF s
  <2> QED
    BY <1>9, <1>m, <1>n, <1>s, <2>1, <2>2 DEF ReadStates
<1>10. ASSUME NEW r \in AirRequests, Retry(r) PROVE SnapshotInTime' /\ Fine'
  <2> DEFINE s == [air[r] EXCEPT !.pc = "test", !.tries = 2]
  <2>1. Move(r, s) /\ s.pc = "test"
    BY <1>10, <1>r DEF Retry, AirState
  <2> HIDE DEF s
  <2> QED
    BY <1>10, <1>m, <1>s, <2>1 DEF Retry
<1>11. ASSUME NEW r \in AirRequests, StoreStates(r) PROVE SnapshotInTime' /\ Fine'
  <2>1. air[r].age <= AirTimeout
    BY <1>11 DEF StoreStates, AirInv, AnswersInTime
  <2>2. Fine'
    BY <1>11, <1>a, <1>n, <1>r, <2>1 DEF StoreStates, Answered, TooOld
  <2>3. SnapshotInTime'
    BY <1>11, <1>n, <1>r, <2>1 DEF StoreStates, SnapshotInTime
  <2> QED
    BY <2>2, <2>3
<1>12. ASSUME NEW t \in Tokens, RevokeToken(t) PROVE SnapshotInTime' /\ Fine'
  <2>1. ASSUME NEW q \in AirRequests
        PROVE  air'[q].age = air[q].age /\ air'[q].pc = air[q].pc
    BY <1>12, <1>r DEF RevokeToken, Disturb, AirState
  <2>2. Fine'
    BY <2>1 DEF AirInv, AnswersInTime, AircraftAreFresh, At
  <2> QED
    BY <1>12, <1>s, <2>2 DEF RevokeToken
<1>13. CASE ReachabilityChanges
  BY <1>13, <1>s DEF ReachabilityChanges, AirInv, AnswersInTime, AircraftAreFresh, At
<1>14. CASE AirTick
  <2>1. SnapshotInTime'
    BY <1>14, <1>n DEF AirTick, Lowered, AirInv, SnapshotInTime
  <2>2. ASSUME NEW q \in AirRequests
        PROVE  /\ air'[q].pc = air[q].pc
               /\ air'[q].age = IF At(q, "store") THEN air[q].age + 1 ELSE air[q].age
    BY <1>14, <1>r DEF AirTick, At, AirState
  <2>3. \A q \in AirRequests : At(q, "store") => air[q].age < AirTimeout
    BY <1>14 DEF AirTick
  <2>4. AnswersInTime'
    BY <1>n, <1>r, <2>2, <2>3 DEF AnswersInTime, At
  <2>5. AircraftAreFresh'
    BY <2>2 DEF AirInv, AircraftAreFresh, At
  <2> QED
    BY <2>1, <2>4, <2>5
<1> QED
  BY <1>1, <1>2, <1>3, <1>4, <1>5, <1>6, <1>7, <1>8, <1>9, <1>10, <1>11, <1>12, <1>13, <1>14
  DEF AirNext

LEMMA AirInitInv == AirInit => AirInv
<1> SUFFICES ASSUME AirInit PROVE AirInv
  OBVIOUS
<1>1. TooOld > 0
  BY AirAssumption DEF TooOld
<1>2. \A r \in AirRequests : air[r].pc = "data" /\ air[r].age = 0 /\ air[r].token = 0
  BY DEF AirInit, Resting, NoToken
<1>3. TokensAreIssued /\ SnapshotInTime
  BY <1>2 DEF AirInit, TokensAreIssued, SnapshotInTime
<1>4. AnswersInTime /\ AircraftAreFresh
  BY <1>1, <1>2 DEF AnswersInTime, AircraftAreFresh, At
<1> QED
  BY <1>3, <1>4, AirInitTyped DEF AirInv

LEMMA AirStepInv == AirInv /\ [AirNext]_airVars => AirInv'
  BY AirStepTyped, StepIssued, StepInTime DEF AirInv

(* No snapshot and no answer ever gets too old, and the requests stay typed. *)
THEOREM AirInvHolds == AirSpec => []AirInv
BY AirInitInv, AirStepInv, PTL DEF AirSpec

(* fetch_opensky_aircraft: the aircraft that a request answers with are at  *)
(* most one time to live and one slow answer old.                           *)
THEOREM DataIsFresh == AirSpec => []AircraftAreFresh
<1>1. AirInv => AircraftAreFresh
  BY DEF AirInv
<1> QED
  BY <1>1, AirInvHolds, PTL

-----------------------------------------------------------------------------
(* One retry *)

(* A request that moves where it cannot be refused keeps the others' tokens *)
(* as good as they were.                                                    *)
LEMMA MoveGood ==
  ASSUME AirTypeOK, CachedTokenGood, HeldTokenGood, NEW r \in AirRequests, NEW s, Move(r, s),
         accepted \subseteq accepted', token' = token \/ token' = NoToken,
         s.pc \notin Answered /\ s.tries = 2 /\ ~s.lost =>
           /\ SecondTry(r) \/ token' = NoToken
           /\ s.pc \in {"keep", "read"} => s.token \in accepted'
  PROVE  CachedTokenGood' /\ HeldTokenGood'
BY DEF AirTypeOK, CachedTokenGood, HeldTokenGood, SecondTry, Move

LEMMA StepGood ==
  ASSUME AirTypeOK, CachedTokenGood, HeldTokenGood, [AirNext]_airVars
  PROVE  CachedTokenGood' /\ HeldTokenGood'
<1> DEFINE Good == CachedTokenGood /\ HeldTokenGood
<1>r. ASSUME NEW r \in AirRequests PROVE air[r] \in AirState
  BY DEF AirTypeOK
<1>s. ASSUME UNCHANGED <<provider, tokenVars>>
      PROVE  accepted' = accepted /\ token' = token
  BY <1>s DEF provider, tokenVars
<1>a. ASSUME NEW r \in AirRequests, NEW code \in Answered, Answer(r, code),
             accepted' = accepted, token' = token
      PROVE  Good'
  <2> DEFINE old == IF code = "data" THEN air[r].age ELSE 0
             s == [Resting EXCEPT !.pc = code, !.age = old]
  <2>1. s.pc = code
    BY DEF Resting
  <2>2. Move(r, s)
    BY <1>a DEF Answer
  <2> HIDE DEF s
  <2> QED
    BY <1>a, <2>1, <2>2, MoveGood
<1>1. CASE UNCHANGED airVars
  BY <1>1 DEF airVars, provider, tokenVars, CachedTokenGood, HeldTokenGood, SecondTry
<1>2. ASSUME NEW r \in AirRequests, AirHit(r) PROVE Good'
  <2> DEFINE s == [Resting EXCEPT !.age = snapAge]
  <2>1. Move(r, s) /\ s.pc = "data"
    BY <1>2 DEF AirHit, Resting
  <2>2. accepted' = accepted /\ token' = token
    BY <1>2, <1>s DEF AirHit
  <2> HIDE DEF s
  <2> QED
    BY <2>1, <2>2, MoveGood DEF Answered
<1>3. ASSUME NEW r \in AirRequests, AirMiss(r) PROVE Good'
  <2> DEFINE pc == IF credentials THEN "test" ELSE "read"
             s == [Resting EXCEPT !.pc = pc, !.tries = 1]
  <2>1. Move(r, s)
    BY <1>3 DEF AirMiss
  <2>2. s.tries = 1
    BY DEF Resting
  <2>3. accepted' = accepted /\ token' = token
    BY <1>3, <1>s DEF AirMiss
  <2> HIDE DEF s
  <2> QED
    BY <2>1, <2>2, <2>3, MoveGood
<1>4. ASSUME NEW r \in AirRequests, TestToken(r) PROVE Good'
  <2> DEFINE pc == IF token # NoToken /\ tokenLeft > 0 THEN "use" ELSE "ask"
             s == [air[r] EXCEPT !.pc = pc]
  <2>1. Move(r, s)
    BY <1>4 DEF TestToken
  <2>2. s.tries = air[r].tries /\ s.lost = air[r].lost /\ s.pc \in {"use", "ask"}
    BY <1>r DEF AirState
  <2>3. accepted' = accepted /\ token' = token
    BY <1>4, <1>s DEF TestToken
  <2>4. air[r].pc \notin Answered
    BY <1>4 DEF TestToken, At, Answered
  <2> HIDE DEF s
  <2> QED
    BY <2>1, <2>2, <2>3, <2>4, MoveGood DEF SecondTry
<1>5. ASSUME NEW r \in AirRequests, UseToken(r) PROVE Good'
  <2>1. accepted' = accepted /\ token' = token
    BY <1>5, <1>s DEF UseToken
  <2>2. CASE token # NoToken
    <3> DEFINE s == [air[r] EXCEPT !.pc = "read", !.token = token]
    <3>1. s.tries = air[r].tries /\ s.lost = air[r].lost /\ s.token = token
      BY <1>r DEF AirState
    <3>2. Move(r, s)
      BY <1>5, <2>2 DEF UseToken
    <3>3. air[r].pc \notin Answered
      BY <1>5 DEF UseToken, At, Answered
    <3>4. SecondTry(r) => token \in accepted
      BY <2>2 DEF CachedTokenGood
    <3> HIDE DEF s
    <3> QED
      BY <2>1, <3>1, <3>2, <3>3, <3>4, MoveGood DEF SecondTry
  <2>3. CASE token = NoToken
    BY <1>5, <1>a, <2>1, <2>3 DEF UseToken, Answered
  <2> QED
    BY <2>2, <2>3
<1>6. ASSUME NEW r \in AirRequests, AskToken(r) PROVE Good'
  <2> DEFINE s == [air[r] EXCEPT !.pc = "keep", !.token = lastToken']
  <2>1. s.tries = air[r].tries /\ s.lost = air[r].lost /\ s.token = lastToken'
    BY <1>r DEF AirState
  <2>2. Move(r, s) /\ accepted' = accepted \cup {lastToken'} /\ token' = token
    BY <1>6 DEF AskToken, tokenVars
  <2>3. air[r].pc \notin Answered
    BY <1>6 DEF AskToken, At, Answered
  <2> HIDE DEF s
  <2> QED
    BY <2>1, <2>2, <2>3, MoveGood DEF SecondTry
<1>7. ASSUME NEW r \in AirRequests, KeepToken(r) PROVE Good'
  <2> DEFINE bad == air[r].token \notin accepted
  <2>1. ASSUME NEW q \in AirRequests
        PROVE  /\ air'[q].pc = IF q = r THEN "read" ELSE air[q].pc
               /\ air'[q].tries = air[q].tries /\ air'[q].token = air[q].token
               /\ ~bad => air'[q].lost = air[q].lost
               /\ bad => air'[q].pc \in Answered \/ air'[q].lost
    BY <1>7, <1>r DEF KeepToken, Disturb, AirTypeOK, AirState, Answered
  <2>2. accepted' = accepted /\ token' = air[r].token
    BY <1>7 DEF KeepToken, provider
  <2>3. CASE bad
    BY <2>1, <2>3 DEF CachedTokenGood, HeldTokenGood, SecondTry
  <2>4. CASE ~bad
    <3>1. CachedTokenGood'
      BY <2>2, <2>4 DEF CachedTokenGood
    <3>2. ASSUME NEW q \in AirRequests, SecondTry(q)', air'[q].pc \in {"keep", "read"}
          PROVE  air'[q].token \in accepted'
      BY <2>1, <2>2, <2>4, <3>2 DEF SecondTry, HeldTokenGood
    <3> QED
      BY <3>1, <3>2 DEF HeldTokenGood
  <2> QED
    BY <2>3, <2>4
<1>8. ASSUME NEW r \in AirRequests,
             AskTokenFails(r) \/ AskTokenGarbled(r) \/ GiveUp(r) \/ ReadStatesFails(r)
      PROVE  Good'
  BY <1>8, <1>a, <1>s
  DEF AskTokenFails, AskTokenGarbled, GiveUp, ReadStatesFails, Answered
<1>9. ASSUME NEW r \in AirRequests, ReadStates(r) PROVE Good'
  <2> DEFINE s == [air[r] EXCEPT !.pc = "store", !.age = 0]
  <2>1. s.pc = "store" /\ s.tries = air[r].tries /\ s.lost = air[r].lost
    BY <1>r DEF AirState
  <2>2. Move(r, s)
    BY <1>9 DEF ReadStates
  <2>3. accepted' = accepted /\ token' = token
    BY <1>9, <1>s DEF ReadStates
  <2>4. air[r].pc \notin Answered
    BY <1>9 DEF ReadStates, At, Answered
  <2> HIDE DEF s
  <2> QED
    BY <2>1, <2>2, <2>3, <2>4, MoveGood DEF SecondTry
<1>10. ASSUME NEW r \in AirRequests, Retry(r) PROVE Good'
  <2> DEFINE s == [air[r] EXCEPT !.pc = "test", !.tries = 2]
  <2>1. s.pc = "test"
    BY <1>r DEF AirState
  <2>2. Move(r, s) /\ accepted' = accepted /\ token' = NoToken
    BY <1>10 DEF Retry, provider
  <2> HIDE DEF s
  <2> QED
    BY <2>1, <2>2, MoveGood
<1>11. ASSUME NEW r \in AirRequests, StoreStates(r) PROVE Good'
  BY <1>11, <1>a, <1>s DEF StoreStates, Answered
<1>12. ASSUME NEW t \in Tokens, RevokeToken(t) PROVE Good'
  <2>1. ASSUME NEW q \in AirRequests PROVE ~SecondTry(q)'
    BY <1>12, <1>r DEF RevokeToken, Disturb, AirState, SecondTry, Answered
  <2> QED
    BY <2>1 DEF CachedTokenGood, HeldTokenGood
<1>13. CASE ReachabilityChanges
  BY <1>13 DEF ReachabilityChanges, tokenVars, CachedTokenGood, HeldTokenGood, SecondTry
<1>14. CASE AirTick
  <2>1. ASSUME NEW q \in AirRequests
        PROVE  /\ air'[q].pc = air[q].pc /\ air'[q].tries = air[q].tries
               /\ air'[q].lost = air[q].lost /\ air'[q].token = air[q].token
    BY <1>14, <1>r DEF AirTick, AirState
  <2>2. accepted' = accepted /\ token' = token
    BY <1>14 DEF AirTick, provider
  <2> QED
    BY <2>1, <2>2 DEF CachedTokenGood, HeldTokenGood, SecondTry
<1> QED
  BY <1>1, <1>2, <1>3, <1>4, <1>5, <1>6, <1>7, <1>8, <1>9, <1>10, <1>11, <1>12, <1>13, <1>14
  DEF AirNext

(* _get_access_token and the retry in fetch_opensky_aircraft: a request is  *)
(* refused twice only if a token was revoked, or a revoked one kept,        *)
(* meanwhile: threads that clear and keep tokens do not refuse each other.  *)
THEOREM RetrySuffices == AirSpec => OneRetryIsEnough
<1> DEFINE Inv == AirInv /\ CachedTokenGood /\ HeldTokenGood
           Enough == \A r \in AirRequests : GiveUp(r) => air[r].lost
<1>1. AirInit => Inv
  <2> SUFFICES ASSUME AirInit PROVE CachedTokenGood /\ HeldTokenGood
    BY AirInitInv
  <2>1. \A r \in AirRequests : air[r].tries = 0
    BY DEF AirInit, Resting
  <2> QED
    BY <2>1 DEF CachedTokenGood, HeldTokenGood, SecondTry
<1>2. Inv /\ [AirNext]_airVars => Inv'
  BY AirStepTyped, StepIssued, StepInTime, StepGood DEF AirInv
<1>3. Inv => Enough
  BY DEF AirInv, AirTypeOK, HeldTokenGood, SecondTry, GiveUp, TokenRefused, At, Answered
<1>4. Inv /\ [AirNext]_airVars => [Enough]_airVars
  BY <1>3
<1> QED
  BY <1>1, <1>2, <1>4, PTL DEF AirSpec, OneRetryIsEnough

-----------------------------------------------------------------------------
(* The login limiter: sums *)



(* What FoldFunctionOnSet computes for the sum of f over S, one chosen      *)
(* element after the other.                                                 *)
SumOver(f, S) == FoldFunctionOnSet(+, 0, f, S)

Chosen(s) == CHOOSE x \in s : TRUE

Term(f, g, s) == IF s = {} THEN 0 ELSE f[Chosen(s)] + g[s \ {Chosen(s)}]

Solves(f, S, g) == g = [s \in SUBSET S |-> Term(f, g, s)]

LEMMA SumIsSolution ==
  ASSUME NEW f, NEW S PROVE SumOver(f, S) = (CHOOSE g : Solves(f, S, g))[S]
BY DEF SumOver, FoldFunctionOnSet, MapThenFoldSet, Solves, Term, Chosen

LEMMA SolutionExists ==
  ASSUME NEW f, NEW S, IsFiniteSet(S)
  PROVE  \E g : Solves(f, S, g)
<1> DEFINE Upto(g, n) == \A s \in SUBSET S : Cardinality(s) <= n => g[s] = Term(f, g, s)
           T == {n \in Nat : \E g : Upto(g, n)}
<1>c. \A s \in SUBSET S : IsFiniteSet(s) /\ Cardinality(s) \in Nat
  BY FS_Subset, FS_CardinalityType
<1>1. 0 \in T
  <2> DEFINE g == [s \in SUBSET S |-> 0]
  <2>1. \A s \in SUBSET S : Cardinality(s) <= 0 => s = {}
    BY <1>c, FS_EmptySet
  <2>2. Upto(g, 0)
    BY <2>1 DEF Term
  <2> QED
    BY <2>2
<1>2. ASSUME NEW n \in Nat, n \in T PROVE n + 1 \in T
  <2>1. PICK g : Upto(g, n)
    BY <1>2
  <2> DEFINE h == [s \in SUBSET S |-> Term(f, g, s)]
  <2>2. ASSUME NEW s \in SUBSET S, Cardinality(s) <= n + 1 PROVE h[s] = Term(f, h, s)
    <3>1. CASE s = {}
      BY <3>1 DEF Term
    <3>2. CASE s # {}
      <4>1. Chosen(s) \in s
        BY <3>2 DEF Chosen
      <4>2. s \ {Chosen(s)} \in SUBSET S /\ Cardinality(s \ {Chosen(s)}) = Cardinality(s) - 1
        BY <4>1, <1>c, FS_RemoveElement
      <4>3. Cardinality(s \ {Chosen(s)}) <= n
        BY <2>2, <4>2, <1>c
      <4>4. h[s \ {Chosen(s)}] = g[s \ {Chosen(s)}]
        BY <2>1, <4>2, <4>3
      <4> QED
        BY <3>2, <4>4 DEF Term
    <3> QED
      BY <3>1, <3>2
  <2>3. Upto(h, n + 1)
    BY <2>2
  <2>4. \E k : Upto(k, n + 1)
    <3> HIDE DEF Upto, h
    <3> QED
      BY <2>3
  <2> QED
    BY <2>4
<1>3. \A n \in Nat : n \in T
  <2> HIDE DEF T
  <2> QED
    BY <1>1, <1>2, Counting
<1>4. PICK g : Upto(g, Cardinality(S))
  BY <1>3, <1>c
<1> DEFINE h == [s \in SUBSET S |-> g[s]]
<1>5. ASSUME NEW s \in SUBSET S PROVE h[s] = Term(f, h, s)
  <2>1. g[s] = Term(f, g, s)
    BY <1>4, <1>c, FS_Subset
  <2>2. s # {} => s \ {Chosen(s)} \in SUBSET S
    OBVIOUS
  <2> QED
    BY <2>1, <2>2 DEF Term
<1>6. Solves(f, S, h)
  BY <1>5 DEF Solves
<1> QED
  BY <1>6

(* Solutions over two sets agree on what both have.                         *)
LEMMA SolutionsAgree ==
  ASSUME NEW f, NEW S, IsFiniteSet(S), NEW g, Solves(f, S, g),
         NEW R \in SUBSET S, NEW h, Solves(f, R, h)
  PROVE  h[R] = g[R]
<1> DEFINE T == {n \in Nat : \A s \in SUBSET R : Cardinality(s) = n => h[s] = g[s]}
<1>c. \A s \in SUBSET R : IsFiniteSet(s) /\ Cardinality(s) \in Nat
  BY FS_Subset, FS_CardinalityType
<1>t. \A s \in SUBSET R : h[s] = Term(f, h, s) /\ g[s] = Term(f, g, s)
  BY DEF Solves
<1>1. 0 \in T
  <2>1. \A s \in SUBSET R : Cardinality(s) = 0 => s = {}
    BY <1>c, FS_EmptySet
  <2>2. h[{}] = 0 /\ g[{}] = 0
    BY <1>t DEF Term
  <2> QED
    BY <2>1, <2>2
<1>2. ASSUME NEW n \in Nat, n \in T PROVE n + 1 \in T
  <2>1. ASSUME NEW s \in SUBSET R, Cardinality(s) = n + 1 PROVE h[s] = g[s]
    <3>1. s # {}
      BY <2>1, FS_EmptySet
    <3>2. Chosen(s) \in s
      BY <3>1 DEF Chosen
    <3>3. s \ {Chosen(s)} \in SUBSET R /\ Cardinality(s \ {Chosen(s)}) = n
      BY <2>1, <3>2, <1>c, FS_RemoveElement
    <3>4. h[s \ {Chosen(s)}] = g[s \ {Chosen(s)}]
      BY <1>2, <3>3
    <3> QED
      BY <1>t, <3>1, <3>4 DEF Term
  <2> QED
    BY <2>1
<1>3. \A n \in Nat : n \in T
  <2> HIDE DEF T
  <2> QED
    BY <1>1, <1>2, Counting
<1> QED
  BY <1>3, <1>c

LEMMA SumEmpty == ASSUME NEW f PROVE SumOver(f, {}) = 0
<1>1. \E g : Solves(f, {}, g)
  BY SolutionExists, FS_EmptySet
<1> DEFINE g == CHOOSE x : Solves(f, {}, x)
<1>2. Solves(f, {}, g)
  BY <1>1
<1> HIDE DEF g
<1>3. g[{}] = 0
  BY <1>2 DEF Solves, Term
<1> QED
  BY <1>3, SumIsSolution DEF g

LEMMA SumStep ==
  ASSUME NEW f, NEW S, IsFiniteSet(S), S # {}
  PROVE  SumOver(f, S) = f[Chosen(S)] + SumOver(f, S \ {Chosen(S)})
<1> DEFINE R == S \ {Chosen(S)}
           g == CHOOSE x : Solves(f, S, x)
           h == CHOOSE x : Solves(f, R, x)
<1>1. IsFiniteSet(R) /\ R \in SUBSET S
  BY FS_Subset
<1>2. Solves(f, S, g) /\ Solves(f, R, h)
  BY <1>1, SolutionExists
<1>5. SumOver(f, S) = g[S] /\ SumOver(f, R) = h[R]
  BY SumIsSolution
<1> HIDE DEF g, h
<1>3. h[R] = g[R]
  BY <1>1, <1>2, SolutionsAgree
<1>4. g[S] = f[Chosen(S)] + g[R]
  BY <1>2 DEF Solves, Term
<1> QED
  BY <1>3, <1>4, <1>5

(* The sum is a number, and does not depend on the order of its terms.      *)
LEMMA SumTakesAny ==
  ASSUME NEW f, NEW S, IsFiniteSet(S), \A x \in S : f[x] \in Nat
  PROVE  /\ SumOver(f, S) \in Nat
         /\ \A x \in S : SumOver(f, S) = f[x] + SumOver(f, S \ {x})
<1> DEFINE Good(s) == /\ SumOver(f, s) \in Nat
                      /\ \A x \in s : SumOver(f, s) = f[x] + SumOver(f, s \ {x})
           T == {n \in Nat : \A s \in SUBSET S : Cardinality(s) <= n => Good(s)}
<1>c. \A s \in SUBSET S : IsFiniteSet(s) /\ Cardinality(s) \in Nat
  BY FS_Subset, FS_CardinalityType
<1>1. 0 \in T
  <2>1. \A s \in SUBSET S : Cardinality(s) <= 0 => s = {}
    BY <1>c, FS_EmptySet
  <2>2. Good({})
    BY SumEmpty
  <2> QED
    BY <2>1, <2>2
<1>2. ASSUME NEW n \in Nat, n \in T PROVE n + 1 \in T
  <2>1. ASSUME NEW s \in SUBSET S, Cardinality(s) <= n + 1, s # {} PROVE Good(s)
    <3> DEFINE c == Chosen(s)
    <3>1. c \in s
      BY <2>1 DEF Chosen
    <3>2. ASSUME NEW r \in SUBSET s, NEW x \in s, x \notin r PROVE Good(r)
      <4>1. s \ {x} \in SUBSET S /\ r \in SUBSET (s \ {x}) /\ r \in SUBSET S
        BY <3>2
      <4>2. Cardinality(s \ {x}) = Cardinality(s) - 1
        BY <1>c, FS_RemoveElement
      <4>3. Cardinality(r) <= Cardinality(s \ {x})
        BY <1>c, <4>1, FS_Subset
      <4>4. Cardinality(r) <= n
        BY <1>c, <2>1, <4>1, <4>2, <4>3
      <4> QED
        BY <1>2, <4>1, <4>4
    <3>3. SumOver(f, s) = f[c] + SumOver(f, s \ {c})
      BY <2>1, <1>c, SumStep
    <3> HIDE DEF c
    <3>4. \A x \in s : f[x] \in Nat
      OBVIOUS
    <3>5. SumOver(f, s) \in Nat
      BY <3>1, <3>2, <3>3, <3>4
    <3>6. ASSUME NEW x \in s, x # c PROVE SumOver(f, s) = f[x] + SumOver(f, s \ {x})
      <4> DEFINE both == (s \ {c}) \ {x}
      <4>1. SumOver(f, s \ {c}) = f[x] + SumOver(f, both)
        BY <3>1, <3>2, <3>6
      <4>2. SumOver(f, s \ {x}) = f[c] + SumOver(f, (s \ {x}) \ {c})
        BY <3>1, <3>2, <3>6
      <4>3. (s \ {x}) \ {c} = both
        OBVIOUS
      <4>4. SumOver(f, both) \in Nat
        BY <3>1, <3>2
      <4> QED
        BY <3>1, <3>3, <3>4, <4>1, <4>2, <4>3, <4>4
    <3> QED
      BY <3>3, <3>5, <3>6
  <2>2. Good({})
    BY SumEmpty
  <2> QED
    BY <2>1, <2>2
<1>3. \A n \in Nat : n \in T
  <2> HIDE DEF T
  <2> QED
    BY <1>1, <1>2, Counting
<1> QED
  BY <1>3, <1>c

-----------------------------------------------------------------------------
(* The failures by age: how many are younger than j *)

Younger(f, j) == SumOver(f, 0 .. j - 1)

LEMMA WindowTyped == Window \in Nat /\ Window >= 1 /\ Ages = 0 .. Window - 1 /\ 0 \in Ages
BY LimiterAssumption DEF Ages

LEMMA YoungerFacts ==
  ASSUME NEW f \in [Ages -> Nat]
  PROVE  /\ Younger(f, 0) = 0
         /\ \A j \in 0 .. Window : Younger(f, j) \in Nat
         /\ \A j \in Ages : Younger(f, j + 1) = Younger(f, j) + f[j]
         /\ Total(f) = Younger(f, Window)
<1> USE WindowTyped
<1>1. 0 .. 0 - 1 = {}
  OBVIOUS
<1>2. Younger(f, 0) = 0
  BY <1>1, SumEmpty DEF Younger
<1>3. ASSUME NEW j \in 0 .. Window
      PROVE  0 .. j - 1 \subseteq Ages /\ IsFiniteSet(0 .. j - 1)
  <2>1. 0 \in Int /\ j - 1 \in Int
    OBVIOUS
  <2>2. IsFiniteSet(0 .. j - 1)
    BY <2>1, FS_Interval
  <2>3. 0 .. j - 1 \subseteq Ages
    OBVIOUS
  <2> QED
    BY <2>2, <2>3
<1>4. \A j \in 0 .. Window : Younger(f, j) \in Nat
  BY <1>3, SumTakesAny DEF Younger
<1>5. ASSUME NEW j \in Ages PROVE Younger(f, j + 1) = Younger(f, j) + f[j]
  <2> DEFINE S == 0 .. (j + 1) - 1
  <2>1. j + 1 \in 0 .. Window /\ j \in S /\ S \ {j} = 0 .. j - 1
    OBVIOUS
  <2>2. S \subseteq Ages /\ IsFiniteSet(S)
    BY <1>3, <2>1
  <2>3. \A x \in S : f[x] \in Nat
    BY <2>2
  <2> HIDE DEF S
  <2>4. SumOver(f, S) = f[j] + SumOver(f, S \ {j})
    BY <2>1, <2>2, <2>3, SumTakesAny
  <2>5. Younger(f, j + 1) = SumOver(f, S) /\ Younger(f, j) = SumOver(f, S \ {j})
    BY <2>1 DEF Younger, S
  <2>6. f[j] \in Nat /\ Younger(f, j) \in Nat
    BY <1>4
  <2> QED
    BY <2>4, <2>5, <2>6
<1>6. Total(f) = Younger(f, Window)
  <2>1. Total(f) = SumOver(f, DOMAIN f)
    BY DEF Total, SumOver, FoldFunction
  <2> QED
    BY <2>1 DEF Younger
<1> QED
  BY <1>2, <1>4, <1>5, <1>6

LEMMA TotalIsMost ==
  ASSUME NEW f \in [Ages -> Nat], NEW i \in 0 .. Window
  PROVE  Younger(f, i) <= Total(f)
<1> USE WindowTyped
<1> DEFINE U == {n \in Nat : n <= Window => Younger(f, Window - n) <= Younger(f, Window)}
<1>1. 0 \in U
  BY YoungerFacts
<1>2. ASSUME NEW n \in Nat, n \in U PROVE n + 1 \in U
  <2> SUFFICES ASSUME n + 1 <= Window
               PROVE  Younger(f, Window - (n + 1)) <= Younger(f, Window)
    OBVIOUS
  <2> DEFINE j == Window - (n + 1)
  <2>1. j \in Ages /\ j + 1 = Window - n /\ j + 1 \in 0 .. Window /\ j \in 0 .. Window
    OBVIOUS
  <2>2. Younger(f, j + 1) = Younger(f, j) + f[j]
    BY <2>1, YoungerFacts
  <2>3. f[j] \in Nat /\ Younger(f, j) \in Nat /\ Younger(f, Window) \in Nat
    BY <2>1, YoungerFacts
  <2>4. Younger(f, j + 1) <= Younger(f, Window)
    BY <1>2, <2>1
  <2> QED
    BY <2>2, <2>3, <2>4
<1>3. \A n \in Nat : n \in U
  <2> HIDE DEF U
  <2> QED
    BY <1>1, <1>2, Counting
<1>4. Window - i \in Nat /\ Window - (Window - i) = i /\ Window - i <= Window
  OBVIOUS
<1> QED
  BY <1>3, <1>4, YoungerFacts

LEMMA OlderSum ==
  ASSUME NEW f \in [Ages -> Nat]
  PROVE  /\ Older(f) \in [Ages -> Nat]
         /\ \A j \in Ages : Younger(Older(f), j + 1) = Younger(f, j)
<1> USE WindowTyped
<1>1. Older(f) \in [Ages -> Nat]
  BY DEF Older
<1> DEFINE T == {n \in Nat : n \in Ages => Younger(Older(f), n + 1) = Younger(f, n)}
<1>2. 0 \in T
  <2>1. Younger(Older(f), 0 + 1) = Younger(Older(f), 0) + Older(f)[0]
    BY <1>1, YoungerFacts
  <2>2. Older(f)[0] = 0
    BY DEF Older
  <2>3. Younger(Older(f), 0) = 0
    BY <1>1, YoungerFacts
  <2>4. Younger(f, 0) = 0
    BY YoungerFacts
  <2>5. Younger(Older(f), 0 + 1) = Younger(f, 0)
    BY <2>1, <2>2, <2>3, <2>4
  <2> QED
    BY <2>5
<1>3. ASSUME NEW n \in Nat, n \in T PROVE n + 1 \in T
  <2> SUFFICES ASSUME n + 1 \in Ages
               PROVE  Younger(Older(f), (n + 1) + 1) = Younger(f, n + 1)
    OBVIOUS
  <2>1. n \in Ages
    OBVIOUS
  <2>2. Younger(Older(f), (n + 1) + 1) = Younger(Older(f), n + 1) + Older(f)[n + 1]
    BY <1>1, YoungerFacts
  <2>3. Older(f)[n + 1] = f[n]
    BY DEF Older
  <2>4. Younger(f, n + 1) = Younger(f, n) + f[n]
    BY <2>1, YoungerFacts
  <2>5. Younger(Older(f), n + 1) = Younger(f, n)
    BY <1>3, <2>1
  <2> QED
    BY <2>2, <2>3, <2>4, <2>5
<1>4. \A n \in Nat : n \in T
  <2> HIDE DEF T
  <2> QED
    BY <1>2, <1>3, Counting
<1> QED
  BY <1>1, <1>4

(* One more failure, just now.                                              *)
LEMMA OneMore ==
  ASSUME NEW f \in [Ages -> Nat], NEW g, g = [f EXCEPT ![0] = @ + 1]
  PROVE  /\ g \in [Ages -> Nat]
         /\ \A j \in 1 .. Window : Younger(g, j) = Younger(f, j) + 1
<1> USE WindowTyped
<1>1. g \in [Ages -> Nat]
  OBVIOUS
<1> DEFINE T == {n \in Nat : n \in Ages => Younger(g, n + 1) = Younger(f, n + 1) + 1}
<1>2. 0 \in T
  <2>1. Younger(g, 0 + 1) = Younger(g, 0) + g[0] /\ Younger(f, 0 + 1) = Younger(f, 0) + f[0]
    BY <1>1, YoungerFacts
  <2>2. g[0] = f[0] + 1 /\ f[0] \in Nat
    OBVIOUS
  <2>3. Younger(g, 0) = 0 /\ Younger(f, 0) = 0
    BY <1>1, YoungerFacts
  <2> QED
    BY <2>1, <2>2, <2>3
<1>3. ASSUME NEW n \in Nat, n \in T PROVE n + 1 \in T
  <2> SUFFICES ASSUME n + 1 \in Ages
               PROVE  Younger(g, (n + 1) + 1) = Younger(f, (n + 1) + 1) + 1
    OBVIOUS
  <2>1. n \in Ages /\ n + 1 \in 0 .. Window
    OBVIOUS
  <2>2. /\ Younger(g, (n + 1) + 1) = Younger(g, n + 1) + g[n + 1]
        /\ Younger(f, (n + 1) + 1) = Younger(f, n + 1) + f[n + 1]
    BY <1>1, YoungerFacts
  <2>3. g[n + 1] = f[n + 1] /\ f[n + 1] \in Nat
    OBVIOUS
  <2>4. Younger(g, n + 1) = Younger(f, n + 1) + 1 /\ Younger(f, n + 1) \in Nat
    BY <1>3, <2>1, YoungerFacts
  <2> QED
    BY <2>2, <2>3, <2>4
<1>4. \A n \in Nat : n \in T
  <2> HIDE DEF T
  <2> QED
    BY <1>2, <1>3, Counting
<1>5. ASSUME NEW j \in 1 .. Window PROVE Younger(g, j) = Younger(f, j) + 1
  <2>1. j - 1 \in Ages /\ j - 1 \in Nat /\ (j - 1) + 1 = j
    OBVIOUS
  <2> QED
    BY <1>4, <2>1
<1> QED
  BY <1>1, <1>5

LEMMA NoneYounger ==
  /\ None \in [Ages -> Nat]
  /\ \A j \in 0 .. Window : Younger(None, j) = 0
<1> USE WindowTyped
<1>1. None \in [Ages -> Nat]
  BY DEF None
<1> DEFINE T == {n \in Nat : n <= Window => Younger(None, n) = 0}
<1>2. 0 \in T
  BY <1>1, YoungerFacts
<1>3. ASSUME NEW n \in Nat, n \in T PROVE n + 1 \in T
  <2> SUFFICES ASSUME n + 1 <= Window PROVE Younger(None, n + 1) = 0
    OBVIOUS
  <2>1. n \in Ages /\ None[n] = 0
    BY DEF None
  <2>2. Younger(None, n + 1) = Younger(None, n) + None[n]
    BY <1>1, <2>1, YoungerFacts
  <2>3. Younger(None, n) = 0
    BY <1>3
  <2> QED
    BY <2>1, <2>2, <2>3
<1>4. \A n \in Nat : n \in T
  <2> HIDE DEF T
  <2> QED
    BY <1>2, <1>3, Counting
<1> QED
  BY <1>1, <1>4

-----------------------------------------------------------------------------
(* The bound on the failures *)

Events == switches + restarts

Round == LoginMaxAttempts + Cardinality(LoginRequests)

(* What is forgiven, by an event or by the handlers around it.              *)
Slack == Round * Events

(* The failures and those still to come stay within the bound.              *)
InFlight == Total(failed) + Cardinality(verifying) <= Slack + Round - 1

(* The count in use has seen all failures but those that were forgiven, and *)
(* what it forgets first is the oldest.                                     *)
Counted ==
  IF UsesRedis
  THEN /\ Total(failed) <= redisCount + Slack
       /\ Younger(failed, Window - redisTTL) <= Slack
  ELSE \A j \in 0 .. Window : Younger(failed, j) <= Younger(memory, j) + Slack

LoginInv == LoginTypeOK /\ InFlight /\ Counted

LEMMA RequestsCounted ==
  /\ Cardinality(LoginRequests) \in Nat
  /\ Round \in Nat /\ LoginMaxAttempts \in Nat \ {0} /\ Round = LoginMaxAttempts + Cardinality(LoginRequests)
  /\ \A v \in SUBSET LoginRequests :
       /\ IsFiniteSet(v)
       /\ Cardinality(v) \in 0 .. Cardinality(LoginRequests)
       /\ \A r \in v : Cardinality(v \ {r}) = Cardinality(v) - 1
BY LimiterAssumption, FS_CardinalityType, FS_Subset, FS_RemoveElement DEF Round

LEMMA OneMoreEvent == \A a, b \in Nat : a * b \in Nat /\ a * (b + 1) = a * b + a
OBVIOUS

LEMMA LoginInitTyped == LoginInit => LoginTypeOK
BY LimiterAssumption, NoneYounger, WindowTyped DEF LoginInit, LoginTypeOK

LEMMA LoginStepTyped == LoginTypeOK /\ [LoginNext]_loginVars => LoginTypeOK'
<1> SUFFICES ASSUME LoginTypeOK, [LoginNext]_loginVars PROVE LoginTypeOK'
  OBVIOUS
<1>c. /\ Window \in Nat /\ Window >= 1 /\ 0 \in Ages /\ None \in [Ages -> Nat]
      /\ MaxRestarts \in Nat /\ MaxSwitches \in Nat
  BY LimiterAssumption, WindowTyped, NoneYounger
<1> USE <1>c DEF LoginTypeOK
<1>1. ASSUME NEW r \in LoginRequests, Attempt(r) PROVE LoginTypeOK'
  BY <1>1 DEF Attempt, counts, faults
<1>2. ASSUME NEW r \in LoginRequests, Fail(r) PROVE LoginTypeOK'
  <2>1. UNCHANGED <<redisUp, hasRedis, restarts>> /\ verifying' \subseteq LoginRequests
    BY <1>2 DEF Fail
  <2>2. failed' \in [Ages -> Nat]
    BY <1>2 DEF Fail
  <2>3. memory' \in [Ages -> Nat]
    BY <1>2 DEF Fail, RegisterFailure, CountInMemory
  <2>4. /\ redisCount' \in Nat /\ redisTTL' \in 0 .. Window
        /\ redisCount' = 0 <=> redisTTL' = 0
    <3>1. (redisCount' = redisCount + 1 /\ redisTTL' = Window) \/ UNCHANGED <<redisCount, redisTTL>>
      BY <1>2 DEF Fail, RegisterFailure, CountInRedis
    <3> QED
      BY <3>1
  <2>5. switches' \in 0 .. MaxSwitches
    BY <1>2 DEF Fail, RegisterFailure
  <2> QED
    BY <2>1, <2>2, <2>3, <2>4, <2>5
<1>3. ASSUME NEW r \in LoginRequests, RefuseInactive(r) PROVE LoginTypeOK'
  BY <1>3 DEF RefuseInactive, counts, faults
<1>4. ASSUME NEW r \in LoginRequests, Succeed(r) PROVE LoginTypeOK'
  <2>1. UNCHANGED <<redisUp, hasRedis, restarts, switches>> /\ verifying' \subseteq LoginRequests
        /\ failed' \in [Ages -> Nat]
    BY <1>4 DEF Succeed, faults
  <2>2. /\ redisCount' \in Nat /\ redisTTL' \in 0 .. Window /\ memory' \in [Ages -> Nat]
        /\ redisCount' = 0 <=> redisTTL' = 0
    BY <1>4 DEF Succeed, ResetCount
  <2> QED
    BY <2>1, <2>2
<1>5. CASE LoginTick
  <2>1. memory' \in [Ages -> Nat] /\ failed' \in [Ages -> Nat]
    BY <1>5, OlderSum DEF LoginTick
  <2>2. /\ redisCount' \in Nat /\ redisTTL' \in 0 .. Window
        /\ redisCount' = 0 <=> redisTTL' = 0
    BY <1>5 DEF LoginTick
  <2>3. UNCHANGED <<hasRedis, redisUp, restarts, switches, verifying>>
    BY <1>5 DEF LoginTick, faults
  <2> QED
    BY <2>1, <2>2, <2>3
<1>6. CASE RedisChanges
  <2>1. redisUp' \in BOOLEAN
    BY <1>6 DEF RedisChanges
  <2>2. UNCHANGED <<hasRedis, restarts, redisCount, redisTTL, memory, verifying, failed>>
    BY <1>6 DEF RedisChanges, counts
  <2>3. switches' \in 0 .. MaxSwitches
    BY <1>6 DEF RedisChanges
  <2> QED
    BY <2>1, <2>2, <2>3
<1>7. CASE Restart
  BY <1>7 DEF Restart
<1>8. CASE UNCHANGED loginVars
  BY <1>8 DEF loginVars, counts, faults
<1> QED
  BY <1>1, <1>2, <1>3, <1>4, <1>5, <1>6, <1>7, <1>8 DEF LoginNext

LEMMA LoginInitInv == LoginInit => LoginInv
<1> SUFFICES ASSUME LoginInit PROVE LoginInv
  OBVIOUS
<1>1. LoginTypeOK
  BY LoginInitTyped
<1>2. Total(failed) = 0 /\ Total(None) = 0
  BY NoneYounger, YoungerFacts, WindowTyped DEF LoginInit
<1>3. Events = 0 /\ Slack = 0
  BY RequestsCounted DEF LoginInit, Events, Slack
<1>4. Cardinality(verifying) = 0
  BY FS_EmptySet DEF LoginInit
<1>5. InFlight
  BY <1>2, <1>3, <1>4, RequestsCounted DEF InFlight
<1>6. Counted
  BY <1>2, <1>3, NoneYounger, WindowTyped DEF Counted, LoginInit
<1> QED
  BY <1>1, <1>5, <1>6 DEF LoginInv

(* Facts about a typed state that every step's proof needs.                 *)
LEMMA LoginFacts ==
  ASSUME LoginTypeOK
  PROVE  /\ Total(failed) \in Nat /\ Total(memory) \in Nat
         /\ Cardinality(verifying) \in Nat
         /\ Events \in Nat /\ Slack \in Nat
         /\ \A j \in 0 .. Window : /\ Younger(failed, j) \in Nat /\ Younger(memory, j) \in Nat
                                   /\ Younger(failed, j) <= Total(failed)
         /\ Total(failed) = Younger(failed, Window) /\ Total(memory) = Younger(memory, Window)
         /\ Younger(failed, 0) = 0 /\ Younger(memory, 0) = 0
<1>1. /\ failed \in [Ages -> Nat] /\ memory \in [Ages -> Nat]
      /\ verifying \in SUBSET LoginRequests /\ switches \in Nat /\ restarts \in Nat
  BY LimiterAssumption DEF LoginTypeOK
<1>2. Window \in 0 .. Window
  BY WindowTyped
<1>3. Events \in Nat /\ Slack \in Nat
  BY <1>1, RequestsCounted, OneMoreEvent DEF Events, Slack
<1>4. Cardinality(verifying) \in Nat
  BY <1>1, RequestsCounted
<1> QED
  BY <1>1, <1>2, <1>3, <1>4, YoungerFacts, TotalIsMost

LEMMA LoginStepInv == LoginInv /\ [LoginNext]_loginVars => LoginInv'
<1> SUFFICES ASSUME LoginInv, [LoginNext]_loginVars PROVE LoginInv'
  OBVIOUS
<1>t. LoginTypeOK /\ LoginTypeOK' /\ InFlight /\ Counted
  BY LoginStepTyped DEF LoginInv
<1>f. /\ Total(failed) \in Nat /\ Total(memory) \in Nat /\ Cardinality(verifying) \in Nat
      /\ Events \in Nat /\ Slack \in Nat
      /\ Total(failed') \in Nat /\ Cardinality(verifying') \in Nat /\ Slack' \in Nat
  <2>1. /\ Total(failed) \in Nat /\ Total(memory) \in Nat /\ Cardinality(verifying) \in Nat
        /\ Events \in Nat /\ Slack \in Nat
    BY <1>t, LoginFacts
  <2>2. /\ failed' \in [Ages -> Nat] /\ verifying' \in SUBSET LoginRequests
        /\ switches' \in Nat /\ restarts' \in Nat
    BY <1>t, LimiterAssumption DEF LoginTypeOK
  <2>3. Total(failed') \in Nat
    <3>1. Window \in 0 .. Window
      BY WindowTyped
    <3> QED
      BY <3>1, <2>2, YoungerFacts
  <2>4. Cardinality(verifying') \in Nat
    BY <2>2, RequestsCounted
  <2>5. Slack' \in Nat
    <3>1. Slack' = Round * (switches' + restarts')
      BY DEF Slack, Round, Events
    <3>2. switches' + restarts' \in Nat
      <4>1. \A a, b \in Nat : a + b \in Nat
        OBVIOUS
      <4> QED
        BY <4>1, <2>2
    <3> QED
      BY <3>1, <3>2, RequestsCounted, OneMoreEvent
  <2> QED
    BY <2>1, <2>3, <2>4, <2>5
<1>y. /\ \A j \in 0 .. Window : /\ Younger(failed, j) \in Nat /\ Younger(memory, j) \in Nat
                                /\ Younger(failed, j) <= Total(failed)
      /\ Total(failed) = Younger(failed, Window) /\ Total(memory) = Younger(memory, Window)
      /\ Younger(failed, 0) = 0 /\ Younger(memory, 0) = 0
  BY <1>t, LoginFacts
<1>w. Window \in Nat /\ Window >= 1 /\ Ages = 0 .. Window - 1
  BY WindowTyped
<1>m. /\ failed \in [Ages -> Nat] /\ memory \in [Ages -> Nat] /\ redisCount \in Nat
      /\ redisTTL \in 0 .. Window /\ verifying \in SUBSET LoginRequests
      /\ redisCount = 0 <=> redisTTL = 0
      /\ switches \in Nat /\ restarts \in Nat
  BY <1>t, LimiterAssumption DEF LoginTypeOK
<1>r. Round \in Nat /\ Round >= 1 /\ Cardinality(LoginRequests) \in Nat
      /\ LoginMaxAttempts \in Nat /\ Round = LoginMaxAttempts + Cardinality(LoginRequests)
  BY RequestsCounted
(* An event forgives everything that can be under way.                      *)
<1>e. ASSUME Events' = Events + 1 PROVE Slack' = Slack + Round
  <2>1. Slack' = Round * (Events + 1)
    BY <1>e DEF Slack, Round
  <2> QED
    BY <2>1, <1>f, <1>r, OneMoreEvent DEF Slack
<1>s. ASSUME Events' = Events PROVE Slack' = Slack
  BY <1>s DEF Slack, Round
<1>v. ASSUME failed' = failed, Events' = Events + 1,
             Cardinality(verifying') <= Cardinality(verifying), redisCount' \in Nat, redisTTL' \in 0 .. Window,
             memory' \in [Ages -> Nat]
      PROVE  InFlight' /\ Counted'
  <2>1. Slack' = Slack + Round
    BY <1>v, <1>e
  <2>2. Total(failed') = Total(failed)
    BY <1>v
  <2>3. InFlight'
    BY <1>v, <1>t, <1>f, <1>r, <2>1, <2>2 DEF InFlight, Round
  <2>4. Total(failed) <= Slack'
    BY <1>t, <1>f, <1>r, <2>1 DEF InFlight
  <2>5. \A j \in 0 .. Window : Younger(failed', j) <= Slack'
    BY <1>v, <1>y, <1>f, <2>4
  <2>6. \A j \in 0 .. Window : Younger(memory', j) \in Nat
    BY <1>v, YoungerFacts
  <2>7. Window - redisTTL' \in 0 .. Window
    <3>1. \A i \in 0 .. Window : Window - i \in 0 .. Window
      BY <1>w
    <3> QED
      BY <3>1, <1>v
  <2> QED
    BY <1>v, <1>f, <1>y, <2>2, <2>3, <2>4, <2>5, <2>6, <2>7 DEF Counted
<1>1. ASSUME NEW r \in LoginRequests, Attempt(r) PROVE InFlight' /\ Counted'
  <2>1. /\ UNCHANGED <<hasRedis, redisUp, restarts, switches, redisCount, redisTTL, memory, failed>>
        /\ ~IsBlocked /\ verifying' \in SUBSET LoginRequests
    BY <1>1, <1>m DEF Attempt, faults, counts
  <2>2. Slack' = Slack
    BY <2>1, <1>s DEF Events
  <2>3. Total(failed) <= LoginMaxAttempts - 1 + Slack
    <3>1. CASE UsesRedis
      <4>1. redisCount < LoginMaxAttempts /\ Total(failed) <= redisCount + Slack
        BY <3>1, <2>1, <1>t, <1>m, <1>r DEF IsBlocked, Counted
      <4> QED
        BY <4>1, <1>f, <1>m, <1>r
    <3>2. CASE ~UsesRedis
      <4>1. Total(memory) < LoginMaxAttempts
        BY <3>2, <2>1, <1>f, <1>r DEF IsBlocked
      <4>2. \A j \in 0 .. Window : Younger(failed, j) <= Younger(memory, j) + Slack
        BY <3>2, <1>t DEF Counted
      <4>3. Total(failed) <= Total(memory) + Slack
        BY <4>2, <1>y, <1>w
      <4> QED
        BY <4>1, <4>3, <1>f, <1>r
    <3> QED
      BY <3>1, <3>2
  <2>4. Cardinality(verifying') <= Cardinality(LoginRequests)
    BY <2>1, RequestsCounted
  <2>5. Total(failed') = Total(failed)
    BY <2>1
  <2>6. InFlight'
    BY <2>2, <2>3, <2>4, <2>5, <1>f, <1>r DEF InFlight, Round
  <2> QED
    BY <2>1, <2>2, <2>6, <1>t DEF Counted, UsesRedis
<1>2. ASSUME NEW r \in LoginRequests, Fail(r) PROVE InFlight' /\ Counted'
  <2>1. failed' = [failed EXCEPT ![0] = @ + 1] /\ UNCHANGED <<hasRedis, redisUp, restarts>>
    BY <1>2 DEF Fail
  <2>2. \A j \in 1 .. Window : Younger(failed', j) = Younger(failed, j) + 1
    BY <2>1, <1>m, OneMore
  <2>3. Younger(failed', 0) = 0 /\ Total(failed') = Younger(failed', Window)
    BY <2>1, <1>m, OneMore, YoungerFacts
  <2>4. Total(failed') = Total(failed) + 1
    BY <2>2, <2>3, <1>y, <1>w
  <2>5. Cardinality(verifying') = Cardinality(verifying) - 1
    BY <1>2, <1>m, RequestsCounted DEF Fail
  <2>6. UsesRedis' = UsesRedis
    BY <2>1 DEF UsesRedis
  <2>7. CASE UsesRedis
    <3>1. redisCount' = redisCount + 1 /\ redisTTL' = Window
      BY <1>2, <2>7 DEF Fail, RegisterFailure, CountInRedis
    <3>2. Slack' = Slack \/ Slack' = Slack + Round
      <4>1. switches' = switches \/ switches' = switches + 1
        BY <1>2, <2>7 DEF Fail, RegisterFailure
      <4> QED
        BY <4>1, <2>1, <1>s, <1>e, <1>m DEF Events
    <3>3. InFlight'
      BY <3>2, <2>4, <2>5, <1>t, <1>f, <1>r DEF InFlight, Round
    <3>4. Total(failed') <= redisCount' + Slack'
      BY <3>1, <3>2, <2>4, <2>7, <1>t, <1>f, <1>r, <1>m DEF Counted
    <3>5. Younger(failed', Window - redisTTL') <= Slack'
      <4>1. Window - redisTTL' = 0
        BY <3>1, <1>w
      <4> QED
        BY <4>1, <2>3, <1>f
    <3> QED
      BY <3>3, <3>4, <3>5, <2>6, <2>7 DEF Counted
  <2>8. CASE ~UsesRedis
    <3>1. memory' = [memory EXCEPT ![0] = @ + 1] /\ switches' = switches
      BY <1>2, <2>8 DEF Fail, RegisterFailure, CountInMemory
    <3>2. Slack' = Slack
      BY <3>1, <2>1, <1>s DEF Events
    <3>3. InFlight'
      BY <3>2, <2>4, <2>5, <1>t, <1>f, <1>r DEF InFlight, Round
    <3>4. \A j \in 1 .. Window : Younger(memory', j) = Younger(memory, j) + 1
      BY <3>1, <1>m, OneMore
    <3>5. Younger(memory', 0) = 0
      BY <3>1, <1>m, OneMore, YoungerFacts
    <3>6. ASSUME NEW j \in 0 .. Window PROVE Younger(failed', j) <= Younger(memory', j) + Slack'
      <4>1. CASE j = 0
        BY <4>1, <2>3, <3>5, <1>f
      <4>2. CASE j # 0
        <5>1. j \in 1 .. Window
          BY <4>2, <1>w
        <5>2. Younger(failed, j) <= Younger(memory, j) + Slack
          BY <2>8, <1>t DEF Counted
        <5> QED
          BY <5>1, <5>2, <2>2, <3>2, <3>4, <1>y, <1>f
      <4> QED
        BY <4>1, <4>2
    <3> QED
      BY <3>3, <3>6, <2>6, <2>8 DEF Counted
  <2> QED
    BY <2>7, <2>8
<1>3. ASSUME NEW r \in LoginRequests, RefuseInactive(r) PROVE InFlight' /\ Counted'
  <2>1. /\ UNCHANGED <<hasRedis, redisUp, restarts, switches, redisCount, redisTTL, memory, failed>>
        /\ Cardinality(verifying') = Cardinality(verifying) - 1
    BY <1>3, <1>m, RequestsCounted DEF RefuseInactive, faults, counts
  <2>2. Slack' = Slack /\ Total(failed') = Total(failed)
    BY <2>1, <1>s DEF Events
  <2>3. InFlight'
    BY <2>1, <2>2, <1>t, <1>f, <1>r DEF InFlight, Round
  <2> QED
    BY <2>1, <2>2, <2>3, <1>t DEF Counted, UsesRedis
<1>4. ASSUME NEW r \in LoginRequests, Succeed(r) PROVE InFlight' /\ Counted'
  <2>1. /\ UNCHANGED <<hasRedis, redisUp, restarts, switches>> /\ failed' = None
        /\ Cardinality(verifying') = Cardinality(verifying) - 1
    BY <1>4, <1>m, RequestsCounted DEF Succeed, faults
  <2>2. Slack' = Slack
    BY <2>1, <1>s DEF Events
  <2>3. \A j \in 0 .. Window : Younger(failed', j) = 0
    BY <2>1, NoneYounger
  <2>4. Total(failed') = 0
    BY <2>1, <2>3, <1>w, NoneYounger, YoungerFacts
  <2>5. InFlight'
    BY <2>1, <2>2, <2>4, <1>t, <1>f, <1>r DEF InFlight, Round
  <2>6. redisCount' \in Nat /\ redisTTL' \in 0 .. Window /\ memory' \in [Ages -> Nat]
    BY <1>t DEF LoginTypeOK
  <2>7. Window - redisTTL' \in 0 .. Window
    <3>1. \A i \in 0 .. Window : Window - i \in 0 .. Window
      BY <1>w
    <3> QED
      BY <3>1, <2>6
  <2>8. \A j \in 0 .. Window : Younger(memory', j) \in Nat
    BY <2>6, YoungerFacts
  <2>9. \A j \in 0 .. Window : Younger(failed', j) <= Younger(memory', j) + Slack'
    BY <2>2, <2>3, <2>8, <1>f
  <2>10. Total(failed') <= redisCount' + Slack'
    <3>1. redisCount' \in Nat /\ Slack' \in Nat /\ Total(failed') = 0
      BY <2>4, <2>6, <1>f
    <3>2. \A a, b \in Nat : 0 <= a + b
      OBVIOUS
    <3> QED
      BY <3>1, <3>2
  <2>11. Younger(failed', Window - redisTTL') <= Slack'
    BY <2>2, <2>3, <2>7, <1>f
  <2> QED
    BY <2>5, <2>9, <2>10, <2>11 DEF Counted
<1>5. ASSUME LoginTick PROVE InFlight' /\ Counted'
  <2>1. /\ UNCHANGED <<hasRedis, redisUp, restarts, switches, verifying>>
        /\ failed' = Older(failed) /\ memory' = Older(memory)
        /\ redisTTL' = IF redisTTL = 0 THEN 0 ELSE redisTTL - 1
        /\ redisCount' = IF redisTTL <= 1 THEN 0 ELSE redisCount
    BY <1>5 DEF LoginTick, faults
  <2>2. Slack' = Slack /\ UsesRedis' = UsesRedis
    BY <2>1, <1>s DEF Events, UsesRedis
  <2>3. /\ \A j \in Ages : Younger(failed', j + 1) = Younger(failed, j)
        /\ \A j \in Ages : Younger(memory', j + 1) = Younger(memory, j)
    BY <2>1, <1>m, OlderSum
  <2>4. /\ Younger(failed', 0) = 0 /\ Younger(memory', 0) = 0
        /\ Total(failed') = Younger(failed', Window)
    BY <2>1, <1>m, OlderSum, YoungerFacts
  <2>5. Total(failed') = Younger(failed, Window - 1)
    <3>1. Window - 1 \in Ages /\ (Window - 1) + 1 = Window
      BY <1>w
    <3> QED
      BY <3>1, <2>3, <2>4
  <2>6. Total(failed') <= Total(failed)
    <3>1. Window - 1 \in 0 .. Window
      BY <1>w
    <3> QED
      BY <3>1, <2>5, <1>y
  <2>7. InFlight'
    <3>1. verifying' = verifying
      BY <2>1
    <3> QED
      BY <3>1, <2>2, <2>6, <1>t, <1>f, <1>r DEF InFlight, Round
  <2>8. CASE UsesRedis
    <3>1. Total(failed) <= redisCount + Slack /\ Younger(failed, Window - redisTTL) <= Slack
      BY <2>8, <1>t DEF Counted
    <3>2. CASE redisTTL = 0
      <4>1. redisCount' = 0 /\ redisTTL' = 0 /\ redisCount = 0 /\ Window - redisTTL' = Window
        BY <3>2, <2>1, <1>m, <1>w
      <4>2. Total(failed') <= Slack'
        BY <4>1, <3>1, <2>2, <2>6, <1>f
      <4> QED
        BY <4>1, <4>2, <2>2, <2>4, <2>7, <2>8, <1>f DEF Counted
    <3>3. CASE redisTTL = 1
      <4>1. redisCount' = 0 /\ redisTTL' = 0 /\ Window - redisTTL' = Window
        BY <3>3, <2>1, <1>m, <1>w
      <4>2. Total(failed') <= Slack'
        BY <3>1, <3>3, <2>2, <2>5, <1>f
      <4> QED
        BY <4>1, <4>2, <2>2, <2>4, <2>7, <2>8, <1>f DEF Counted
    <3>4. CASE redisTTL > 1
      <4>1. redisCount' = redisCount /\ redisTTL' = redisTTL - 1
        BY <3>4, <2>1, <1>m
      <4>2. Window - redisTTL \in Ages /\ Window - redisTTL' = (Window - redisTTL) + 1
        BY <3>4, <4>1, <1>m, <1>w
      <4>3. Younger(failed', Window - redisTTL') = Younger(failed, Window - redisTTL)
        BY <4>2, <2>3
      <4>4. Total(failed') <= redisCount' + Slack'
        BY <4>1, <3>1, <2>2, <2>6, <1>f, <1>m
      <4> QED
        BY <4>3, <4>4, <3>1, <2>2, <2>7, <2>8 DEF Counted
    <3> QED
      BY <3>2, <3>3, <3>4, <1>m
  <2>9. CASE ~UsesRedis
    <3>1. ASSUME NEW j \in 0 .. Window PROVE Younger(failed', j) <= Younger(memory', j) + Slack'
      <4>1. CASE j = 0
        BY <4>1, <2>4, <1>f
      <4>2. CASE j # 0
        <5>1. j - 1 \in Ages /\ (j - 1) + 1 = j /\ j - 1 \in 0 .. Window
          BY <4>2, <1>w
        <5>2. Younger(failed, j - 1) <= Younger(memory, j - 1) + Slack
          BY <5>1, <2>9, <1>t DEF Counted
        <5>3. Younger(failed', j) = Younger(failed, j - 1) /\ Younger(memory', j) = Younger(memory, j - 1)
          BY <5>1, <2>3
        <5> QED
          BY <5>2, <5>3, <2>2
      <4> QED
        BY <4>1, <4>2
    <3> QED
      BY <3>1, <2>2, <2>7, <2>9 DEF Counted
  <2> QED
    BY <2>8, <2>9
<1>6. ASSUME RedisChanges PROVE InFlight' /\ Counted'
  <2>1. /\ failed' = failed /\ memory' = memory /\ verifying' = verifying
        /\ redisCount' = redisCount /\ redisTTL' = redisTTL
        /\ switches' = switches + 1 /\ restarts' = restarts
    BY <1>6 DEF RedisChanges, counts
  <2>2. Events' = Events + 1
    BY <2>1, <1>m DEF Events
  <2>3. Cardinality(verifying') <= Cardinality(verifying)
    BY <2>1, <1>f
  <2> QED
    BY <2>1, <2>2, <2>3, <1>m, <1>v
<1>7. ASSUME Restart PROVE InFlight' /\ Counted'
  <2>1. /\ failed' = failed /\ memory' = None /\ verifying' = {}
        /\ redisCount' = redisCount /\ redisTTL' = redisTTL
        /\ switches' = switches /\ restarts' = restarts + 1
    BY <1>7 DEF Restart
  <2>2. Events' = Events + 1
    BY <2>1, <1>m DEF Events
  <2>3. Cardinality(verifying') <= Cardinality(verifying)
    BY <2>1, <1>f, FS_EmptySet
  <2>4. memory' \in [Ages -> Nat]
    BY <2>1, NoneYounger
  <2> QED
    BY <2>1, <2>2, <2>3, <2>4, <1>m, <1>v
<1>8. ASSUME UNCHANGED loginVars PROVE InFlight' /\ Counted'
  <2>1. UNCHANGED <<hasRedis, redisUp, restarts, switches, redisCount, redisTTL, memory, failed, verifying>>
    BY <1>8 DEF loginVars, faults, counts
  <2>2. Slack' = Slack /\ Total(failed') = Total(failed)
    BY <2>1, <1>s DEF Events
  <2> QED
    BY <2>1, <2>2, <1>t DEF Counted, UsesRedis, InFlight, Round
<1> QED
  BY <1>t, <1>1, <1>2, <1>3, <1>4, <1>5, <1>6, <1>7, <1>8 DEF LoginNext, LoginInv

LEMMA LoginInvBounds == LoginInv => FailuresBounded
<1> SUFFICES ASSUME LoginInv PROVE FailuresBounded
  OBVIOUS
<1>1. /\ Total(failed) \in Nat /\ Cardinality(verifying) \in Nat /\ Events \in Nat
      /\ Total(failed) + Cardinality(verifying) <= Slack + Round - 1
  BY LoginFacts DEF LoginInv, InFlight
<1>2. /\ LoginMaxAttempts \in Nat /\ Cardinality(LoginRequests) \in Nat
      /\ Round = LoginMaxAttempts + Cardinality(LoginRequests)
  BY RequestsCounted
<1>3. \A m, n, e \in Nat : (m + n) * e = m * e + n * e /\ m * (1 + e) = m + m * e /\ m * e \in Nat
  OBVIOUS
<1>4. Slack = LoginMaxAttempts * Events + Cardinality(LoginRequests) * Events
  BY <1>1, <1>2, <1>3 DEF Slack
<1>5. /\ LoginMaxAttempts * (1 + Events) = LoginMaxAttempts + LoginMaxAttempts * Events
      /\ LoginMaxAttempts * Events \in Nat /\ Cardinality(LoginRequests) * Events \in Nat
  BY <1>1, <1>2, <1>3
<1>6. Total(failed) <= LoginMaxAttempts * (1 + Events) + Cardinality(LoginRequests) * Events
                       + Cardinality(LoginRequests) - 1
  BY <1>1, <1>2, <1>4, <1>5
<1> QED
  BY <1>6 DEF FailuresBounded, Events

(* The counts of the limiter are numbers, and Redis keeps one as long as    *)
(* its key has time to live.                                                *)
THEOREM LoginTyping == LoginSpec => []LoginTypeOK
BY LoginInitTyped, LoginStepTyped, PTL DEF LoginSpec

(* is_blocked and register_failure: however the threads interleave, Redis   *)
(* comes and goes and the server restarts, the failures of a window exceed  *)
(* the limit by no more than the requests under way, and by a new count for *)
(* each time the counter is another one.                                    *)
THEOREM LoginBound == LoginSpec => []FailuresBounded
BY LoginInitInv, LoginStepInv, LoginInvBounds, PTL DEF LoginSpec

-----------------------------------------------------------------------------
(* The playback of the flights *)



(* The multiples of s leave no gap of s.                                    *)
LEMMA NextMultiple ==
  ASSUME NEW s \in Nat \ {0}, NEW d \in Nat
  PROVE  \E m \in Nat : m >= d /\ m - d < s /\ m % s = 0
<1> DEFINE T == {n \in Nat : \E q \in Nat : s * q >= n /\ s * q - n < s}
<1>1. 0 \in T
  OBVIOUS
<1>2. ASSUME NEW n \in Nat, n \in T PROVE n + 1 \in T
  <2>1. PICK q \in Nat : s * q >= n /\ s * q - n < s
    BY <1>2
  <2>2. s * q \in Nat /\ s * (q + 1) = s * q + s
    OBVIOUS
  <2>3. CASE s * q = n
    <3>1. s * (q + 1) >= n + 1 /\ s * (q + 1) - (n + 1) < s /\ q + 1 \in Nat
      BY <2>2, <2>3
    <3>2. \E r \in Nat : s * r >= n + 1 /\ s * r - (n + 1) < s
      BY <3>1, Zenon
    <3> QED
      BY <3>2
  <2>4. CASE s * q # n
    <3>1. s * q >= n + 1 /\ s * q - (n + 1) < s
      BY <2>1, <2>2, <2>4
    <3>2. \E r \in Nat : s * r >= n + 1 /\ s * r - (n + 1) < s
      BY <3>1, Zenon
    <3> QED
      BY <3>2
  <2> QED
    BY <2>3, <2>4
<1>3. d \in T
  <2> HIDE DEF T
  <2> QED
    BY <1>1, <1>2, Counting
<1>4. PICK q \in Nat : s * q >= d /\ s * q - d < s
  BY <1>3
<1>5. s * q \in Nat /\ (s * q) % s = 0
  OBVIOUS
<1> QED
  BY <1>4, <1>5

FlightRecord ==
  [contact : FlightContacts, status : FlightStatus, accepted : Nat, completed : Nat]

FlightInv == FlightTypeOK /\ flights \in Seq(FlightRecord)

(* Flights whose times are past.                                            *)
Past(fs, t) ==
  /\ fs \in Seq(FlightRecord)
  /\ \A i \in 1 .. Len(fs) : fs[i].accepted <= t /\ fs[i].completed <= t

LEMMA PastFacts ==
  ASSUME NEW fs, NEW t \in Nat, Past(fs, t)
  PROVE  /\ Len(fs) \in Nat /\ DOMAIN fs = 1 .. Len(fs)
         /\ \A i \in DOMAIN fs : /\ fs[i] \in FlightRecord
                                 /\ {fs[i].accepted, fs[i].completed} \subseteq 0 .. t
<1>1. Len(fs) \in Nat /\ DOMAIN fs = 1 .. Len(fs) /\ \A i \in 1 .. Len(fs) : fs[i] \in FlightRecord
  BY LenProperties, ElementOfSeq DEF Past
<1> QED
  BY <1>1 DEF Past, FlightRecord

LEMMA InvIsPast == FlightInv <=> /\ now \in 0 .. MaxNow
                                 /\ target \in [FlightContacts -> Distances]
                                 /\ tracked \in BOOLEAN
                                 /\ Past(flights, now)
<1>1. 0 .. MaxNow \subseteq Nat
  BY FlightAssumption
<1>2. ASSUME FlightInv PROVE Past(flights, now)
  <2>1. Len(flights) \in Nat /\ DOMAIN flights = 1 .. Len(flights)
    BY <1>2, LenProperties DEF FlightInv
  <2> QED
    BY <1>2, <2>1 DEF FlightInv, FlightTypeOK, Past
<1>3. ASSUME now \in 0 .. MaxNow, Past(flights, now)
      PROVE  \A i \in DOMAIN flights :
               /\ flights[i].contact \in FlightContacts
               /\ flights[i].status \in FlightStatus
               /\ {flights[i].accepted, flights[i].completed} \subseteq 0 .. now
  BY <1>1, <1>3, PastFacts DEF FlightRecord
<1> QED
  BY <1>2, <1>3 DEF FlightInv, FlightTypeOK, Past

LEMMA MappedSeq ==
  ASSUME NEW n \in Nat, NEW S, NEW g \in [1 .. n -> S]
  PROVE  g \in Seq(S) /\ Len(g) = n
OBVIOUS

(* Replacing a flight by one whose times are past.                          *)
LEMMA ReplacedIsPast ==
  ASSUME NEW fs, NEW t \in Nat, Past(fs, t), NEW gs, DOMAIN gs = DOMAIN fs,
         gs = [i \in DOMAIN gs |-> gs[i]],
         \A i \in DOMAIN fs : /\ gs[i] \in FlightRecord
                              /\ gs[i].accepted <= t /\ gs[i].completed <= t
  PROVE  Past(gs, t)
<1>1. Len(fs) \in Nat /\ DOMAIN fs = 1 .. Len(fs)
  BY PastFacts
<1>2. gs \in [1 .. Len(fs) -> FlightRecord]
  BY <1>1
<1>3. gs \in Seq(FlightRecord) /\ Len(gs) = Len(fs)
  BY <1>1, <1>2, MappedSeq
<1> QED
  BY <1>1, <1>3 DEF Past

LEMMA AdvancedIsPast ==
  ASSUME FlightInv
  PROVE  Past(Advanced, now) /\ DOMAIN Advanced = DOMAIN flights
<1>1. now \in Nat /\ Past(flights, now)
  BY InvIsPast, FlightAssumption
<1>2. \A i \in DOMAIN flights : flights[i] \in FlightRecord
                                /\ flights[i].accepted <= now /\ flights[i].completed <= now
  BY <1>1, PastFacts DEF Past
<1>3. DOMAIN Advanced = DOMAIN flights /\ Advanced = [i \in DOMAIN Advanced |-> Advanced[i]]
  BY DEF Advanced
<1>4. ASSUME NEW i \in DOMAIN flights
      PROVE  /\ Advanced[i] \in FlightRecord
             /\ Advanced[i].accepted <= now /\ Advanced[i].completed <= now
  <2>1. Advanced[i] = flights[i] \/ Advanced[i] = [flights[i] EXCEPT !.status = "completed", !.completed = now]
    BY DEF Advanced
  <2> DEFINE f == flights[i]
             g == [f EXCEPT !.status = "completed", !.completed = now]
  <2>2. f \in FlightRecord
    BY <1>2
  <2> HIDE DEF f
  <2>3. g \in FlightRecord /\ g.accepted = f.accepted /\ g.completed = now
    BY <1>1, <2>2 DEF FlightRecord, FlightStatus
  <2>4. Advanced[i] = f \/ Advanced[i] = g
    BY <2>1 DEF f
  <2>5. f.accepted <= now /\ f.completed <= now
    BY <1>2 DEF f
  <2> HIDE DEF g
  <2>6. CASE Advanced[i] = f
    BY <2>2, <2>5, <2>6
  <2>7. CASE Advanced[i] = g
    BY <1>1, <2>3, <2>5, <2>7
  <2> QED
    BY <2>4, <2>6, <2>7
<1> QED
  BY <1>1, <1>3, <1>4, ReplacedIsPast

LEMMA FlightInitInv == FlightInit => FlightInv
<1> SUFFICES ASSUME FlightInit PROVE FlightInv
  OBVIOUS
<1>1. flights \in Seq(FlightRecord) /\ Len(flights) = 0
  BY EmptySeq DEF FlightInit
<1>2. now = 0 /\ now \in 0 .. MaxNow
  BY FlightAssumption DEF FlightInit
<1>3. Past(flights, now)
  BY <1>1 DEF Past
<1> QED
  BY <1>2, <1>3, InvIsPast DEF FlightInit

LEMMA FlightStepInv == FlightInv /\ [FlightNext]_flightVars => FlightInv'
<1> SUFFICES ASSUME FlightInv, [FlightNext]_flightVars PROVE FlightInv'
  OBVIOUS
<1>1. /\ now \in 0 .. MaxNow /\ now \in Nat /\ target \in [FlightContacts -> Distances] /\ tracked \in BOOLEAN
      /\ Past(flights, now)
  BY InvIsPast, FlightAssumption
<1>2. Past(Advanced, now) /\ DOMAIN Advanced = DOMAIN flights
  BY AdvancedIsPast
<1>3. \A i \in DOMAIN Advanced : /\ Advanced[i] \in FlightRecord
                                 /\ Advanced[i].accepted <= now /\ Advanced[i].completed <= now
  BY <1>1, <1>2, PastFacts DEF Past
<1>q. ASSUME now' \in 0 .. MaxNow, target' \in [FlightContacts -> Distances], tracked' \in BOOLEAN,
             Past(flights', now')
      PROVE  FlightInv'
  <2>1. now' \in Nat
    BY <1>q, FlightAssumption
  <2>2. \A i \in DOMAIN flights' :
          /\ flights'[i].contact \in FlightContacts
          /\ flights'[i].status \in FlightStatus
          /\ {flights'[i].accepted, flights'[i].completed} \subseteq 0 .. now'
    BY <1>q, <2>1, PastFacts DEF FlightRecord
  <2> QED
    BY <1>q, <2>2 DEF FlightInv, FlightTypeOK, Past
<1>4. CASE View
  BY <1>4, <1>1, <1>2, <1>q DEF View
<1>5. ASSUME NEW c \in FlightContacts, NEW d \in Distances, Report(c, d) PROVE FlightInv'
  <2>1. now' = now /\ tracked' = tracked /\ target' \in [FlightContacts -> Distances]
    BY <1>5, <1>1 DEF Report
  <2>2. \A i \in DOMAIN flights : flights[i] \in FlightRecord
                                  /\ flights[i].accepted <= now /\ flights[i].completed <= now
    BY <1>1, PastFacts DEF Past
  <2>3. CASE flights' = flights
    BY <2>1, <2>3, <1>1, <1>q
  <2>4. CASE flights' = Append(flights, [contact |-> c, status |-> "pending", accepted |-> 0, completed |-> 0])
    <3> DEFINE e == [contact |-> c, status |-> "pending", accepted |-> 0, completed |-> 0]
    <3>1. e \in FlightRecord /\ e.accepted = 0 /\ e.completed = 0
      BY DEF FlightRecord, FlightStatus
    <3> HIDE DEF e
    <3>2. flights \in Seq(FlightRecord)
      BY <1>1 DEF Past
    <3>3. /\ Append(flights, e) \in Seq(FlightRecord)
          /\ Len(Append(flights, e)) = Len(flights) + 1
          /\ \A i \in 1 .. Len(flights) : Append(flights, e)[i] = flights[i]
          /\ Append(flights, e)[Len(flights) + 1] = e
      BY <3>1, <3>2, AppendProperties
    <3>4. Len(flights) \in Nat
      BY <3>2, LenProperties
    <3>5. Past(Append(flights, e), now)
      BY <3>1, <3>3, <3>4, <1>1 DEF Past
    <3> QED
      BY <2>1, <2>4, <3>5, <1>1, <1>q DEF e
  <2>5. CASE \E S \in SUBSET FlightStatus :
               flights' = [i \in DOMAIN flights |->
                             IF (flights[i].contact = c /\ flights[i].status \in {"pending", "accepted"})
                                /\ flights[i].status \in S
                             THEN [flights[i] EXCEPT !.status = "expired"] ELSE flights[i]]
    <3>1. DOMAIN flights' = DOMAIN flights /\ flights' = [i \in DOMAIN flights' |-> flights'[i]]
      BY <2>5
    <3>2. ASSUME NEW i \in DOMAIN flights
          PROVE  /\ flights'[i] \in FlightRecord
                 /\ flights'[i].accepted <= now /\ flights'[i].completed <= now
      <4>1. flights'[i] = flights[i] \/ flights'[i] = [flights[i] EXCEPT !.status = "expired"]
        BY <2>5
      <4> QED
        BY <2>2, <4>1 DEF FlightRecord, FlightStatus
    <3>3. Past(flights', now)
      BY <3>1, <3>2, <1>1, ReplacedIsPast
    <3> QED
      BY <2>1, <3>3, <1>1, <1>q
  <2> QED
    <3>1. {"pending", "accepted"} \in SUBSET FlightStatus /\ {"pending"} \in SUBSET FlightStatus
      BY DEF FlightStatus
    <3> QED
      BY <1>5, <2>3, <2>4, <2>5, <3>1 DEF Report
<1>6. ASSUME NEW i \in DOMAIN flights, AcceptFlight(i) PROVE FlightInv'
  <2>1. /\ now' = now /\ tracked' = tracked /\ target' = target
        /\ flights' = [Advanced EXCEPT ![i].status = "accepted", ![i].accepted = now]
    BY <1>6 DEF AcceptFlight
  <2>2. flights' = [Advanced EXCEPT ![i] = [Advanced[i] EXCEPT !.status = "accepted", !.accepted = now]]
    BY <2>1, <1>2
  <2> DEFINE b == Advanced[i]
             f == [b EXCEPT !.status = "accepted", !.accepted = now]
  <2>b. b \in FlightRecord /\ b.accepted <= now /\ b.completed <= now
    BY <1>2, <1>3
  <2> HIDE DEF b
  <2>3. f \in FlightRecord /\ f.accepted <= now /\ f.completed <= now
    <3>1. f \in FlightRecord
      BY <1>1, <2>b DEF FlightRecord, FlightStatus
    <3>2. f.completed = b.completed /\ f.accepted \in {b.accepted, now}
      BY <2>b DEF FlightRecord
    <3> QED
      BY <1>1, <2>b, <3>1, <3>2
  <2> HIDE DEF f
  <2>4. Past(flights', now)
    BY <2>2, <2>3, <1>1, <1>2, <1>3, ReplacedIsPast DEF f, b
  <2> QED
    BY <2>1, <2>4, <1>1, <1>q
<1>7. ASSUME NEW i \in DOMAIN flights, RejectFlight(i) PROVE FlightInv'
  <2>1. /\ now' = now /\ tracked' = tracked /\ target' = target
        /\ flights' = [Advanced EXCEPT ![i].status = "rejected"]
    BY <1>7 DEF RejectFlight
  <2>2. flights' = [Advanced EXCEPT ![i] = [Advanced[i] EXCEPT !.status = "rejected"]]
    BY <2>1, <1>2
  <2> DEFINE b == Advanced[i]
             f == [b EXCEPT !.status = "rejected"]
  <2>b. b \in FlightRecord /\ b.accepted <= now /\ b.completed <= now
    BY <1>2, <1>3
  <2> HIDE DEF b
  <2>3. f \in FlightRecord /\ f.accepted <= now /\ f.completed <= now
    <3>1. f \in FlightRecord
      BY <1>1, <2>b DEF FlightRecord, FlightStatus
    <3>2. f.completed = b.completed /\ f.accepted \in {b.accepted, now}
      BY <2>b DEF FlightRecord
    <3> QED
      BY <1>1, <2>b, <3>1, <3>2
  <2> HIDE DEF f
  <2>4. Past(flights', now)
    BY <2>2, <2>3, <1>1, <1>2, <1>3, ReplacedIsPast DEF f, b
  <2> QED
    BY <2>1, <2>4, <1>1, <1>q
<1>8. ASSUME NEW i \in DOMAIN flights, CompleteFlight(i) PROVE FlightInv'
  <2> DEFINE a == IF Advanced[i].status = "pending" THEN now ELSE Advanced[i].accepted
             b == Advanced[i]
             f == [b EXCEPT !.status = "completed", !.completed = now, !.accepted = a]
  <2>1. /\ now' = now /\ tracked' = tracked /\ target' = target
        /\ flights' = [Advanced EXCEPT ![i] = f]
    BY <1>8, <1>2 DEF CompleteFlight
  <2>2. a \in Nat /\ a <= now
    BY <1>1, <1>2, <1>3 DEF FlightRecord
  <2>b. b \in FlightRecord
    BY <1>2, <1>3
  <2> HIDE DEF a, b
  <2>3. f \in FlightRecord /\ f.accepted = a /\ f.completed = now
    BY <1>1, <2>b, <2>2 DEF FlightRecord, FlightStatus
  <2> HIDE DEF f
  <2>4. Past(flights', now)
    <3>1. \A j \in DOMAIN flights' : flights'[j] = IF j = i THEN f ELSE Advanced[j]
      BY <2>1
    <3>2. DOMAIN flights' = DOMAIN Advanced /\ flights' = [j \in DOMAIN flights' |-> flights'[j]]
      BY <2>1
    <3>3. f.accepted <= now /\ f.completed <= now
      BY <1>1, <2>2, <2>3
    <3> QED
      BY <2>3, <3>1, <3>2, <3>3, <1>1, <1>2, <1>3, ReplacedIsPast
  <2> QED
    BY <2>1, <2>4, <1>1, <1>q
<1>9. CASE FirstPacket
  BY <1>9, <1>1, <1>q DEF FirstPacket
<1>10. CASE FlightTick
  <2>1. /\ now' = now + 1 /\ now' \in 0 .. MaxNow /\ UNCHANGED <<flights, target, tracked>>
    BY <1>10, <1>1, FlightAssumption DEF FlightTick
  <2>2. Past(flights, now + 1)
    <3>1. \A i \in 1 .. Len(flights) : flights[i].accepted \in Nat /\ flights[i].completed \in Nat
      <4>1. \A i \in 1 .. Len(flights) : flights[i] \in FlightRecord
        BY <1>1, ElementOfSeq DEF Past
      <4> QED
        BY <4>1 DEF FlightRecord
    <3> QED
      BY <3>1, <1>1 DEF Past
  <2> QED
    BY <2>1, <2>2, <1>1, <1>q
<1>11. CASE UNCHANGED flightVars
  BY <1>11, <1>1, <1>q DEF flightVars
<1> QED
  BY <1>4, <1>5, <1>6, <1>7, <1>8, <1>9, <1>10, <1>11 DEF FlightNext

LEMMA StepIsPositive ==
  ASSUME FlightInv, NEW f \in FlightRecord PROVE StepOf(f) \in Nat \ {0}
<1>1. target[f.contact] \in Nat
  BY FlightAssumption DEF FlightInv, FlightTypeOK, FlightRecord
<1>2. Duration(f) \in Nat
  BY <1>1, FlightAssumption DEF Duration, Larger
<1>3. Duration(f) \div Slices \in Nat
  BY <1>2, FlightAssumption
<1> QED
  BY <1>3, FlightAssumption DEF StepOf, Larger

LEMMA InvPlayback == FlightInv => PlaybackAgrees
<1> SUFFICES ASSUME FlightInv, NEW window \in Windows
             PROVE  LET points == Playback(Advanced, window)
                        from == now - window
                    IN  /\ IsShown(Advanced) /\ Shown(Advanced).at >= from => Shown(Advanced) \in points
                        /\ \A p \in points : from <= p.at /\ p.at <= now
                        /\ \A i \in DOMAIN flights :
                             LET f == Advanced[i]
                             IN  f.status \in Flown =>
                                   \A t \in Larger(from, f.accepted) .. EndOf(f) :
                                     \E p \in points :
                                       p.flight = i /\ p.at >= t /\ p.at - t < StepOf(f)
  BY DEF PlaybackAgrees
<1> DEFINE from == now - window
           points == Playback(Advanced, window)
           flown == {j \in DOMAIN Advanced : Advanced[j].status \in Flown}
<1>1. now \in Nat /\ from \in Int
  BY FlightAssumption DEF FlightInv, FlightTypeOK
<1>2. Past(Advanced, now) /\ DOMAIN Advanced = DOMAIN flights
  BY AdvancedIsPast
<1>3. /\ Len(Advanced) \in Nat /\ DOMAIN Advanced = 1 .. Len(Advanced)
      /\ \A i \in DOMAIN Advanced : /\ Advanced[i] \in FlightRecord
                                    /\ {Advanced[i].accepted, Advanced[i].completed} \subseteq 0 .. now
  BY <1>1, <1>2, PastFacts
<1>4. ASSUME NEW i \in DOMAIN Advanced
      PROVE  /\ EndOf(Advanced[i]) \in 0 .. now
             /\ StepOf(Advanced[i]) \in Nat \ {0}
             /\ Larger(Advanced[i].accepted, from) \in Int
             /\ Larger(Advanced[i].accepted, from) >= from
             /\ Larger(from, Advanced[i].accepted) = Larger(Advanced[i].accepted, from)
  <2>1. StepOf(Advanced[i]) \in Nat \ {0}
    BY <1>3, StepIsPositive
  <2>2. EndOf(Advanced[i]) \in 0 .. now
    BY <1>1, <1>3 DEF EndOf
  <2>3. Advanced[i].accepted \in Int
    BY <1>3
  <2> QED
    BY <1>1, <2>1, <2>2, <2>3 DEF Larger
<1>5. ASSUME NEW i \in DOMAIN Advanced
      PROVE  /\ \A t \in SampleTimes(Advanced[i], window) : t \in Int /\ from <= t /\ t <= now
             /\ EndOf(Advanced[i]) >= from => EndOf(Advanced[i]) \in SampleTimes(Advanced[i], window)
             /\ \A t \in Larger(from, Advanced[i].accepted) .. EndOf(Advanced[i]) :
                  \E s \in SampleTimes(Advanced[i], window) : s >= t /\ s - t < StepOf(Advanced[i])
  <2> DEFINE f == Advanced[i]
             start == Larger(f.accepted, from)
             end == EndOf(f)
             step == StepOf(f)
             steps == {t \in start .. end : (t - start) % step = 0}
             samples == SampleTimes(f, window)
  <2>1. /\ start \in Int /\ start >= from /\ end \in 0 .. now /\ step \in Nat \ {0}
        /\ Larger(from, f.accepted) = start
    BY <1>4
  <2>2. samples = IF end < from THEN {} ELSE steps \cup {end}
    BY DEF SampleTimes
  <2> HIDE DEF f, start, end, step, from, samples
  <2>3. \A t \in samples : t \in Int /\ from <= t /\ t <= now
    BY <1>1, <2>1, <2>2
  <2>4. end >= from => end \in samples
    BY <1>1, <2>1, <2>2
  <2>5. ASSUME NEW t \in start .. end PROVE \E s \in samples : s >= t /\ s - t < step
    <3>1. t - start \in Nat /\ end >= from
      BY <1>1, <2>1
    <3>2. PICK m \in Nat : m >= t - start /\ m - (t - start) < step /\ m % step = 0
      BY <2>1, <3>1, NextMultiple
    <3>3. CASE start + m <= end
      <4>1. start + m \in steps
        <5>1. (start + m) - start = m /\ start + m \in start .. end
          BY <2>1, <3>2, <3>3
        <5> QED
          BY <3>2, <5>1
      <4>2. start + m \in samples
        BY <1>1, <2>1, <2>2, <3>1, <4>1
      <4>3. start + m >= t /\ (start + m) - t < step
        BY <2>1, <3>1, <3>2
      <4> QED
        BY <4>2, <4>3
    <3>4. CASE ~ (start + m <= end)
      <4>1. end >= t /\ end - t < step
        BY <2>1, <3>1, <3>2, <3>4
      <4> QED
        BY <2>4, <3>1, <4>1
    <3> QED
      BY <3>3, <3>4
  <2> QED
    BY <2>1, <2>3, <2>4, <2>5 DEF f, end, step, samples
(* What the playback has a point for.                                       *)
<1>6. \A i \in flown : \A t \in SampleTimes(Advanced[i], window) :
        [flight |-> i, at |-> t, place |-> Place(Advanced[i], t)] \in points
  BY DEF Playback
<1>7. \A p \in points : \E i \in flown : \E t \in SampleTimes(Advanced[i], window) :
        p = [flight |-> i, at |-> t, place |-> Place(Advanced[i], t)]
  BY DEF Playback
<1> HIDE DEF points
<1>8. ASSUME IsShown(Advanced), Shown(Advanced).at >= from PROVE Shown(Advanced) \in points
  <2>1. flown # {} /\ flown \in SUBSET Nat
    BY <1>3, <1>8 DEF IsShown
  <2>2. ShownFlight(Advanced) \in flown
    <3>1. \E m \in flown : \A n \in flown : m <= n
      BY <2>1, LeastMember
    <3> QED
      BY <3>1 DEF ShownFlight, Min
  <2> DEFINE i == ShownFlight(Advanced)
  <2>3. Shown(Advanced) = [flight |-> i, at |-> EndOf(Advanced[i]),
                           place |-> Place(Advanced[i], EndOf(Advanced[i]))]
    BY DEF Shown
  <2>4. EndOf(Advanced[i]) \in SampleTimes(Advanced[i], window)
    BY <1>5, <1>8, <2>2, <2>3
  <2> QED
    BY <1>6, <2>2, <2>3, <2>4
<1>9. \A p \in points : from <= p.at /\ p.at <= now
  BY <1>5, <1>7
<1>10. ASSUME NEW i \in DOMAIN flights, Advanced[i].status \in Flown,
              NEW t \in Larger(from, Advanced[i].accepted) .. EndOf(Advanced[i])
       PROVE  \E p \in points : p.flight = i /\ p.at >= t /\ p.at - t < StepOf(Advanced[i])
  <2>1. i \in flown
    BY <1>2, <1>10
  <2>2. PICK s \in SampleTimes(Advanced[i], window) : s >= t /\ s - t < StepOf(Advanced[i])
    BY <1>5, <2>1
  <2>3. [flight |-> i, at |-> s, place |-> Place(Advanced[i], s)] \in points
    BY <1>6, <2>1
  <2> QED
    BY <2>2, <2>3
<1> QED
  BY <1>8, <1>9, <1>10 DEF points

(* A task is accepted and completed at times that are past, and a target    *)
(* is where it was reported.                                                *)
THEOREM FlightTyping == FlightSpec => []FlightTypeOK
<1>1. FlightInv => FlightTypeOK
  BY DEF FlightInv
<1> QED
  BY <1>1, FlightInitInv, FlightStepInv, PTL DEF FlightSpec

(* build_simulated_track_overrides and build_playback_response: whatever    *)
(* the flights, the window and the distances, the position on the map is a  *)
(* point of the playback unless it is older than the window, all points lie *)
(* in the window, and there is one within a step of every time of a flight. *)
THEOREM PlaybackIsTrue == FlightSpec => []PlaybackAgrees
BY InvPlayback, FlightInitInv, FlightStepInv, PTL DEF FlightSpec

-----------------------------------------------------------------------------
(* The areas of the field layers *)

(* The sign of a product.                                                   *)
LEMMA ProductSign ==
  ASSUME NEW x \in Int, NEW y \in Int
  PROVE  /\ x * y \in Int
         /\ x > 0 /\ y > 0 => x * y > 0
         /\ x > 0 /\ y < 0 => x * y < 0
         /\ x < 0 /\ y > 0 => x * y < 0
         /\ x < 0 /\ y < 0 => x * y > 0
         /\ x = 0 \/ y = 0 => x * y = 0
  OBVIOUS

(* Twice the area of the triangle of two points and the origin: on which    *)
(* side of the line through the one the other lies.                         *)
Det(a1, a2, b1, b2) == a2 * b1 - a1 * b2

LEMMA CrossIsDet ==
  ASSUME NEW p \in Int \X Int, NEW a \in Int \X Int, NEW b \in Int \X Int
  PROVE  Cross(p, a, b) = Det(a[1] - p[1], a[2] - p[2], b[1] - p[1], b[2] - p[2])
  BY DEF Cross, Det

(* An edge crosses the ray of a point upwards with the point on its one     *)
(* side, or downwards with the point on the other.                          *)
LEMMA RayByDet ==
  ASSUME NEW p \in Int \X Int, NEW a \in Int \X Int, NEW b \in Int \X Int
  PROVE  CrossesRay(p, a, b) <=>
           \/ b[2] > p[2] /\ a[2] <= p[2] /\ Cross(p, a, b) < 0
           \/ a[2] > p[2] /\ b[2] <= p[2] /\ Cross(p, a, b) > 0
  BY DEF Cross, CrossesRay

LEMMA CrossTurns ==
  ASSUME NEW p \in Int \X Int, NEW a \in Int \X Int, NEW b \in Int \X Int
  PROVE  Cross(p, a, b) \in Int /\ Cross(p, b, a) = -Cross(p, a, b)
  BY DEF Cross

(* Three points around the origin, by the signs of the areas s, t, u of     *)
(* their pairs and their heights a, b, c: the triangle holds the origin     *)
(* when the ray from it crosses an odd number of its sides.                 *)
LEMMA EdgeBySigns ==
  ASSUME NEW s \in Int, NEW t \in Int, NEW u \in Int,
         NEW c \in Int, NEW a \in Int, NEW b \in Int,
         t # 0, u # 0, b # 0 \/ c # 0, s * c + t * a + u * b = 0,
         s = 0 => (t > 0 /\ u < 0) \/ (t < 0 /\ u > 0)
  PROVE  \/ s > 0 /\ t > 0 /\ u > 0
         \/ s < 0 /\ t < 0 /\ u < 0
         <=> (((b > 0 /\ a <= 0 /\ s < 0) \/ (a > 0 /\ b <= 0 /\ s > 0))
               <=> (((a > 0 /\ c <= 0 /\ u < 0) \/ (c > 0 /\ a <= 0 /\ u > 0))
                    <=> ((b > 0 /\ c <= 0 /\ t > 0) \/ (c > 0 /\ b <= 0 /\ t < 0))))
<1> DEFINE x == s * c
           y == t * a
           z == u * b
<1>1. /\ x \in Int /\ y \in Int /\ z \in Int
      /\ s > 0 /\ c > 0 => x > 0
      /\ s > 0 /\ c < 0 => x < 0
      /\ s < 0 /\ c > 0 => x < 0
      /\ s < 0 /\ c < 0 => x > 0
      /\ s = 0 \/ c = 0 => x = 0
  BY ProductSign
<1>2. /\ t > 0 /\ a > 0 => y > 0
      /\ t > 0 /\ a < 0 => y < 0
      /\ t < 0 /\ a > 0 => y < 0
      /\ t < 0 /\ a < 0 => y > 0
      /\ a = 0 => y = 0
  BY ProductSign
<1>3. /\ u > 0 /\ b > 0 => z > 0
      /\ u > 0 /\ b < 0 => z < 0
      /\ u < 0 /\ b > 0 => z < 0
      /\ u < 0 /\ b < 0 => z > 0
      /\ b = 0 => z = 0
  BY ProductSign
<1>4. x + y + z = 0
  OBVIOUS
<1> HIDE DEF x, y, z
<1>5. CASE s > 0
  BY <1>1, <1>2, <1>3, <1>4, <1>5
<1>6. CASE s < 0
  BY <1>1, <1>2, <1>3, <1>4, <1>6
<1>7. CASE s = 0
  BY <1>1, <1>2, <1>3, <1>4, <1>7
<1> QED
  BY <1>5, <1>6, <1>7

(* Two weights of one sign balance only on opposite sides.                  *)
LEMMA OppositeSides ==
  ASSUME NEW t \in Int, NEW u \in Int, NEW a \in Int, NEW b \in Int,
         (t > 0 /\ u > 0) \/ (t < 0 /\ u < 0), t * a + u * b = 0
  PROVE  (a <= 0 /\ 0 <= b) \/ (b <= 0 /\ 0 <= a)
<1> DEFINE y == t * a
           z == u * b
<1>2. /\ y \in Int
      /\ t > 0 /\ a > 0 => y > 0
      /\ t > 0 /\ a < 0 => y < 0
      /\ t < 0 /\ a > 0 => y < 0
      /\ t < 0 /\ a < 0 => y > 0
  BY ProductSign
<1>3. /\ z \in Int
      /\ u > 0 /\ b > 0 => z > 0
      /\ u > 0 /\ b < 0 => z < 0
      /\ u < 0 /\ b > 0 => z < 0
      /\ u < 0 /\ b < 0 => z > 0
  BY ProductSign
<1>4. y + z = 0
  OBVIOUS
<1> HIDE DEF y, z
<1> QED
  BY <1>2, <1>3, <1>4

(* A triangle over an edge and a far point holds a point exactly when the   *)
(* point's ray crosses an odd number of its three sides.                    *)
LEMMA EdgeByRays ==
  ASSUME NEW p \in Int \X Int, NEW f \in Int \X Int,
         NEW a \in Int \X Int, NEW b \in Int \X Int,
         Cross(p, f, a) # 0, Cross(p, f, b) # 0, ~ OnSegment(p, a, b)
  PROVE  InTriangle(p, f, a, b) <=>
           (CrossesRay(p, a, b) <=> (CrossesRay(p, f, a) <=> CrossesRay(p, f, b)))
<1> DEFINE s == Cross(p, a, b)
           t == Cross(p, b, f)
           u == Cross(p, f, a)
           a1 == a[1] - p[1]
           a2 == a[2] - p[2]
           b1 == b[1] - p[1]
           b2 == b[2] - p[2]
           f1 == f[1] - p[1]
           f2 == f[2] - p[2]
<1>1. /\ a1 \in Int /\ a2 \in Int /\ b1 \in Int /\ b2 \in Int /\ f1 \in Int /\ f2 \in Int
      /\ p[1] \in Int /\ p[2] \in Int /\ a[1] \in Int /\ a[2] \in Int
      /\ b[1] \in Int /\ b[2] \in Int /\ f[1] \in Int /\ f[2] \in Int
  OBVIOUS
<1>2. /\ s \in Int /\ t \in Int /\ u \in Int
      /\ Cross(p, f, b) = -t
  BY CrossTurns
<1>3. t # 0 /\ u # 0
  BY <1>2
<1>4. s = Det(a1, a2, b1, b2) /\ t = Det(b1, b2, f1, f2) /\ u = Det(f1, f2, a1, a2)
  BY CrossIsDet
<1>5. s * f2 + t * a2 + u * b2 = 0
  <2> HIDE DEF s, t, u, a1, a2, b1, b2, f1, f2
  <2> QED
    BY <1>1, <1>4 DEF Det
<1>6. s * f1 + t * a1 + u * b1 = 0
  <2> HIDE DEF s, t, u, a1, a2, b1, b2, f1, f2
  <2> QED
    BY <1>1, <1>4 DEF Det
<1>7. b2 # 0 \/ f2 # 0
  <2> HIDE DEF s, t, u, a1, a2, b1, b2, f1, f2
  <2> QED
    BY <1>1, <1>3, <1>4 DEF Det
<1>8. s = 0 => (t > 0 /\ u < 0) \/ (t < 0 /\ u > 0)
  <2> SUFFICES ASSUME s = 0, (t > 0 /\ u > 0) \/ (t < 0 /\ u < 0) PROVE FALSE
    BY <1>2, <1>3
  <2>1. t * a2 + u * b2 = 0 /\ t * a1 + u * b1 = 0
    <3> HIDE DEF s, t, u, a1, a2, b1, b2, f1, f2
    <3>1. s * f2 = 0 /\ s * f1 = 0
      BY <1>1, <1>2
    <3>2. /\ t * a2 \in Int /\ t * a1 \in Int /\ u * b2 \in Int /\ u * b1 \in Int
      BY <1>1, <1>2
    <3> QED
      BY <3>1, <3>2, <1>5, <1>6
  <2>2. /\ (a1 <= 0 /\ 0 <= b1) \/ (b1 <= 0 /\ 0 <= a1)
        /\ (a2 <= 0 /\ 0 <= b2) \/ (b2 <= 0 /\ 0 <= a2)
    <3> HIDE DEF s, t, u, a1, a2, b1, b2, f1, f2
    <3> QED
      BY <1>1, <1>2, <2>1, OppositeSides
  <2>3. Between(p[1], a[1], b[1]) /\ Between(p[2], a[2], b[2])
    <3> HIDE DEF s, t, u
    <3> QED
      BY <1>1, <2>2 DEF Between
  <2> QED
    BY <2>3 DEF OnSegment
<1>9. /\ InTriangle(p, f, a, b) <=> \/ s > 0 /\ t > 0 /\ u > 0
                                    \/ s < 0 /\ t < 0 /\ u < 0
  BY <1>2 DEF InTriangle
<1>10. CrossesRay(p, a, b) <=> \/ b2 > 0 /\ a2 <= 0 /\ s < 0
                               \/ a2 > 0 /\ b2 <= 0 /\ s > 0
  <2> HIDE DEF s, t, u
  <2> QED
    BY <1>1, RayByDet DEF s
<1>11. CrossesRay(p, f, a) <=> \/ a2 > 0 /\ f2 <= 0 /\ u < 0
                               \/ f2 > 0 /\ a2 <= 0 /\ u > 0
  <2> HIDE DEF s, t, u
  <2> QED
    BY <1>1, RayByDet DEF u
<1>12. CrossesRay(p, f, b) <=> \/ b2 > 0 /\ f2 <= 0 /\ t > 0
                               \/ f2 > 0 /\ b2 <= 0 /\ t < 0
  <2>1. CrossesRay(p, f, b) <=>
          \/ b[2] > p[2] /\ f[2] <= p[2] /\ Cross(p, f, b) < 0
          \/ f[2] > p[2] /\ b[2] <= p[2] /\ Cross(p, f, b) > 0
    BY RayByDet
  <2> HIDE DEF s, t, u
  <2> QED
    BY <1>1, <1>2, <2>1
<1> HIDE DEF s, t, u, a1, a2, b1, b2, f1, f2
<1> QED
  BY <1>1, <1>2, <1>3, <1>5, <1>7, <1>8, <1>9, <1>10, <1>11, <1>12, EdgeBySigns

-----------------------------------------------------------------------------
(* The number of a set's elements is odd.                                   *)
Odd(S) == Cardinality(S) % 2 = 1

(* One more element changes the parity of a set.                            *)
LEMMA ParityTurns ==
  ASSUME NEW S, IsFiniteSet(S), NEW x, x \notin S
  PROVE  Odd(S \cup {x}) <=> ~ Odd(S)
<1>1. Cardinality(S) \in Nat /\ Cardinality(S \cup {x}) = Cardinality(S) + 1
  BY FS_CardinalityType, FS_AddElement
<1> QED
  BY <1>1 DEF Odd

(* Two sets of steps that differ exactly where a third set is entered or    *)
(* left have the same parity when it ends as it began.                      *)
LEMMA ParityOfChanges ==
  ASSUME NEW n \in Nat, NEW X \in SUBSET (1 .. n), NEW T \in SUBSET (1 .. n), NEW H,
         \A i \in 1 .. n : i \in T <=> (i \in X <=> (i - 1 \in H <=> i \in H)),
         0 \in H <=> n \in H
  PROVE  Odd(T) <=> Odd(X)
<1> DEFINE To(S, k) == S \cap (1 .. k)
           Good(k) == Odd(To(T, k)) <=> (Odd(To(X, k)) <=> (0 \in H <=> k \in H))
           N == {k \in Nat : k <= n => Good(k)}
<1>1. 0 \in N
  <2>1. To(T, 0) = {} /\ To(X, 0) = {}
    OBVIOUS
  <2>2. ~ Odd({})
    BY FS_EmptySet DEF Odd
  <2> QED
    BY <2>1, <2>2
<1>2. ASSUME NEW k \in Nat, k \in N PROVE k + 1 \in N
  <2> SUFFICES ASSUME k + 1 <= n PROVE Good(k + 1)
    OBVIOUS
  <2>1. Good(k)
    BY <1>2
  <2>2. k + 1 \in 1 .. n /\ (k + 1) - 1 = k
    OBVIOUS
  <2>3. k + 1 \in T <=> (k + 1 \in X <=> (k \in H <=> k + 1 \in H))
    BY <2>2
  <2>4. ASSUME NEW S PROVE /\ k + 1 \in S => To(S, k + 1) = To(S, k) \cup {k + 1}
                           /\ k + 1 \notin S => To(S, k + 1) = To(S, k)
                           /\ IsFiniteSet(To(S, k)) /\ k + 1 \notin To(S, k)
    <3>1. IsFiniteSet(1 .. k)
      BY FS_Interval
    <3>2. IsFiniteSet(To(S, k))
      BY <3>1, FS_Subset
    <3>3. 1 .. k + 1 = (1 .. k) \cup {k + 1}
      OBVIOUS
    <3> QED
      BY <3>2, <3>3
  <2>5. ASSUME NEW S PROVE Odd(To(S, k + 1)) <=> (Odd(To(S, k)) <=> k + 1 \notin S)
    <3>1. CASE k + 1 \in S
      <4> HIDE DEF To
      <4> QED
        BY <3>1, <2>4, ParityTurns
    <3>2. CASE k + 1 \notin S
      BY <3>2, <2>4
    <3> QED
      BY <3>1, <3>2
  <2>6. /\ Odd(To(T, k + 1)) <=> (Odd(To(T, k)) <=> k + 1 \notin T)
        /\ Odd(To(X, k + 1)) <=> (Odd(To(X, k)) <=> k + 1 \notin X)
    BY <2>5
  <2> HIDE DEF To
  <2> QED
    BY <2>1, <2>3, <2>6
<1>3. n \in N
  <2> HIDE DEF N
  <2> QED
    BY <1>1, <1>2, Counting
<1>4. To(T, n) = T /\ To(X, n) = X
  OBVIOUS
<1>5. Good(n)
  BY <1>3
<1> HIDE DEF To
<1> QED
  BY <1>4, <1>5

-----------------------------------------------------------------------------
(* The rings that can be drawn.                                             *)
Drawn == Exteriors \cup Holes

(* Off the edges of a ring the crossings of the ray and the triangles over  *)
(* the edges have the same parity: along the ring each side to the far      *)
(* point is crossed twice or not at all.                                    *)
LEMMA RingIsCounted ==
  ASSUME NEW ring \in Drawn, ValidRing(ring), NEW p \in Points, ~ OnBoundary(ring, p)
  PROVE  OddlyCrossed(ring, p) <=> InRing(ring, p)
<1> DEFINE n == Len(ring)
           X == {i \in DOMAIN ring : CrossesRay(p, Before(ring, i), ring[i])}
           T == {i \in DOMAIN ring : InTriangle(p, Faraway, Before(ring, i), ring[i])}
           Corner(i) == IF i = 0 THEN ring[n] ELSE ring[i]
           H == {i \in 0 .. n : CrossesRay(p, Faraway, Corner(i))}
<1>1. /\ ring \in Seq(Int \X Int) /\ p \in Int \X Int /\ Faraway \in Int \X Int
      /\ \A i \in DOMAIN ring : ring[i] = p \/ Cross(p, Faraway, ring[i]) # 0
  BY LayerAssumption DEF Drawn, Points
<1>2. n \in Nat /\ n >= 4 /\ DOMAIN ring = 1 .. n
  BY <1>1 DEF ValidRing
<1>3. \A i \in 1 .. n : ring[i] \in Int \X Int
  BY <1>1, <1>2
<1>4. \A i \in 1 .. n : Before(ring, i) = Corner(i - 1) /\ ring[i] = Corner(i)
  BY <1>2 DEF Before
<1>5. \A i \in 0 .. n : /\ Corner(i) \in Int \X Int
                        /\ Corner(i) = p \/ Cross(p, Faraway, Corner(i)) # 0
  <2> SUFFICES ASSUME NEW i \in 0 .. n
               PROVE  \E j \in 1 .. n : Corner(i) = ring[j]
    BY <1>1, <1>2, <1>3
  <2>1. i # 0 => i \in 1 .. n
    BY <1>2
  <2>2. n \in 1 .. n
    BY <1>2
  <2> QED
    BY <2>1, <2>2
<1>6. \A i \in 1 .. n : ~ OnSegment(p, Corner(i - 1), Corner(i))
  BY <1>2, <1>4 DEF OnBoundary
<1>7. \A a, b \in Int \X Int : a = p \/ b = p => OnSegment(p, a, b)
  BY <1>1 DEF OnSegment, Cross, Between
<1>8. ASSUME NEW i \in 1 .. n
      PROVE  i \in T <=> (i \in X <=> (i - 1 \in H <=> i \in H))
  <2> DEFINE a == Corner(i - 1)
             b == Corner(i)
  <2>1. i - 1 \in 0 .. n /\ i \in 0 .. n
    BY <1>2
  <2>2. a \in Int \X Int /\ b \in Int \X Int
    BY <1>5, <2>1
  <2>3. ~ OnSegment(p, a, b)
    BY <1>6
  <2>4. Cross(p, Faraway, a) # 0 /\ Cross(p, Faraway, b) # 0
    BY <1>5, <1>7, <2>1, <2>2, <2>3
  <2>5. i - 1 \in H <=> CrossesRay(p, Faraway, a)
    BY <2>1
  <2>6. i \in H <=> CrossesRay(p, Faraway, b)
    BY <2>1
  <2>7. i \in T <=> InTriangle(p, Faraway, a, b)
    BY <1>2, <1>4
  <2>8. i \in X <=> CrossesRay(p, a, b)
    BY <1>2, <1>4
  <2>9. InTriangle(p, Faraway, a, b) <=>
          (CrossesRay(p, a, b) <=>
            (CrossesRay(p, Faraway, a) <=> CrossesRay(p, Faraway, b)))
    <3> HIDE DEF a, b
    <3> QED
      BY <1>1, <2>2, <2>3, <2>4, EdgeByRays
  <2> HIDE DEF a, b, T, X, H
  <2> QED
    BY <2>5, <2>6, <2>7, <2>8, <2>9
<1>9. 0 \in H <=> n \in H
  BY <1>2
<1>10. X \in SUBSET (1 .. n) /\ T \in SUBSET (1 .. n)
  BY <1>2
<1>11. Odd(T) <=> Odd(X)
  <2> HIDE DEF X, T, H, n
  <2> QED
    BY <1>2, <1>8, <1>9, <1>10, ParityOfChanges
<1> QED
  BY <1>11 DEF Odd, OddlyCrossed, InRing

(* Rings are stored, one at least, each of which has passed the schema.     *)
ValidDrawn == {ring \in Drawn : ValidRing(ring)}

LayerInv ==
  \/ layer = NoLayer
  \/ layer \in [rings : Seq(ValidDrawn) \ {<<>>}, active : BOOLEAN]

LEMMA DrawnIsValid ==
  ASSUME NEW exteriors \in SUBSET Exteriors, NEW on \in BOOLEAN, Draw(exteriors, on)
  PROVE  LayerInv'
<1> DEFINE V == {r \in Holes : ValidRing(r)}
<1>1. PICK e \in exteriors, h \in BoundedSeq(V, MaxHoles) :
        ValidRing(e) /\ layer' = [rings |-> <<e>> \o h, active |-> on]
  BY DEF Draw, HoleLists
<1>2. e \in ValidDrawn /\ V \subseteq ValidDrawn
  BY <1>1 DEF ValidDrawn, Drawn
<1> HIDE DEF V
<1>3. PICK m \in 0 .. MaxHoles : h \in [1 .. m -> V]
  BY DEF BoundedSeq, SeqOf
<1>m. m \in Nat
  BY LayerAssumption
<1>4. h \in Seq(ValidDrawn) /\ Len(h) \in Nat
  <2>1. h \in [1 .. m -> ValidDrawn]
    BY <1>2, <1>3
  <2> QED
    BY <1>m, <2>1
<1>5. <<e>> \in Seq(ValidDrawn) /\ Len(<<e>>) = 1
  BY <1>2
<1>6. <<e>> \o h \in Seq(ValidDrawn) /\ Len(<<e>> \o h) = 1 + Len(h)
  BY <1>4, <1>5, ConcatProperties
<1>7. <<e>> \o h # <<>>
  BY <1>4, <1>6
<1> QED
  BY <1>1, <1>6, <1>7 DEF LayerInv

LEMMA LayerInitInv == LayerInit => LayerInv
  BY DEF LayerInit, LayerInv

LEMMA LayerStepInv == LayerInv /\ [LayerNext]_layerVars => LayerInv'
<1> SUFFICES ASSUME LayerInv, [LayerNext]_layerVars PROVE LayerInv'
  OBVIOUS
<1>1. CASE CreateLayer
  BY <1>1, DrawnIsValid DEF CreateLayer
<1>2. CASE PatchLayer
  <2>1. PICK on \in BOOLEAN : Draw(Redrawn, on) \/ layer' = [layer EXCEPT !.active = on]
    BY <1>2 DEF PatchLayer
  <2>2. layer \in [rings : Seq(ValidDrawn) \ {<<>>}, active : BOOLEAN]
    BY <1>2 DEF PatchLayer, LayerInv
  <2> QED
    BY <2>1, <2>2, DrawnIsValid, LayerAssumption DEF LayerInv
<1>3. CASE DeleteLayer
  BY <1>3 DEF DeleteLayer, LayerInv
<1>4. CASE UNCHANGED layerVars
  BY <1>4 DEF layerVars, LayerInv
<1> QED
  BY <1>1, <1>2, <1>3, <1>4 DEF LayerNext

(* What a stored layer is.                                                  *)
LEMMA StoredRings ==
  ASSUME LayerInv, layer # NoLayer
  PROVE  /\ layer.active \in BOOLEAN
         /\ Len(layer.rings) \in Nat /\ Len(layer.rings) >= 1
         /\ DOMAIN layer.rings = 1 .. Len(layer.rings)
         /\ \A i \in 1 .. Len(layer.rings) :
              layer.rings[i] \in Drawn /\ ValidRing(layer.rings[i])
<1>1. layer.active \in BOOLEAN /\ layer.rings \in Seq(ValidDrawn) /\ layer.rings # <<>>
  BY DEF LayerInv
<1>2. /\ Len(layer.rings) \in Nat /\ Len(layer.rings) # 0
      /\ DOMAIN layer.rings = 1 .. Len(layer.rings)
      /\ \A i \in 1 .. Len(layer.rings) : layer.rings[i] \in ValidDrawn
  BY <1>1
<1> QED
  BY <1>1, <1>2 DEF ValidDrawn

LEMMA LayerInvTyped == LayerInv => LayerTypeOK
<1> SUFFICES ASSUME LayerInv, layer # NoLayer PROVE LayerTypeOK
  BY DEF LayerTypeOK
<1> QED
  BY StoredRings DEF LayerTypeOK

(* The loop over the holes returns at the first that the point touches.     *)
LEMMA FirstHoleDecides ==
  ASSUME NEW n \in Nat, NEW edges \in SUBSET (2 .. n), NEW touched \in SUBSET (2 .. n),
         edges \subseteq touched
  PROVE  (\A i \in touched \ edges : \E j \in 2 .. i - 1 : j \in edges) <=>
         (\A i \in touched : (\A j \in touched : i <= j) => i \in edges)
<1>1. ASSUME \A i \in touched \ edges : \E j \in 2 .. i - 1 : j \in edges,
             NEW i \in touched, \A j \in touched : i <= j, i \notin edges
      PROVE  FALSE
  <2>1. PICK j \in 2 .. i - 1 : j \in edges
    BY <1>1
  <2>2. i <= j /\ i \in Int
    BY <1>1, <2>1
  <2> QED
    BY <2>1, <2>2
<1>2. ASSUME \A i \in touched : (\A j \in touched : i <= j) => i \in edges,
             NEW i \in touched \ edges
      PROVE  \E j \in 2 .. i - 1 : j \in edges
  <2>1. touched \in SUBSET Nat /\ touched # {}
    BY <1>2
  <2>2. PICK k \in touched : \A j \in touched : k <= j
    BY <2>1, LeastMember
  <2>3. k \in edges /\ k <= i /\ k # i
    BY <1>2, <2>2
  <2>4. k \in 2 .. i - 1
    BY <1>2, <2>1, <2>3
  <2> QED
    BY <2>3, <2>4
<1> QED
  BY <1>1, <1>2

LEMMA LayerInvClassifies == LayerInv => TargetsAreClassified
<1> SUFFICES ASSUME LayerInv, layer.active, NEW p \in Points
             PROVE  LET ring == layer.rings[1]
                        edge == OnBoundary(ring, p)
                        holes == 2 .. Len(layer.rings)
                        edges == {i \in holes : OnBoundary(layer.rings[i], p)}
                        touched == edges \cup {i \in holes : InRing(layer.rings[i], p)}
                    IN  /\ Concerns(layer, p) <=>
                             \/ edge
                             \/ /\ InRing(ring, p)
                                /\ \A i \in touched : (\A j \in touched : i <= j) => i \in edges
                        /\ edges = {} \/ touched \subseteq edges =>
                             (Concerns(layer, p) <=>
                                edge \/ (InRing(ring, p) /\ touched \subseteq edges))
                        /\ ~edge => (InPolicyArea(ring, p) <=> InRing(ring, p))
  BY DEF TargetsAreClassified
<1>1. layer # NoLayer
  BY DEF NoLayer
<1> DEFINE n == Len(layer.rings)
           Ring(i) == layer.rings[i]
           edges == {i \in 2 .. n : OnBoundary(Ring(i), p)}
           touched == edges \cup {i \in 2 .. n : InRing(Ring(i), p)}
           Kept == \A i \in touched \ edges : \E j \in 2 .. i - 1 : j \in edges
           First == \A i \in touched : (\A j \in touched : i <= j) => i \in edges
<1>2. /\ n \in Nat /\ n >= 1
      /\ \A i \in 1 .. n : Ring(i) \in Drawn /\ ValidRing(Ring(i))
  BY <1>1, StoredRings
<1>3. \A i \in 1 .. n : OnBoundary(Ring(i), p) \/ (OddlyCrossed(Ring(i), p) <=> InRing(Ring(i), p))
  BY <1>2, RingIsCounted
<1>4. \A i \in 1 .. n : /\ RingRelation(Ring(i), p) = "boundary" <=> OnBoundary(Ring(i), p)
                        /\ RingRelation(Ring(i), p) = "inside" <=>
                             ~ OnBoundary(Ring(i), p) /\ InRing(Ring(i), p)
  BY <1>3 DEF RingRelation
<1>5. 1 \in 1 .. n /\ \A i \in 2 .. n : i \in 1 .. n
  <2> HIDE DEF n
  <2> QED
    BY <1>2
<1>6. Concerns(layer, p) <=>
        \/ RingRelation(Ring(1), p) = "boundary"
        \/ /\ RingRelation(Ring(1), p) = "inside"
           /\ \A i \in 2 .. n : RingRelation(Ring(i), p) = "inside" =>
                \E j \in 2 .. i - 1 : RingRelation(Ring(j), p) = "boundary"
  BY DEF Concerns, InPolygon
<1> HIDE DEF n, Ring
<1>7. (\A i \in 2 .. n : RingRelation(Ring(i), p) = "inside" =>
         \E j \in 2 .. i - 1 : RingRelation(Ring(j), p) = "boundary") <=> Kept
  <2>1. \A i \in 2 .. n : RingRelation(Ring(i), p) = "inside" <=> i \in touched \ edges
    BY <1>4, <1>5
  <2>2. \A i \in 2 .. n : \A j \in 2 .. i - 1 :
          RingRelation(Ring(j), p) = "boundary" <=> j \in edges
    <3>1. \A i \in 2 .. n : \A j \in 2 .. i - 1 : j \in 2 .. n
      BY <1>2
    <3> QED
      BY <1>4, <1>5, <3>1
  <2>3. touched \ edges \subseteq 2 .. n
    OBVIOUS
  <2> HIDE DEF touched, edges
  <2> QED
    BY <2>1, <2>2, <2>3
<1>8. Kept <=> First
  <2>1. edges \in SUBSET (2 .. n) /\ touched \in SUBSET (2 .. n) /\ edges \subseteq touched
    OBVIOUS
  <2> HIDE DEF edges, touched
  <2> QED
    BY <1>2, <2>1, FirstHoleDecides
<1>9. Concerns(layer, p) <=> OnBoundary(Ring(1), p) \/ (InRing(Ring(1), p) /\ Kept)
  <2> HIDE DEF Kept
  <2> QED
    BY <1>4, <1>5, <1>6, <1>7
<1>10. edges = {} \/ touched \subseteq edges => (Kept <=> touched \subseteq edges)
  <2> HIDE DEF edges, touched
  <2> QED
    OBVIOUS
<1>11. ~ OnBoundary(Ring(1), p) => (OddlyCrossed(Ring(1), p) <=> InRing(Ring(1), p))
  BY <1>3, <1>5
<1>12. /\ Concerns(layer, p) <=> OnBoundary(Ring(1), p) \/ (InRing(Ring(1), p) /\ First)
       /\ edges = {} \/ touched \subseteq edges =>
            (Concerns(layer, p) <=>
               OnBoundary(Ring(1), p) \/ (InRing(Ring(1), p) /\ touched \subseteq edges))
  <2> HIDE DEF Kept, First, edges, touched
  <2> QED
    BY <1>8, <1>9, <1>10
<1> QED
  BY <1>11, <1>12 DEF n, Ring, InPolicyArea

(* create_field_layer, patch_field_layer: what is stored is closed rings of *)
(* at least four corners.                                                   *)
THEOREM LayerTyping == LayerSpec => []LayerTypeOK
<1> QED
  BY LayerInitInv, LayerStepInv, LayerInvTyped, PTL DEF LayerSpec

(* point_in_geojson_polygon and policy_engine._point_in_polygon: whatever   *)
(* rings are drawn, also ones that cross themselves, a target is shown with *)
(* an active layer when it lies on the edge of the exterior ring, or in it  *)
(* and not in the first hole that it touches: for any number of holes,      *)
(* which may overlap.                                                       *)
THEOREM AreasAreTold == LayerSpec => []TargetsAreClassified
<1> QED
  BY LayerInitInv, LayerStepInv, LayerInvClassifies, PTL DEF LayerSpec

-----------------------------------------------------------------------------
(* The link monitor *)

(* What makes it inductive: the tick opens an alert only for a drone that   *)
(* has none, and nobody else opens any.                                     *)
OpenedOnce ==
  \A a \in Alerts :
    tick.opened[a] # NoDrone => /\ about[a] = NoDrone
                                /\ tick.opened[a] \notin tick.todo

MonitorInv == TypeOK /\ OpenedOnce /\ OneOpenAlert

LEMMA MonitorInitInv == Init => MonitorInv
  BY MonitorAssumption
  DEF Init, MonitorInv, TypeOK, OpenedOnce, OneOpenAlert, IsOpen, NoAlert, Asleep, NoPacket,
      Silent, Unknown, SignalAges

LEMMA MonitorStepTyped == TypeOK /\ [Next]_vars => TypeOK'
<1> SUFFICES ASSUME TypeOK, [Next]_vars PROVE TypeOK'
  OBVIOUS
<1> USE MonitorAssumption DEF TypeOK, NoAlert, Asleep, NoPacket, Silent, Unknown, SignalAges
<1>1. CASE UNCHANGED vars
  BY <1>1 DEF vars
<1>2. CASE TickRead
  BY <1>2 DEF TickRead
<1>3. ASSUME NEW d \in Drones, EnsureOpenAlert(d) PROVE TypeOK'
  <2>1. UNCHANGED <<age, about, ingest, failures>>
    BY <1>3 DEF EnsureOpenAlert
  <2>2. CASE tick' = [tick EXCEPT !.todo = @ \ {d}]
    BY <2>1, <2>2
  <2>3. ASSUME NEW a \in Alerts, tick' = [tick EXCEPT !.todo = @ \ {d}, !.opened[a] = d]
        PROVE  TypeOK'
    <3>1. tick' = [running |-> tick.running, todo |-> tick.todo \ {d},
                   opened |-> [tick.opened EXCEPT ![a] = d]]
      BY <2>3
    <3>2. [tick.opened EXCEPT ![a] = d] \in [Alerts -> Drones \cup {NoDrone}]
      OBVIOUS
    <3> QED
      BY <2>1, <3>1, <3>2
  <2> QED
    BY <1>3, <2>2, <2>3 DEF EnsureOpenAlert
<1>4. CASE TickCommit
  BY <1>4 DEF TickCommit
<1>5. CASE TickFails
  BY <1>5 DEF TickFails
<1>6. ASSUME NEW d \in Drones, NEW packetAge \in SignalAges, IngestRead(d, packetAge) PROVE TypeOK'
  BY <1>6 DEF IngestRead, OpenFor
<1>7. CASE IngestCommit
  BY <1>7 DEF IngestCommit
<1>8. CASE IngestFails
  BY <1>8 DEF IngestFails
<1>9. ASSUME NEW a \in Alerts, Ack(a) PROVE TypeOK'
  BY <1>9 DEF Ack
<1>10. CASE Advance
  BY <1>10 DEF Advance
<1> QED
  BY <1>1, <1>2, <1>3, <1>4, <1>5, <1>6, <1>7, <1>8, <1>9, <1>10 DEF Next

(* Alerts that are closed do not disturb the invariant.                     *)
LEMMA ClosingKeepsInv ==
  ASSUME MonitorInv, tick' = tick, \A a \in Alerts : about'[a] \in {about[a], NoDrone}
  PROVE  OpenedOnce' /\ OneOpenAlert'
  BY MonitorAssumption DEF MonitorInv, OpenedOnce, OneOpenAlert, IsOpen

(* Neither does a tick that starts or is given up.                          *)
LEMMA EmptyTickKeepsInv ==
  ASSUME MonitorInv, about' = about, tick'.opened = NoAlert
  PROVE  OpenedOnce' /\ OneOpenAlert'
  BY MonitorAssumption DEF MonitorInv, OpenedOnce, OneOpenAlert, IsOpen, NoAlert

LEMMA EnsureKeepsInv ==
  ASSUME MonitorInv, NEW d \in Drones, EnsureOpenAlert(d)
  PROVE  OpenedOnce' /\ OneOpenAlert'
<1>1. about' = about /\ tick'.todo = tick.todo \ {d} /\ d \in tick.todo
  BY DEF EnsureOpenAlert, MonitorInv, TypeOK
<1>2. CASE OpenFor(d) # {}
  <2>1. tick'.opened = tick.opened
    BY <1>2 DEF EnsureOpenAlert, MonitorInv, TypeOK
  <2> QED
    BY <1>1, <2>1 DEF MonitorInv, OpenedOnce, OneOpenAlert, IsOpen
<1>3. CASE OpenFor(d) = {}
  <2>1. PICK a \in Alerts : Free(a) /\ tick' = [tick EXCEPT !.todo = @ \ {d}, !.opened[a] = d]
    BY <1>3 DEF EnsureOpenAlert
  <2>2. tick'.opened = [tick.opened EXCEPT ![a] = d] /\ tick.opened \in [Alerts -> Drones \cup {NoDrone}]
    BY <2>1 DEF MonitorInv, TypeOK
  <2>3. \A b \in Alerts : ~IsOpen(b, d)
    BY <1>1, <1>3, MonitorAssumption DEF IsOpen, OpenFor, MonitorInv, OpenedOnce
  <2>4. about[a] = NoDrone
    BY <2>1 DEF Free
  <2>5. \A b \in Alerts, e \in Drones : IsOpen(b, e)' <=> IsOpen(b, e) \/ (b = a /\ e = d)
    BY <1>1, <2>1, <2>2, MonitorAssumption DEF IsOpen, Free
  <2>6. OneOpenAlert'
    BY <2>3, <2>5 DEF OneOpenAlert, MonitorInv
  <2>7. OpenedOnce'
    BY <1>1, <2>2, <2>4 DEF OpenedOnce, MonitorInv
  <2> QED
    BY <2>6, <2>7
<1> QED
  BY <1>2, <1>3

LEMMA TickCommitKeepsInv ==
  ASSUME MonitorInv, TickCommit
  PROVE  OpenedOnce' /\ OneOpenAlert'
<1>1. \A a \in Alerts :
        about'[a] = IF tick.opened[a] # NoDrone THEN tick.opened[a] ELSE about[a]
  BY DEF TickCommit
<1>2. tick'.opened = NoAlert
  BY DEF TickCommit, Asleep
<1>3. \A a \in Alerts, d \in Drones : IsOpen(a, d)' => IsOpen(a, d)
  BY <1>1, <1>2, MonitorAssumption DEF IsOpen, NoAlert
<1>4. OneOpenAlert'
  BY <1>3 DEF MonitorInv, OneOpenAlert
<1>5. OpenedOnce'
  BY <1>2 DEF OpenedOnce, NoAlert
<1> QED
  BY <1>4, <1>5

LEMMA MonitorStepInv == MonitorInv /\ [Next]_vars => MonitorInv'
<1> SUFFICES ASSUME MonitorInv, [Next]_vars PROVE OpenedOnce' /\ OneOpenAlert'
  BY MonitorStepTyped DEF MonitorInv
<1>1. CASE UNCHANGED vars
  BY <1>1, ClosingKeepsInv DEF vars
<1>2. CASE TickRead
  BY <1>2, EmptyTickKeepsInv DEF TickRead, Asleep
<1>3. ASSUME NEW d \in Drones, EnsureOpenAlert(d) PROVE OpenedOnce' /\ OneOpenAlert'
  BY <1>3, EnsureKeepsInv
<1>4. CASE TickCommit
  BY <1>4, TickCommitKeepsInv
<1>5. CASE TickFails
  BY <1>5, EmptyTickKeepsInv DEF TickFails, Asleep
<1>6. ASSUME NEW d \in Drones, NEW packetAge \in SignalAges, IngestRead(d, packetAge)
      PROVE  OpenedOnce' /\ OneOpenAlert'
  BY <1>6, ClosingKeepsInv DEF IngestRead
<1>7. CASE IngestCommit
  BY <1>7, ClosingKeepsInv DEF IngestCommit
<1>8. CASE IngestFails
  BY <1>8, ClosingKeepsInv DEF IngestFails
<1>9. ASSUME NEW a \in Alerts, Ack(a) PROVE OpenedOnce' /\ OneOpenAlert'
  BY <1>9, ClosingKeepsInv DEF Ack, MonitorInv, TypeOK
<1>10. CASE Advance
  BY <1>10, ClosingKeepsInv DEF Advance
<1> QED
  BY <1>1, <1>2, <1>3, <1>4, <1>5, <1>6, <1>7, <1>8, <1>9, <1>10 DEF Next

LEMMA MonitorInductive == Spec => []MonitorInv
  BY MonitorInitInv, MonitorStepInv, PTL DEF Spec

(* Every reachable state is well typed.                                     *)
THEOREM MonitorTyping == Spec => []TypeOK
<1>1. MonitorInv => TypeOK
  BY DEF MonitorInv
<1> QED
  BY <1>1, MonitorInductive, PTL

(* ensure_open_alert never finds two open alerts of a drone.                *)
THEOREM NeverTwoOpen == Spec => []OneOpenAlert
<1>1. MonitorInv => OneOpenAlert
  BY DEF MonitorInv
<1> QED
  BY <1>1, MonitorInductive, PTL

-----------------------------------------------------------------------------
(* The schema: every database the revisions and the operator can leave has  *)
(* the schema of its revision, and the upgrade from it ends at the models.  *)
(* A revision is a list of statements: what it makes of a schema is followed *)
(* statement by statement, for every set of filled tables, and the upgrade  *)
(* revision by revision.                                                    *)

(* The last index of a nonempty set of indices.                             *)
LEMMA LastIndex ==
  ASSUME NEW n \in Nat, NEW S \in SUBSET (1 .. n), S # {}
  PROVE  /\ Max(S) \in S /\ \A i \in S : i <= Max(S)
<1> DEFINE Bounds == {m \in Nat : \A i \in S : i <= m}
<1>1. n \in Bounds
  OBVIOUS
<1>2. PICK m \in Bounds : \A k \in Bounds : m <= k
  BY <1>1, LeastMember
<1>3. m \in S
  <2> SUFFICES ASSUME m \notin S PROVE FALSE
    OBVIOUS
  <2>1. \A i \in S : i \in Nat /\ 1 <= i /\ i <= m /\ i # m
    OBVIOUS
  <2>2. m \in Nat /\ m >= 1
    <3>1. PICK i \in S : TRUE
      OBVIOUS
    <3> QED
      BY <2>1, <3>1
  <2>3. m - 1 \in Nat /\ \A i \in S : i <= m - 1
    BY <2>1, <2>2
  <2> QED
    BY <1>2, <2>2, <2>3
<1>4. \E i \in S : \A j \in S : i >= j
  BY <1>2, <1>3
<1>5. Max(S) \in S /\ \A j \in S : Max(S) >= j
  BY <1>4 DEF Max
<1> QED
  BY <1>5

LEMMA LastOfAll ==
  ASSUME NEW n \in Nat, n >= 1 PROVE Max(1 .. n) = n /\ (1 .. n) \ {n} = 1 .. n - 1
<1>2. n \in 1 .. n
  OBVIOUS
<1>1. Max(1 .. n) \in 1 .. n /\ \A i \in 1 .. n : i <= Max(1 .. n)
  BY <1>2, LastIndex
<1> QED
  BY <1>1, <1>2

(* The statements of a revision, and the revisions of an upgrade, one after *)
(* the other: what FoldLeft makes of the first ones, by the set of their    *)
(* indices.                                                                 *)
Apply(of, s, x) == IF of = "revisions" THEN RunRevision(s, x) ELSE Execute(s, x)

Folded(of, s, list, g, S) ==
  IF S = {} THEN s ELSE Apply(of, g[S \ {Max(S)}], list[Max(S)])

FoldSolves(of, s, list, n, g) ==
  g = [S \in SUBSET (1 .. n) |-> Folded(of, s, list, g, S)]

LEMMA FoldExists ==
  ASSUME NEW of, NEW s, NEW list, NEW n \in Nat
  PROVE  \E g : FoldSolves(of, s, list, n, g)
<1> DEFINE All == SUBSET (1 .. n)
           Upto(g, k) == \A S \in SUBSET (1 .. k) : S \in All => g[S] = Folded(of, s, list, g, S)
           T == {k \in Nat : \E g : Upto(g, k)}
<1>1. 0 \in T
  <2> DEFINE g == [S \in All |-> s]
  <2>1. \A S \in SUBSET (1 .. 0) : S = {}
    OBVIOUS
  <2>2. Upto(g, 0)
    BY <2>1 DEF Folded
  <2> QED
    BY <2>2
<1>2. ASSUME NEW k \in Nat, k \in T PROVE k + 1 \in T
  <2>1. PICK g : Upto(g, k)
    BY <1>2
  <2> DEFINE h == [S \in All |-> Folded(of, s, list, g, S)]
  <2>2. ASSUME NEW S \in SUBSET (1 .. k + 1), S \in All PROVE h[S] = Folded(of, s, list, h, S)
    <3>1. CASE S = {}
      BY <3>1, <2>2 DEF Folded
    <3>2. CASE S # {}
      <4> DEFINE R == S \ {Max(S)}
      <4>1. Max(S) \in S /\ \A i \in S : i <= Max(S)
        BY <3>2, <2>2, k + 1 \in Nat, LastIndex
      <4>2. \A i \in R : i \in 1 .. k
        <5> SUFFICES ASSUME NEW i \in R PROVE i \in 1 .. k
          OBVIOUS
        <5>1. i \in 1 .. k + 1 /\ Max(S) \in 1 .. k + 1 /\ i # Max(S) /\ i <= Max(S)
          BY <2>2, <4>1
        <5> QED
          BY <5>1
      <4>3. R \in SUBSET (1 .. k) /\ R \in All
        BY <4>2, <2>2
      <4>4. h[R] = g[R]
        BY <2>1, <4>3
      <4> QED
        BY <2>2, <3>2, <4>4 DEF Folded
    <3> QED
      BY <3>1, <3>2
  <2>3. Upto(h, k + 1)
    BY <2>2
  <2>4. \E f : Upto(f, k + 1)
    <3> HIDE DEF Upto, h
    <3> QED
      BY <2>3
  <2> QED
    <3> HIDE DEF Upto
    <3> QED
      BY <2>4
<1>3. n \in T
  <2> HIDE DEF T
  <2> QED
    BY <1>1, <1>2, Counting
<1>4. PICK f : Upto(f, n)
  BY <1>3
<1> DEFINE h == [S \in All |-> f[S]]
<1>5. ASSUME NEW S \in All PROVE h[S] = Folded(of, s, list, h, S)
  <2>1. S # {} => S \ {Max(S)} \in All
    OBVIOUS
  <2> QED
    BY <1>4, <2>1 DEF Folded
<1>6. FoldSolves(of, s, list, n, h)
  BY <1>5 DEF FoldSolves
<1> QED
  BY <1>6

(* It goes through the list step by step.                                   *)
LEMMA FoldSteps ==
  ASSUME NEW of, NEW s, NEW list, NEW n \in Nat, NEW g, FoldSolves(of, s, list, n, g)
  PROVE  \A i \in 1 .. n : g[1 .. i] = Apply(of, g[1 .. i - 1], list[i])
<1> SUFFICES ASSUME NEW i \in 1 .. n PROVE g[1 .. i] = Apply(of, g[1 .. i - 1], list[i])
  OBVIOUS
<1>1. 1 .. i \in SUBSET (1 .. n) /\ i \in 1 .. i
  OBVIOUS
<1>2. Max(1 .. i) = i /\ (1 .. i) \ {i} = 1 .. i - 1
  BY LastOfAll
<1>3. g[1 .. i] = Folded(of, s, list, g, 1 .. i)
  BY <1>1 DEF FoldSolves
<1> QED
  BY <1>1, <1>2, <1>3 DEF Folded

(* What a schema has become after the first i statements of a list.         *)
RunFold(s, list) ==
  CHOOSE g : g = [S \in SUBSET DOMAIN list |->
                    IF S = {} THEN s ELSE Execute(g[S \ {Max(S)}], list[Max(S)])]

After(s, list, i) == RunFold(s, list)[1 .. i]

Listed(list, n) == n \in Nat /\ DOMAIN list = 1 .. n

LEMMA RunSteps ==
  ASSUME NEW s, NEW list, NEW n, Listed(list, n)
  PROVE  /\ After(s, list, 0) = s /\ After(s, list, n) = Run(s, list)
         /\ \A i \in 1 .. n : After(s, list, i) = Execute(After(s, list, i - 1), list[i])
<1> DEFINE Step(g, S) == IF S = {} THEN s ELSE Execute(g[S \ {Max(S)}], list[Max(S)])
           Solving(g) == g = [S \in SUBSET DOMAIN list |-> Step(g, S)]
           f == CHOOSE g : Solving(g)
<1> USE DEF Listed
<1>1. \A g, S : Folded("statements", s, list, g, S) = Step(g, S)
  BY DEF Folded, Apply
<1>2. \A g : Solving(g) <=> FoldSolves("statements", s, list, n, g)
  BY <1>1 DEF FoldSolves
<1>3. Run(s, list) = f[1 .. n] /\ RunFold(s, list) = f
  BY DEF Run, FoldLeft, MapThenFoldSet, RunFold
<1> HIDE DEF Solving
<1>4. FoldSolves("statements", s, list, n, f)
  BY <1>2, FoldExists
<1> HIDE DEF f
<1>5. \A i \in 1 .. n : f[1 .. i] = Execute(f[1 .. i - 1], list[i])
  BY <1>4, FoldSteps DEF Apply
<1>6. f[{}] = s
  BY <1>4, {} \in SUBSET (1 .. n) DEF FoldSolves, Folded
<1>7. 1 .. 0 = {}
  OBVIOUS
<1> QED
  BY <1>3, <1>5, <1>6, <1>7 DEF After

(* And after the first i revisions of an upgrade.                           *)
UpgradeFold(s, from, to) ==
  CHOOSE g : g = [S \in SUBSET DOMAIN [i \in 1 .. to - from |-> from + i] |->
                    IF S = {} THEN s
                    ELSE RunRevision(g[S \ {Max(S)}],
                                     [i \in 1 .. to - from |-> from + i][Max(S)])]

Midway(s, from, to, i) == UpgradeFold(s, from, to)[1 .. i]

LEMMA UpgradeSteps ==
  ASSUME NEW s, NEW from \in Nat, NEW to \in Nat, from <= to
  PROVE  /\ Midway(s, from, to, 0) = s
         /\ Midway(s, from, to, to - from) = Upgraded(s, from, to)
         /\ \A i \in 1 .. to - from :
              Midway(s, from, to, i) = RunRevision(Midway(s, from, to, i - 1), from + i)
<1> SUFFICES ASSUME NEW n \in Nat, n = to - from
             PROVE  /\ Midway(s, from, to, 0) = s
                    /\ Midway(s, from, to, n) = Upgraded(s, from, to)
                    /\ \A i \in 1 .. n :
                         Midway(s, from, to, i) = RunRevision(Midway(s, from, to, i - 1), from + i)
  OBVIOUS
<1> DEFINE list == [i \in 1 .. to - from |-> from + i]
           Step(g, S) == IF S = {} THEN s ELSE RunRevision(g[S \ {Max(S)}], list[Max(S)])
           Solving(g) == g = [S \in SUBSET DOMAIN list |-> Step(g, S)]
           f == CHOOSE g : Solving(g)
<1>1. \A g, S : Folded("revisions", s, list, g, S) = Step(g, S)
  BY DEF Folded, Apply
<1>2. \A g : Solving(g) <=> FoldSolves("revisions", s, list, n, g)
  BY ZenonT(40), <1>1 DEF FoldSolves
<1>3. Upgraded(s, from, to) = f[1 .. n] /\ UpgradeFold(s, from, to) = f
  BY DEF Upgraded, FoldLeft, MapThenFoldSet, UpgradeFold
<1> HIDE DEF Solving
<1>4. FoldSolves("revisions", s, list, n, f)
  BY <1>2, FoldExists
<1>l. \A i \in 1 .. n : list[i] = from + i
  OBVIOUS
<1> HIDE DEF f, list
<1>s. \A i \in 1 .. n : f[1 .. i] = Apply("revisions", f[1 .. i - 1], list[i])
  BY <1>4, FoldSteps
<1>5. \A i \in 1 .. n : f[1 .. i] = RunRevision(f[1 .. i - 1], from + i)
  BY <1>l, <1>s DEF Apply
<1>6. f[{}] = s
  BY <1>4, {} \in SUBSET (1 .. n) DEF FoldSolves, Folded
<1>7. 1 .. 0 = {}
  OBVIOUS
<1> QED
  BY <1>3, <1>5, <1>6, <1>7 DEF Midway

-----------------------------------------------------------------------------
(* A schema nothing has been refused of: tables T and, besides, E.          *)
Holding(T, E, C, F) == [tables |-> T \cup E, columns |-> C, filled |-> F, ok |-> TRUE]

Old == AllOf(DecisionColumns)
New == AllOf(RoleColumns)

(* What the first five revisions may leave besides their tables.            *)
Besides == {{}, Engagement}

TablesAt(r) ==
  CASE r = 0 -> {}
    [] r \in {1, 2} -> {"users", "drone_keys", "drones", "missions", "mission_assignments",
                        "telemetry_events", "track_state", "alerts", "audit_log"}
    [] r = 3 -> {"users", "drone_keys", "drones", "missions", "mission_assignments",
                 "telemetry_events", "track_state", "alerts", "audit_log", "devices"}
    [] r = 4 -> BaseTables \cup Dropped
    [] r \in {5, 6} -> BaseTables \cup ControlCenter
    [] r = 7 -> ModelTables

ColumnsAt(r) ==
  CASE r = 0 -> {}
    [] r = 1 -> Old
    [] r \in {2, 3, 4} -> Old \cup PasswordColumns
    [] r \in {5, 6, 7} -> PasswordColumns \cup New

(* The schemas of a database that the revisions have made, up to revision   *)
(* r, and those the earlier form of revision 5 may have left.               *)
SchemaAt(r, E) ==
  {Holding(TablesAt(r), IF r <= 5 THEN E ELSE {}, ColumnsAt(r), F) :
     F \in SUBSET (Growing \cap TablesAt(r))}

Mixed == {MixedColumns(adapted) : adapted \in SUBSET DOMAIN RoleColumns}

AlteredTo(new, old, E, C, F) ==
  Holding((BaseTables \cup new) \cup old, E, PasswordColumns \cup C, F)

Altered(s, E) ==
  \E new \in NewParts, old \in OldParts, C \in Mixed, F \in SUBSET Growing :
    s = AlteredTo(new, old, E, C, F)

ShapeAt(s, r, E) == s \in SchemaAt(r, E) \/ (r = 5 /\ Altered(s, E))

(* The invariant that proves SchemaTypeOK and UpgradeReachesModels.         *)
SchemaInv ==
  /\ rev \in 0 .. LastRevision
  /\ \E E \in Besides : ShapeAt(schema, rev, E)

LEMMA ColumnFacts ==
  /\ \A c \in Old : /\ c[1] \in {"telemetry_events", "track_state"}
                    /\ c[2] \in {"decision_status", "confidence", "friend_status", "reason"}
  /\ \A c \in New : /\ c[1] \in {"drones", "telemetry_events", "track_state"}
                    /\ c[2] \in {"platform_role", "speed_mps", "heading_deg"}
  /\ \A c \in PasswordColumns : c[1] = "users"
BY DEF Old, New, AllOf, DecisionColumns, RoleColumns, PasswordColumns

LEMMA MixedFacts ==
  /\ \A C \in Mixed : C \subseteq Old \cup New
  /\ New \in Mixed /\ ControlCenter \in NewParts /\ {} \in OldParts
<1>1. DOMAIN RoleColumns = DOMAIN DecisionColumns
  BY DEF RoleColumns, DecisionColumns
<1>2. \A C \in Mixed : C \subseteq Old \cup New
  BY <1>1 DEF Mixed, MixedColumns, Old, New, AllOf
<1>3. New \in Mixed
  <2> DEFINE adapted == DOMAIN RoleColumns
  <2>1. New = MixedColumns(adapted)
    BY DEF New, AllOf, MixedColumns
  <2> QED
    BY <2>1 DEF Mixed
<1>4. ControlCenter \in NewParts /\ {} \in OldParts
  BY DEF NewParts, OldParts
<1> QED
  BY <1>2, <1>3, <1>4

LEMMA Disjoint ==
  Old \cap New = {} /\ Old \cap PasswordColumns = {} /\ New \cap PasswordColumns = {}
BY ColumnFacts

(* The tables that refer to one.                                            *)
LEMMA Referrers ==
  ASSUME NEW u
  PROVE  /\ \A t \in Growing \ {"users", "drones"} : t \notin References(u)
         /\ \A t \in {"sensor_contact_events", "mission_assignments", "intercept_tasks",
                     "audit_log", "alerts", "devices", "field_layers"} \cup Engagement :
              t \notin References(u)
         /\ "missions" \in References(u) => u = "mission_assignments"
         /\ "drone_keys" \in References(u) => u = "drones"
         /\ "hostile_detections" \in References(u) => u = "intercept_tasks"
         /\ "operator_stations" \in References(u) =>
              u \in {"hostile_detections", "intercept_tasks"}
         /\ "drones" \in References(u) =>
              u \in {"devices", "mission_assignments", "operator_stations", "intercept_tasks"}
         /\ "users" \in References(u) =>
              u \in {"missions", "alerts", "field_layers", "mission_assignments",
                    "operator_stations", "intercept_tasks"}
BY DEF References, Growing, Engagement

(* One statement                                                            *)

LEMMA Creates ==
  ASSUME NEW T, NEW E, NEW C, NEW F, NEW t, NEW U,
         t \notin T \cup E, References(t) \subseteq T, U = T \cup {t}
  PROVE  Execute(Holding(T, E, C, F), Create(t)) = Holding(U, E, C, F)
<1>1. (T \cup E) \cup {t} = U \cup E
  OBVIOUS
<1> QED
  BY ZenonT(40), <1>1 DEF Execute, Needed, Performed, Allowed, Create, Statement, Holding

LEMMA Drops ==
  ASSUME NEW T, NEW E, NEW C, NEW F, NEW t \in T, NEW U,
         t \notin E, \A u \in T \cup E : t \notin References(u), U = T \ {t}
  PROVE  Execute(Holding(T, E, C, F), Drop(t)) =
           Holding(U, E, {c \in C : c[1] # t}, F \ {t})
<1>1. (T \cup E) \ {t} = U \cup E
  OBVIOUS
<1> QED
  BY ZenonT(40), <1>1 DEF Execute, Needed, Performed, Allowed, Drop, Statement, Holding

LEMMA Adds ==
  ASSUME NEW T, NEW E, NEW C, NEW F, NEW S, \A c \in S : c[1] \in T /\ c \notin C
  PROVE  Execute(Holding(T, E, C, F), AddColumns(S)) = Holding(T, E, C \cup S, F)
BY DEF Execute, Needed, Performed, Allowed, AddColumns, Statement, Holding

LEMMA AddsToEmpty ==
  ASSUME NEW T, NEW E, NEW C, NEW S, \A c \in S : c[1] \in T /\ c \notin C
  PROVE  Execute(Holding(T, E, C, {}), AddRequired(S)) = Holding(T, E, C \cup S, {})
BY DEF Execute, Needed, Performed, Allowed, AddRequired, Statement, Holding

LEMMA Removes ==
  ASSUME NEW T, NEW E, NEW C, NEW F, NEW S, S \subseteq C
  PROVE  Execute(Holding(T, E, C, F), DropColumns(S)) = Holding(T, E, C \ S, F)
BY DEF Execute, Needed, Performed, Allowed, DropColumns, Statement, Holding

(* The foreign keys                                                         *)
LEMMA Refs ==
  /\ \A t \in {"users", "drone_keys", "telemetry_events", "track_state", "audit_log",
               "sensor_contact_events"} \cup Engagement : References(t) = {}
  /\ References("drones") = {"drone_keys"} /\ References("devices") = {"drones"}
  /\ \A t \in {"missions", "alerts", "field_layers"} : References(t) = {"users"}
  /\ References("mission_assignments") = {"users", "drones", "missions"}
  /\ References("operator_stations") = {"users", "drones"}
  /\ References("hostile_detections") = {"operator_stations"}
  /\ References("intercept_tasks") =
       {"hostile_detections", "operator_stations", "users", "drones"}
BY DEF References, Engagement

(* Tables one statement can drop without another noticing, and a column.    *)
LEMMA DropsPlain ==
  ASSUME NEW T, NEW E, NEW C, NEW F, NEW t \in T, NEW U,
         t \notin E, \A u \in T \cup E : t \notin References(u), U = T \ {t},
         \A c \in C : c[1] # t, t \notin F
  PROVE  Execute(Holding(T, E, C, F), Drop(t)) = Holding(U, E, C, F)
<1>1. {c \in C : c[1] # t} = C /\ F \ {t} = F
  OBVIOUS
<1> QED
  BY <1>1, Drops

LEMMA OneStatement ==
  ASSUME NEW s, NEW x PROVE Run(s, <<x>>) = Execute(s, x)
<1>1. Listed(<<x>>, 1) /\ <<x>>[1] = x
  BY DEF Listed
<1>2. /\ After(s, <<x>>, 0) = s /\ After(s, <<x>>, 1) = Run(s, <<x>>)
      /\ After(s, <<x>>, 1) = Execute(After(s, <<x>>, 0), <<x>>[1])
  BY <1>1, RunSteps
<1> QED
  BY <1>1, <1>2

LEMMA Up1 ==
  ASSUME NEW E \in Besides
  PROVE  RunRevision(Holding({}, E, {}, {}), 1) = Holding(TablesAt(1), E, ColumnsAt(1), {})
<1> DEFINE s == Holding({}, E, {}, {})
           g(i) == After(s, InitialSchema, i)
<1>1. /\ g(0) = s /\ g(10) = Run(s, InitialSchema)
      /\ \A i \in 1 .. 10 : g(i) = Execute(g(i - 1), InitialSchema[i])
  <2>1. Listed(InitialSchema, 10)
    BY DEF InitialSchema, Listed
  <2> HIDE DEF s
  <2> QED
    BY <2>1, RunSteps
<1> HIDE DEF g
<1>2. /\ g(1) = Execute(g(0), Create("users"))
      /\ g(2) = Execute(g(1), Create("drone_keys"))
      /\ g(3) = Execute(g(2), Create("drones"))
      /\ g(4) = Execute(g(3), Create("missions"))
      /\ g(5) = Execute(g(4), Create("mission_assignments"))
      /\ g(6) = Execute(g(5), Create("telemetry_events"))
      /\ g(7) = Execute(g(6), Create("track_state"))
      /\ g(8) = Execute(g(7), Create("alerts"))
      /\ g(9) = Execute(g(8), Create("audit_log"))
      /\ g(10) = Execute(g(9), AddRequired(Old))
  BY <1>1 DEF InitialSchema, Old
<1> USE DEF Engagement
<1>e. E \subseteq Engagement
  BY DEF Besides
<1>t0. g(0) = Holding({}, E, {}, {})
  BY <1>1
<1>t1. g(1) = Holding({"users"}, E, {}, {})
  BY <1>2, <1>t0, <1>e, Creates, Refs
<1>t2. g(2) = Holding({"users", "drone_keys"}, E, {}, {})
  BY <1>2, <1>t1, <1>e, Creates, Refs
<1>t3. g(3) = Holding({"users", "drone_keys", "drones"}, E, {}, {})
  BY <1>2, <1>t2, <1>e, Creates, Refs
<1>t4. g(4) = Holding({"users", "drone_keys", "drones", "missions"}, E, {},
              {})
  BY <1>2, <1>t3, <1>e, Creates, Refs
<1>t5. g(5) = Holding({"users", "drone_keys", "drones", "missions",
              "mission_assignments"}, E, {}, {})
  BY <1>2, <1>t4, <1>e, Creates, Refs
<1>t6. g(6) = Holding({"users", "drone_keys", "drones", "missions",
              "mission_assignments", "telemetry_events"}, E, {}, {})
  BY <1>2, <1>t5, <1>e, Creates, Refs
<1>t7. g(7) = Holding({"users", "drone_keys", "drones", "missions",
              "mission_assignments", "telemetry_events", "track_state"}, E,
              {}, {})
  BY <1>2, <1>t6, <1>e, Creates, Refs
<1>t8. g(8) = Holding({"users", "drone_keys", "drones", "missions",
              "mission_assignments", "telemetry_events", "track_state",
              "alerts"}, E, {}, {})
  BY <1>2, <1>t7, <1>e, Creates, Refs
<1>t9. g(9) = Holding({"users", "drone_keys", "drones", "missions",
              "mission_assignments", "telemetry_events", "track_state",
              "alerts", "audit_log"}, E, {}, {})
  BY <1>2, <1>t8, <1>e, Creates, Refs
<1>c. g(9) = Holding(TablesAt(1), E, {}, {})
  BY <1>t9 DEF TablesAt
<1>3. g(10) = Holding(TablesAt(1), E, {} \cup Old, {})
  <2>1. \A c \in Old : c[1] \in TablesAt(1)
    BY ColumnFacts DEF TablesAt
  <2> QED
    BY <1>2, <1>c, <2>1, AddsToEmpty
<1>4. {} \cup Old = ColumnsAt(1) /\ Up(1) = InitialSchema
  BY DEF ColumnsAt, Up
<1> QED
  BY <1>1, <1>3, <1>4 DEF RunRevision

LEMMA Up2 ==
  ASSUME NEW E, NEW F
  PROVE  RunRevision(Holding(TablesAt(1), E, ColumnsAt(1), F), 2) =
           Holding(TablesAt(2), E, ColumnsAt(2), F)
<1>1. \A c \in PasswordColumns : c[1] \in TablesAt(1) /\ c \notin ColumnsAt(1)
  BY ColumnFacts, Disjoint DEF TablesAt, ColumnsAt
<1>2. /\ Up(2) = <<AddColumns(PasswordColumns)>>
      /\ ColumnsAt(1) \cup PasswordColumns = ColumnsAt(2) /\ TablesAt(2) = TablesAt(1)
  BY DEF Up, ColumnsAt, TablesAt
<1> QED
  BY <1>1, <1>2, Adds, OneStatement DEF RunRevision

LEMMA Up3 ==
  ASSUME NEW E \in Besides, NEW F
  PROVE  RunRevision(Holding(TablesAt(2), E, ColumnsAt(2), F), 3) =
           Holding(TablesAt(3), E, ColumnsAt(3), F)
<1>1. /\ "devices" \notin TablesAt(2) \cup E /\ References("devices") \subseteq TablesAt(2)
      /\ TablesAt(3) = TablesAt(2) \cup {"devices"}
  BY Refs DEF TablesAt, Besides, Engagement
<1>2. Up(3) = <<Create("devices")>> /\ ColumnsAt(3) = ColumnsAt(2)
  BY DEF Up, ColumnsAt
<1> QED
  BY <1>1, <1>2, Creates, OneStatement DEF RunRevision

LEMMA Up4 ==
  ASSUME NEW E \in Besides, NEW F
  PROVE  RunRevision(Holding(TablesAt(3), E, ColumnsAt(3), F), 4) =
           Holding(TablesAt(4), E, ColumnsAt(4), F)
<1> DEFINE t == "sensor_contact_events"
<1>1. /\ t \notin TablesAt(3) \cup E /\ References(t) \subseteq TablesAt(3)
      /\ TablesAt(4) = TablesAt(3) \cup {t}
  BY Refs DEF TablesAt, Besides, Engagement, BaseTables, Dropped
<1>2. Up(4) = <<Create(t)>> /\ ColumnsAt(4) = ColumnsAt(3)
  BY DEF Up, ColumnsAt
<1> QED
  BY <1>1, <1>2, Creates, OneStatement DEF RunRevision

LEMMA Up7 ==
  ASSUME NEW F
  PROVE  RunRevision(Holding(TablesAt(6), {}, ColumnsAt(6), F), 7) =
           Holding(TablesAt(7), {}, ColumnsAt(7), F)
<1> DEFINE t == "field_layers"
<1>1. /\ t \notin TablesAt(6) \cup {} /\ References(t) \subseteq TablesAt(6)
      /\ TablesAt(7) = TablesAt(6) \cup {t}
  BY Refs DEF TablesAt, ModelTables, BaseTables, ControlCenter
<1>2. Up(7) = <<Create(t)>> /\ ColumnsAt(7) = ColumnsAt(6)
  BY DEF Up, ColumnsAt
<1> QED
  BY <1>1, <1>2, Creates, OneStatement DEF RunRevision

(* The items of two lists joined.                                           *)
LEMMA JoinedLists ==
  ASSUME NEW X, NEW a \in Seq(X), NEW b \in Seq(X)
  PROVE  /\ Listed(a \o b, Len(a) + Len(b))
         /\ \A i \in 1 .. Len(a) : (a \o b)[i] = a[i]
         /\ \A i \in 1 .. Len(b) : (a \o b)[Len(a) + i] = b[i]
<1>1. a \o b \in Seq(X) /\ Len(a \o b) = Len(a) + Len(b)
  BY ConcatProperties
<1>2. DOMAIN (a \o b) = 1 .. Len(a) + Len(b) /\ Len(a) + Len(b) \in Nat
  BY <1>1
<1> QED
  BY <1>2, ConcatProperties DEF Listed

LEMMA RefactorIs ==
  /\ Listed(Refactor, 8)
  /\ Refactor[1] = Drop("sensor_contact_events")
  /\ Refactor[2] = Drop("mission_assignments")
  /\ Refactor[3] = Drop("missions")
  /\ Refactor[4] = AddColumns(New)
  /\ Refactor[5] = DropColumns(Old)
  /\ Refactor[6] = Create("operator_stations")
  /\ Refactor[7] = Create("hostile_detections")
  /\ Refactor[8] = Create("intercept_tasks")
<1> DEFINE first == <<Drop("sensor_contact_events"), Drop("mission_assignments"),
                  Drop("missions"), AddColumns(New), DropColumns(Old)>>
           then == CreateControlCenter
           Items == {first[1], first[2], first[3], first[4], first[5], then[1], then[2], then[3]}
<1>1. Refactor = first \o then
  BY DEF Refactor, Old, New
<1>2. first \in Seq(Items) /\ then \in Seq(Items)
  BY DEF CreateControlCenter
<1>n. Len(first) = 5 /\ Len(then) = 3
  BY DEF CreateControlCenter
<1> HIDE DEF first, then, Items
<1>3. /\ Listed(first \o then, Len(first) + Len(then))
      /\ \A i \in 1 .. Len(first) : (first \o then)[i] = first[i]
      /\ \A i \in 1 .. Len(then) : (first \o then)[Len(first) + i] = then[i]
  BY <1>2, JoinedLists
<1>5. /\ \A i \in 1 .. 5 : Refactor[i] = first[i]
      /\ \A i \in 1 .. 3 : Refactor[5 + i] = then[i]
  BY <1>1, <1>n, <1>3
<1>4. /\ Refactor[1] = first[1] /\ Refactor[2] = first[2] /\ Refactor[3] = first[3]
      /\ Refactor[4] = first[4] /\ Refactor[5] = first[5]
      /\ Refactor[6] = then[1] /\ Refactor[7] = then[2] /\ Refactor[8] = then[3]
  BY <1>5
<1> QED
  BY <1>1, <1>n, <1>3, <1>4 DEF CreateControlCenter, first, then

LEMMA Up5 ==
  ASSUME NEW E \in Besides, NEW F \in SUBSET Growing
  PROVE  RunRevision(Holding(TablesAt(4), E, ColumnsAt(4), F), 5) =
           Holding(TablesAt(5), E, ColumnsAt(5), F)
<1> DEFINE s == Holding(TablesAt(4), E, ColumnsAt(4), F)
           g(i) == After(s, Refactor, i)
<1>1. /\ g(0) = s /\ g(8) = Run(s, Refactor)
      /\ \A i \in 1 .. 8 : g(i) = Execute(g(i - 1), Refactor[i])
  <2> HIDE DEF s
  <2> QED
    BY RefactorIs, RunSteps
<1> HIDE DEF g
<1>2. /\ g(1) = Execute(g(0), Drop("sensor_contact_events"))
      /\ g(2) = Execute(g(1), Drop("mission_assignments"))
      /\ g(3) = Execute(g(2), Drop("missions"))
      /\ g(4) = Execute(g(3), AddColumns(New))
      /\ g(5) = Execute(g(4), DropColumns(Old))
      /\ g(6) = Execute(g(5), Create("operator_stations"))
      /\ g(7) = Execute(g(6), Create("hostile_detections"))
      /\ g(8) = Execute(g(7), Create("intercept_tasks"))
  BY <1>1, RefactorIs
<1> USE DEF BaseTables, Engagement, Growing
<1>e. E \subseteq Engagement
  BY DEF Besides
<1>p. \A c \in Old \cup PasswordColumns : c[1] \in Growing
  BY ColumnFacts
<1>t0. g(0) = Holding(BaseTables \cup Dropped, E, Old \cup PasswordColumns, F)
  BY <1>1 DEF TablesAt, ColumnsAt
<1>t1. g(1) = Holding(BaseTables \cup {"mission_assignments", "missions"}, E,
                      Old \cup PasswordColumns, F)
  BY <1>2, <1>t0, <1>e, <1>p, DropsPlain, Referrers DEF Dropped
<1>t2. g(2) = Holding(BaseTables \cup {"missions"}, E, Old \cup PasswordColumns, F)
  BY <1>2, <1>t1, <1>e, <1>p, DropsPlain, Referrers
<1>t3. g(3) = Holding(BaseTables, E, Old \cup PasswordColumns, F)
  BY <1>2, <1>t2, <1>e, <1>p, DropsPlain, Referrers
<1>t4. g(4) = Holding(BaseTables, E, (Old \cup PasswordColumns) \cup New, F)
  BY <1>2, <1>t3, ColumnFacts, Disjoint, Adds
<1>t5. g(5) = Holding(BaseTables, E, PasswordColumns \cup New, F)
  <2>1. ((Old \cup PasswordColumns) \cup New) \ Old = PasswordColumns \cup New
    BY Disjoint
  <2>2. Old \subseteq (Old \cup PasswordColumns) \cup New
    OBVIOUS
  <2> QED
    BY <1>2, <1>t4, <2>1, <2>2, Removes
<1>t6. g(6) = Holding(BaseTables \cup {"operator_stations"}, E, PasswordColumns \cup New, F)
  BY <1>2, <1>t5, <1>e, Creates, Refs
<1>t7. g(7) = Holding(BaseTables \cup {"operator_stations", "hostile_detections"}, E,
                      PasswordColumns \cup New, F)
  BY <1>2, <1>t6, <1>e, Creates, Refs
<1>t8. g(8) = Holding(BaseTables \cup ControlCenter, E, PasswordColumns \cup New, F)
  BY <1>2, <1>t7, <1>e, Creates, Refs DEF ControlCenter
<1>3. /\ Up(5) = Refactor
      /\ TablesAt(5) = BaseTables \cup ControlCenter /\ ColumnsAt(5) = PasswordColumns \cup New
  BY DEF Up, TablesAt, ColumnsAt
<1> QED
  BY <1>1, <1>3, <1>t8 DEF RunRevision

(* Statements that look first                                               *)

LEMMA AddsMissing ==
  ASSUME NEW T, NEW C, NEW F, NEW S, \A c \in S : c[1] \in T
  PROVE  Execute(Holding(T, {}, C, F), AddMissing(S)) = Holding(T, {}, C \cup S, F)
<1> DEFINE s == Holding(T, {}, C, F)
           M == {c \in S \ C : c[1] \in T}
<1>1. Needed(s, AddMissing(S)) = AddColumns(M)
  BY DEF Needed, AddMissing, Statement, Holding
<1>2. Execute(s, AddColumns(M)) = Holding(T, {}, C \cup M, F)
  BY Adds
<1>3. C \cup M = C \cup S
  OBVIOUS
<1>4. Needed(s, AddColumns(M)) = AddColumns(M)
  BY DEF Needed, AddColumns, Statement
<1> QED
  BY <1>1, <1>2, <1>3, <1>4 DEF Execute

LEMMA RemovesPresent ==
  ASSUME NEW T, NEW C, NEW F, NEW S
  PROVE  Execute(Holding(T, {}, C, F), RemovePresent(S)) = Holding(T, {}, C \ S, F)
<1> DEFINE s == Holding(T, {}, C, F)
           M == S \cap C
<1>1. Needed(s, RemovePresent(S)) = DropColumns(M)
  BY DEF Needed, RemovePresent, Statement, Holding
<1>2. Execute(s, DropColumns(M)) = Holding(T, {}, C \ M, F)
  BY Removes
<1>3. C \ M = C \ S
  OBVIOUS
<1>4. Needed(s, DropColumns(M)) = DropColumns(M)
  BY DEF Needed, DropColumns, Statement
<1> QED
  BY <1>1, <1>2, <1>3, <1>4 DEF Execute

LEMMA NothingToDo ==
  ASSUME NEW T, NEW C, NEW F
  PROVE  Execute(Holding(T, {}, C, F), Nothing) = Holding(T, {}, C, F)
<1>1. C \cup {} = C
  OBVIOUS
<1> QED
  BY <1>1, Adds DEF Nothing

LEMMA DropsPresent ==
  ASSUME NEW T, NEW C, NEW F, NEW t, NEW U, \A u \in T : t \notin References(u),
         U = T \ {t}, \A c \in C : c[1] # t, t \notin F
  PROVE  Execute(Holding(T, {}, C, F), DropPresent(t)) = Holding(U, {}, C, F)
<1> DEFINE s == Holding(T, {}, C, F)
<1>1. CASE t \in T
  <2>1. Needed(s, DropPresent(t)) = Drop(t) /\ Needed(s, Drop(t)) = Drop(t)
    BY <1>1 DEF Needed, DropPresent, Drop, Statement, Holding
  <2>2. Execute(s, Drop(t)) = Holding(U, {}, C, F)
    BY <1>1, DropsPlain
  <2> QED
    BY <2>1, <2>2 DEF Execute
<1>2. CASE t \notin T
  <2>1. Needed(s, DropPresent(t)) = Nothing /\ Needed(s, Nothing) = Nothing /\ U = T
    BY <1>2 DEF Needed, DropPresent, Nothing, AddColumns, Statement, Holding
  <2> QED
    BY <2>1, NothingToDo DEF Execute
<1> QED
  BY <1>1, <1>2

LEMMA CreatesMissing ==
  ASSUME NEW T, NEW C, NEW F, NEW t, NEW U, References(t) \subseteq T, U = T \cup {t}
  PROVE  Execute(Holding(T, {}, C, F), CreateMissing(t)) = Holding(U, {}, C, F)
<1> DEFINE s == Holding(T, {}, C, F)
<1>1. CASE t \notin T
  <2>1. Needed(s, CreateMissing(t)) = Create(t) /\ Needed(s, Create(t)) = Create(t)
    BY <1>1 DEF Needed, CreateMissing, Create, Statement, Holding
  <2>2. Execute(s, Create(t)) = Holding(U, {}, C, F)
    BY <1>1, Creates
  <2> QED
    BY <2>1, <2>2 DEF Execute
<1>2. CASE t \in T
  <2>1. Needed(s, CreateMissing(t)) = Nothing /\ Needed(s, Nothing) = Nothing /\ U = T
    BY <1>2 DEF Needed, CreateMissing, Nothing, AddColumns, Statement, Holding
  <2> QED
    BY <2>1, NothingToDo DEF Execute
<1> QED
  BY <1>1, <1>2

(* Whatever the earlier form of revision 5 has left, 6 makes the same of it. *)
LEMMA Up6 ==
  ASSUME NEW new \in NewParts, NEW old \in OldParts, NEW E \in Besides, NEW C \in Mixed,
         NEW F \in SUBSET Growing
  PROVE  RunRevision(AlteredTo(new, old, E, C, F), 6) =
           Holding(TablesAt(6), {}, ColumnsAt(6), F)
<1> DEFINE s == AlteredTo(new, old, E, C, F)
           g(i) == After(s, Adapt, i)
           All == PasswordColumns \cup New
<1>1. /\ g(0) = s /\ g(12) = Run(s, Adapt)
      /\ \A i \in 1 .. 12 : g(i) = Execute(g(i - 1), Adapt[i])
  <2>1. Listed(Adapt, 12)
    BY DEF Adapt, Listed
  <2> HIDE DEF s
  <2> QED
    BY <2>1, RunSteps
<1> HIDE DEF g
<1>2. /\ g(1) = Execute(g(0), AddMissing(New))
      /\ g(2) = Execute(g(1), RemovePresent(Old))
      /\ g(3) = Execute(g(2), DropPresent("engagement_logs"))
      /\ g(4) = Execute(g(3), DropPresent("engagement_targets"))
      /\ g(5) = Execute(g(4), DropPresent("fire_positions"))
      /\ g(6) = Execute(g(5), DropPresent("weapon_systems"))
      /\ g(7) = Execute(g(6), DropPresent("sensor_contact_events"))
      /\ g(8) = Execute(g(7), DropPresent("mission_assignments"))
      /\ g(9) = Execute(g(8), DropPresent("missions"))
      /\ g(10) = Execute(g(9), CreateMissing("operator_stations"))
      /\ g(11) = Execute(g(10), CreateMissing("hostile_detections"))
      /\ g(12) = Execute(g(11), CreateMissing("intercept_tasks"))
  BY <1>1 DEF Adapt, Old, New
<1> USE DEF BaseTables, Engagement, Growing
<1>p. \A c \in All : c[1] \in Growing
  BY ColumnFacts
<1>e. E \subseteq Engagement /\ new \subseteq ControlCenter /\ old \subseteq Dropped
  BY DEF Besides, NewParts, OldParts
<1> DEFINE T == ((BaseTables \cup new) \cup old) \cup E
           T3 == T \ {"engagement_logs"}
           T4 == T3 \ {"engagement_targets"}
           T5 == T4 \ {"fire_positions"}
           T6 == T5 \ {"weapon_systems"}
           T7 == T6 \ {"sensor_contact_events"}
           T8 == T7 \ {"mission_assignments"}
           T9 == T8 \ {"missions"}
<1>t0. g(0) = Holding(T, {}, PasswordColumns \cup C, F)
  BY <1>1 DEF Holding, AlteredTo
<1>t1. g(1) = Holding(T, {}, (PasswordColumns \cup C) \cup New, F)
  <2>1. \A c \in New : c[1] \in T
    BY ColumnFacts
  <2> HIDE DEF T
  <2> QED
    BY <1>2, <1>t0, <2>1, AddsMissing
<1>t2. g(2) = Holding(T, {}, All, F)
  <2>1. ((PasswordColumns \cup C) \cup New) \ Old = All
    BY Disjoint, MixedFacts
  <2> HIDE DEF T, All
  <2> QED
    BY <1>2, <1>t1, <2>1, RemovesPresent
<1>t3. g(3) = Holding(T3, {}, All, F)
  <2> HIDE DEF T, All
  <2> QED
    BY <1>2, <1>t2, <1>p, DropsPresent, Referrers
<1>t4. g(4) = Holding(T4, {}, All, F)
  <2> HIDE DEF T3, All
  <2> QED
    BY <1>2, <1>t3, <1>p, DropsPresent, Referrers
<1>t5. g(5) = Holding(T5, {}, All, F)
  <2> HIDE DEF T4, All
  <2> QED
    BY <1>2, <1>t4, <1>p, DropsPresent, Referrers
<1>t6. g(6) = Holding(T6, {}, All, F)
  <2> HIDE DEF T5, All
  <2> QED
    BY <1>2, <1>t5, <1>p, DropsPresent, Referrers
<1>t7. g(7) = Holding(T7, {}, All, F)
  <2> HIDE DEF T6, All
  <2> QED
    BY <1>2, <1>t6, <1>p, DropsPresent, Referrers
<1>t8. g(8) = Holding(T8, {}, All, F)
  <2> HIDE DEF T7, All
  <2> QED
    BY <1>2, <1>t7, <1>p, DropsPresent, Referrers
<1>t9. g(9) = Holding(BaseTables \cup new, {}, All, F)
  <2>1. T9 = BaseTables \cup new
    BY <1>e DEF ControlCenter, Dropped
  <2>2. "mission_assignments" \notin T8
    OBVIOUS
  <2> HIDE DEF T8, All
  <2> QED
    BY <1>2, <1>t8, <1>p, <2>1, <2>2, DropsPresent, Referrers
<1>t10. g(10) = Holding((BaseTables \cup new) \cup {"operator_stations"}, {}, All, F)
  BY <1>2, <1>t9, CreatesMissing, Refs
<1>t11. g(11) = Holding(((BaseTables \cup new) \cup {"operator_stations"})
                         \cup {"hostile_detections"}, {}, All, F)
  BY <1>2, <1>t10, CreatesMissing, Refs
<1>t12. g(12) = Holding(BaseTables \cup ControlCenter, {}, All, F)
  <2>1. BaseTables \cup ControlCenter =
          (((BaseTables \cup new) \cup {"operator_stations"}) \cup {"hostile_detections"})
            \cup {"intercept_tasks"}
    BY <1>e DEF ControlCenter
  <2> QED
    BY <1>2, <1>t11, <2>1, CreatesMissing, Refs
<1>3. /\ Up(6) = Adapt
      /\ TablesAt(6) = BaseTables \cup ControlCenter /\ ColumnsAt(6) = All
  BY DEF Up, TablesAt, ColumnsAt
<1> QED
  BY <1>1, <1>3, <1>t12 DEF RunRevision

-----------------------------------------------------------------------------
(* A step back                                                              *)

LEMMA Down1 ==
  ASSUME NEW E \in Besides, NEW F \in SUBSET (Growing \cap TablesAt(1))
  PROVE  Downgraded(Holding(TablesAt(1), E, ColumnsAt(1), F), 1) = Holding({}, E, {}, {})
<1> DEFINE s == Holding(TablesAt(1), E, ColumnsAt(1), F)
           g(i) == After(s, DropInitialSchema, i)
           Without(S) == {c \in Old : c[1] \notin S}
<1>1. /\ g(0) = s /\ g(9) = Run(s, DropInitialSchema)
      /\ \A i \in 1 .. 9 : g(i) = Execute(g(i - 1), DropInitialSchema[i])
  <2>1. Listed(DropInitialSchema, 9)
    BY DEF DropInitialSchema, Listed
  <2> HIDE DEF s
  <2> QED
    BY <2>1, RunSteps
<1> HIDE DEF g
<1>2. /\ g(1) = Execute(g(0), Drop("audit_log"))
      /\ g(2) = Execute(g(1), Drop("alerts"))
      /\ g(3) = Execute(g(2), Drop("track_state"))
      /\ g(4) = Execute(g(3), Drop("telemetry_events"))
      /\ g(5) = Execute(g(4), Drop("mission_assignments"))
      /\ g(6) = Execute(g(5), Drop("missions"))
      /\ g(7) = Execute(g(6), Drop("drones"))
      /\ g(8) = Execute(g(7), Drop("drone_keys"))
      /\ g(9) = Execute(g(8), Drop("users"))
  BY <1>1 DEF DropInitialSchema
<1> USE DEF Engagement
<1>e. E \subseteq Engagement
  BY DEF Besides
<1>t0. g(0) = Holding({"users", "drone_keys", "drones", "missions",
                      "mission_assignments", "telemetry_events",
                      "track_state", "alerts", "audit_log"}, E, Old, F)
  BY <1>1 DEF TablesAt, ColumnsAt
<1>t1. g(1) = Holding({"users", "drone_keys", "drones", "missions", "mission_assignments",
                    "telemetry_events", "track_state", "alerts"}, E, Old, F)
  BY <1>2, <1>t0, <1>e, DropsPlain, Referrers, ColumnFacts DEF Growing
<1>t2. g(2) = Holding({"users", "drone_keys", "drones", "missions", "mission_assignments",
                    "telemetry_events", "track_state"}, E, Old, F)
  BY <1>2, <1>t1, <1>e, DropsPlain, Referrers, ColumnFacts DEF Growing
<1>t3. g(3) = Holding({"users", "drone_keys", "drones", "missions", "mission_assignments",
                    "telemetry_events"}, E, Without({"track_state"}),
                    F \ {"track_state"})
  <2>1. {c \in Old : c[1] # "track_state"} = Without({"track_state"})
    OBVIOUS
  <2> HIDE DEF Without
  <2> QED
    BY <1>2, <1>t2, <1>e, <2>1, Drops, Referrers DEF Growing
<1>t4. g(4) = Holding({"users", "drone_keys", "drones", "missions", "mission_assignments"},
                    E, {}, (F \ {"track_state"}) \ {"telemetry_events"})
  <2>1. {c \in Without({"track_state"}) : c[1] # "telemetry_events"} = {}
    BY ColumnFacts
  <2> HIDE DEF Without
  <2> QED
    BY <1>2, <1>t3, <1>e, <2>1, Drops, Referrers DEF Growing
<1>t5. g(5) = Holding({"users", "drone_keys", "drones", "missions"}, E, {},
                    (F \ {"track_state"}) \ {"telemetry_events"})
  BY <1>2, <1>t4, <1>e, DropsPlain, Referrers DEF Growing
<1>t6. g(6) = Holding({"users", "drone_keys", "drones"}, E, {},
                    (F \ {"track_state"}) \ {"telemetry_events"})
  BY <1>2, <1>t5, <1>e, DropsPlain, Referrers DEF Growing
<1>t7. g(7) = Holding({"users", "drone_keys"}, E, {},
                    ((F \ {"track_state"}) \ {"telemetry_events"}) \ {"drones"})
  <2>1. {c \in {} : c[1] # "drones"} = {}
    OBVIOUS
  <2> HIDE DEF Without
  <2> QED
    BY <1>2, <1>t6, <1>e, <2>1, Drops, Referrers DEF Growing
<1>t8. g(8) = Holding({"users"}, E, {},
                    ((F \ {"track_state"}) \ {"telemetry_events"}) \ {"drones"})
  BY <1>2, <1>t7, <1>e, DropsPlain, Referrers DEF Growing
<1>t9. g(9) = Holding({}, E, {},
                    (((F \ {"track_state"}) \ {"telemetry_events"}) \ {"drones"}) \ {"users"})
  <2>1. {c \in {} : c[1] # "users"} = {}
    OBVIOUS
  <2> HIDE DEF Without
  <2> QED
    BY <1>2, <1>t8, <1>e, <2>1, Drops, Referrers DEF Growing
<1>3. (((F \ {"track_state"}) \ {"telemetry_events"}) \ {"drones"}) \ {"users"} = {} /\ Down(1) = DropInitialSchema
  BY DEF Growing, Down
<1> QED
  BY <1>1, <1>3, <1>t9 DEF Downgraded

LEMMA Down2 ==
  ASSUME NEW E, NEW F
  PROVE  Downgraded(Holding(TablesAt(2), E, ColumnsAt(2), F), 2) =
           Holding(TablesAt(1), E, ColumnsAt(1), F)
<1>1. /\ Down(2) = <<DropColumns(PasswordColumns)>> /\ TablesAt(1) = TablesAt(2)
      /\ PasswordColumns \subseteq ColumnsAt(2) /\ ColumnsAt(2) \ PasswordColumns = ColumnsAt(1)
  BY Disjoint DEF Down, ColumnsAt, TablesAt
<1> QED
  BY <1>1, Removes, OneStatement DEF Downgraded

LEMMA Down3 ==
  ASSUME NEW E \in Besides, NEW F \in SUBSET Growing
  PROVE  Downgraded(Holding(TablesAt(3), E, ColumnsAt(3), F), 3) =
           Holding(TablesAt(2), E, ColumnsAt(2), F)
<1> DEFINE t == "devices"
<1>1. /\ t \in TablesAt(3) /\ t \notin E /\ t \notin F
      /\ TablesAt(2) = TablesAt(3) \ {t}
  BY DEF TablesAt, Besides, Engagement, Growing
<1>2. /\ Down(3) = <<Drop(t)>> /\ ColumnsAt(3) = ColumnsAt(2)
      /\ \A c \in ColumnsAt(3) : c[1] # t
  BY ColumnFacts DEF Down, ColumnsAt
<1>3. \A u \in TablesAt(3) \cup E : t \notin References(u)
  BY Referrers
<1> QED
  BY <1>1, <1>2, <1>3, DropsPlain, OneStatement DEF Downgraded

LEMMA Down4 ==
  ASSUME NEW E \in Besides, NEW F \in SUBSET Growing
  PROVE  Downgraded(Holding(TablesAt(4), E, ColumnsAt(4), F), 4) =
           Holding(TablesAt(3), E, ColumnsAt(3), F)
<1> DEFINE t == "sensor_contact_events"
<1>1. /\ t \in TablesAt(4) /\ t \notin E /\ t \notin F
      /\ TablesAt(3) = TablesAt(4) \ {t}
  BY DEF TablesAt, Besides, Engagement, Growing, BaseTables, Dropped
<1>2. /\ Down(4) = <<Drop(t)>> /\ ColumnsAt(4) = ColumnsAt(3)
      /\ \A c \in ColumnsAt(4) : c[1] # t
  BY ColumnFacts DEF Down, ColumnsAt
<1>3. \A u \in TablesAt(4) \cup E : t \notin References(u)
  BY Referrers
<1> QED
  BY <1>1, <1>2, <1>3, DropsPlain, OneStatement DEF Downgraded

LEMMA Down6 == ASSUME NEW s PROVE Downgraded(s, 6) = s
<1>1. Listed(<< >>, 0) /\ Down(6) = << >>
  BY DEF Listed, Down
<1>2. After(s, << >>, 0) = s /\ After(s, << >>, 0) = Run(s, << >>)
  BY <1>1, RunSteps
<1> QED
  BY <1>1, <1>2 DEF Downgraded

LEMMA Down7 ==
  ASSUME NEW F \in SUBSET Growing
  PROVE  Downgraded(Holding(TablesAt(7), {}, ColumnsAt(7), F), 7) =
           Holding(TablesAt(6), {}, ColumnsAt(6), F)
<1> DEFINE t == "field_layers"
<1>1. /\ t \in TablesAt(7) /\ t \notin {} /\ t \notin F
      /\ TablesAt(6) = TablesAt(7) \ {t}
  BY DEF TablesAt, Growing, ModelTables, BaseTables, ControlCenter
<1>2. /\ Down(7) = <<Drop(t)>> /\ ColumnsAt(7) = ColumnsAt(6)
      /\ \A c \in ColumnsAt(7) : c[1] # t
  BY ColumnFacts DEF Down, ColumnsAt
<1>3. \A u \in TablesAt(7) \cup {} : t \notin References(u)
  BY Referrers
<1> QED
  BY <1>1, <1>2, <1>3, DropsPlain, OneStatement DEF Downgraded

LEMMA UndoRefactorIs ==
  /\ Listed(UndoRefactor, 8)
  /\ UndoRefactor[1] = Drop("intercept_tasks")
  /\ UndoRefactor[2] = Drop("hostile_detections")
  /\ UndoRefactor[3] = Drop("operator_stations")
  /\ UndoRefactor[4] = AddColumns(Old)
  /\ UndoRefactor[5] = DropColumns(New)
  /\ UndoRefactor[6] = Create("missions")
  /\ UndoRefactor[7] = Create("mission_assignments")
  /\ UndoRefactor[8] = Create("sensor_contact_events")
<1> DEFINE first == DropControlCenter
           then == <<AddColumns(Old), DropColumns(New), Create("missions"),
                     Create("mission_assignments"), Create("sensor_contact_events")>>
           Items == {first[1], first[2], first[3], then[1], then[2], then[3], then[4], then[5]}
<1>1. UndoRefactor = first \o then
  BY DEF UndoRefactor, Old, New
<1>2. first \in Seq(Items) /\ then \in Seq(Items)
  BY DEF DropControlCenter
<1>3. Len(first) = 3 /\ Len(then) = 5
  BY DEF DropControlCenter
<1> HIDE DEF first, then, Items
<1>4. /\ Listed(first \o then, Len(first) + Len(then))
      /\ \A i \in 1 .. Len(first) : (first \o then)[i] = first[i]
      /\ \A i \in 1 .. Len(then) : (first \o then)[Len(first) + i] = then[i]
  BY <1>2, JoinedLists
<1>5. /\ \A i \in 1 .. 3 : UndoRefactor[i] = first[i]
      /\ \A i \in 1 .. 5 : UndoRefactor[3 + i] = then[i]
  BY <1>1, <1>3, <1>4
<1>6. /\ UndoRefactor[1] = first[1] /\ UndoRefactor[2] = first[2]
      /\ UndoRefactor[3] = first[3] /\ UndoRefactor[4] = then[1]
      /\ UndoRefactor[5] = then[2] /\ UndoRefactor[6] = then[3]
      /\ UndoRefactor[7] = then[4] /\ UndoRefactor[8] = then[5]
  BY <1>5
<1> QED
  BY <1>1, <1>3, <1>4, <1>6 DEF DropControlCenter, first, then

LEMMA Down5 ==
  ASSUME NEW E \in Besides, NEW F \in SUBSET Growing
  PROVE  Downgraded(Holding(TablesAt(5), E, ColumnsAt(5), F), 5) =
           Holding(TablesAt(4), E, ColumnsAt(4), F)
<1> DEFINE s == Holding(TablesAt(5), E, ColumnsAt(5), F)
           g(i) == After(s, UndoRefactor, i)
           C == PasswordColumns \cup New
<1>1. /\ g(0) = s /\ g(8) = Run(s, UndoRefactor)
      /\ \A i \in 1 .. 8 : g(i) = Execute(g(i - 1), UndoRefactor[i])
  <2> HIDE DEF s
  <2> QED
    BY UndoRefactorIs, RunSteps
<1> HIDE DEF g
<1>2. /\ g(1) = Execute(g(0), Drop("intercept_tasks"))
      /\ g(2) = Execute(g(1), Drop("hostile_detections"))
      /\ g(3) = Execute(g(2), Drop("operator_stations"))
      /\ g(4) = Execute(g(3), AddColumns(Old))
      /\ g(5) = Execute(g(4), DropColumns(New))
      /\ g(6) = Execute(g(5), Create("missions"))
      /\ g(7) = Execute(g(6), Create("mission_assignments"))
      /\ g(8) = Execute(g(7), Create("sensor_contact_events"))
  BY <1>1, UndoRefactorIs
<1> USE DEF BaseTables, Engagement, Growing
<1>e. E \subseteq Engagement
  BY DEF Besides
<1>p. \A c \in C : c[1] \in Growing
  BY ColumnFacts
<1>t0. g(0) = Holding(BaseTables \cup ControlCenter, E, C, F)
  BY <1>1 DEF TablesAt, ColumnsAt
<1>t1. g(1) = Holding(BaseTables \cup {"operator_stations", "hostile_detections"}, E, C, F)
  <2> HIDE DEF C
  <2> QED
    BY <1>2, <1>t0, <1>e, <1>p, DropsPlain, Referrers DEF ControlCenter
<1>t2. g(2) = Holding(BaseTables \cup {"operator_stations"}, E, C, F)
  <2> HIDE DEF C
  <2> QED
    BY <1>2, <1>t1, <1>e, <1>p, DropsPlain, Referrers
<1>t3. g(3) = Holding(BaseTables, E, C, F)
  <2> HIDE DEF C
  <2> QED
    BY <1>2, <1>t2, <1>e, <1>p, DropsPlain, Referrers
<1>t4. g(4) = Holding(BaseTables, E, C \cup Old, F)
  BY <1>2, <1>t3, ColumnFacts, Disjoint, Adds
<1>t5. g(5) = Holding(BaseTables, E, Old \cup PasswordColumns, F)
  <2>1. (C \cup Old) \ New = Old \cup PasswordColumns /\ New \subseteq C \cup Old
    BY Disjoint
  <2> QED
    BY <1>2, <1>t4, <2>1, Removes
<1> DEFINE D == Old \cup PasswordColumns
<1> HIDE DEF D
<1>t6. g(6) = Holding(BaseTables \cup {"missions"}, E, D, F)
  BY <1>2, <1>t5, <1>e, Creates, Refs DEF D
<1>t7. g(7) = Holding(BaseTables \cup {"missions", "mission_assignments"}, E, D, F)
  BY <1>2, <1>t6, <1>e, Creates, Refs
<1>t8. g(8) = Holding(BaseTables \cup Dropped, E, D, F)
  BY <1>2, <1>t7, <1>e, Creates, Refs DEF Dropped
<1>3. /\ Down(5) = UndoRefactor
      /\ TablesAt(4) = BaseTables \cup Dropped /\ ColumnsAt(4) = D
  BY DEF Down, TablesAt, ColumnsAt, D
<1> QED
  BY <1>1, <1>3, <1>t8 DEF Downgraded

-----------------------------------------------------------------------------
(* What is refused stays refused.                                           *)

Refusing(T, C, F) == [tables |-> T, columns |-> C, filled |-> F, ok |-> FALSE]

LEMMA Refuses ==
  ASSUME NEW T, NEW E, NEW C, NEW F, NEW x, Needed(Holding(T, E, C, F), x) = x,
         ~Allowed(Holding(T, E, C, F), x)
  PROVE  Execute(Holding(T, E, C, F), x) = Refusing(T \cup E, C, F)
BY DEF Execute, Performed, Holding, Refusing

LEMMA StaysRefused ==
  ASSUME NEW T, NEW C, NEW F, NEW x
  PROVE  Execute(Refusing(T, C, F), x) = Refusing(T, C, F)
BY DEF Execute, Performed, Refusing

LEMMA RunIsRefused ==
  ASSUME NEW s, NEW list, NEW n, Listed(list, n), NEW k \in 0 .. n,
         NEW T, NEW C, NEW F, After(s, list, k) = Refusing(T, C, F)
  PROVE  ~Run(s, list).ok
<1>s. /\ After(s, list, 0) = s /\ After(s, list, n) = Run(s, list)
      /\ \A i \in 1 .. n : After(s, list, i) = Execute(After(s, list, i - 1), list[i])
  BY RunSteps
<1> DEFINE Here == {j \in Nat : k + j <= n => After(s, list, k + j) = Refusing(T, C, F)}
<1>n. n \in Nat
  BY DEF Listed
<1>1. 0 \in Here
  BY <1>n
<1>2. ASSUME NEW j \in Nat, j \in Here PROVE j + 1 \in Here
  <2> SUFFICES ASSUME k + (j + 1) <= n
               PROVE  After(s, list, k + (j + 1)) = Refusing(T, C, F)
    OBVIOUS
  <2>1. k + j <= n /\ k + (j + 1) \in 1 .. n /\ (k + (j + 1)) - 1 = k + j
    BY <1>n
  <2>2. After(s, list, k + j) = Refusing(T, C, F)
    BY <1>2, <2>1
  <2>3. After(s, list, k + (j + 1)) = Execute(After(s, list, k + j), list[k + (j + 1)])
    BY <2>1, <1>s
  <2> QED
    BY <2>2, <2>3, StaysRefused
<1>3. \A j \in Nat : j \in Here
  <2> HIDE DEF Here
  <2> QED
    BY <1>1, <1>2, Counting
<1>4. n - k \in Nat /\ k + (n - k) = n
  BY <1>n
<1>5. After(s, list, n) = Refusing(T, C, F)
  BY <1>3, <1>4, <1>n
<1> QED
  BY <1>5, <1>s DEF Refusing

(* A database as the earlier form of revision 5 has left it steps back only *)
(* if it has what revision 5 makes.                                         *)
LEMMA Down5Earlier ==
  ASSUME NEW new \in NewParts, NEW old \in OldParts, NEW E \in Besides, NEW C \in Mixed,
         NEW F \in SUBSET Growing, Downgraded(AlteredTo(new, old, E, C, F), 5).ok
  PROVE  new = ControlCenter /\ old = {} /\ C = New
<1> DEFINE s == AlteredTo(new, old, E, C, F)
           g(i) == After(s, UndoRefactor, i)
<1>1. /\ g(0) = s /\ g(8) = Run(s, UndoRefactor)
      /\ \A i \in 1 .. 8 : g(i) = Execute(g(i - 1), UndoRefactor[i])
  <2> HIDE DEF s
  <2> QED
    BY UndoRefactorIs, RunSteps
<1>2. /\ g(1) = Execute(g(0), Drop("intercept_tasks"))
      /\ g(2) = Execute(g(1), Drop("hostile_detections"))
      /\ g(3) = Execute(g(2), Drop("operator_stations"))
      /\ g(4) = Execute(g(3), AddColumns(Old))
      /\ g(5) = Execute(g(4), DropColumns(New))
      /\ g(6) = Execute(g(5), Create("missions"))
      /\ g(7) = Execute(g(6), Create("mission_assignments"))
      /\ g(8) = Execute(g(7), Create("sensor_contact_events"))
  <2> HIDE DEF g
  <2> QED
    BY <1>1, UndoRefactorIs
<1>r. ASSUME NEW k \in 0 .. 8, NEW T, NEW X, NEW Y, g(k) = Refusing(T, X, Y) PROVE FALSE
  <2>1. Run(s, UndoRefactor).ok
    BY DEF Downgraded, Down
  <2> HIDE DEF s
  <2> QED
    BY <1>r, <2>1, UndoRefactorIs, RunIsRefused
<1> HIDE DEF g
<1> USE DEF BaseTables, Engagement, Growing
<1>e. E \subseteq Engagement /\ new \subseteq ControlCenter /\ old \subseteq Dropped
  BY DEF Besides, NewParts, OldParts
<1> DEFINE D == PasswordColumns \cup C
<1>c. C \subseteq Old \cup New
  BY MixedFacts
<1>p. \A c \in D : c[1] \in Growing
  BY <1>c, ColumnFacts
<1>t0. g(0) = Holding((BaseTables \cup new) \cup old, E, D, F)
  BY <1>1 DEF AlteredTo
<1>3. new = ControlCenter
  <2>1. "intercept_tasks" \in new
    <3> SUFFICES ASSUME "intercept_tasks" \notin new PROVE FALSE
      OBVIOUS
    <3>1. "intercept_tasks" \notin ((BaseTables \cup new) \cup old) \cup E
      BY <1>e DEF Dropped
    <3> HIDE DEF D
    <3>2. ~Allowed(g(0), Drop("intercept_tasks"))
      BY <1>t0, <3>1 DEF Allowed, Drop, Statement, Holding
    <3>3. Needed(g(0), Drop("intercept_tasks")) = Drop("intercept_tasks")
      BY DEF Needed, Drop, Statement
    <3>4. g(1) = Refusing(((BaseTables \cup new) \cup old) \cup E, D, F)
      BY <1>t0, <1>2, <3>2, <3>3, Refuses
    <3> QED
      BY <1>r, <3>4
  <2>2. References("intercept_tasks") \cap ControlCenter \subseteq new
    BY <2>1 DEF NewParts
  <2>3. "hostile_detections" \in new /\ "operator_stations" \in new
    BY <2>2, Refs DEF ControlCenter
  <2> QED
    BY <1>e, <2>1, <2>3 DEF ControlCenter
<1>t1. g(1) = Holding((BaseTables \cup {"operator_stations", "hostile_detections"}) \cup old,
                      E, D, F)
  <2>1. (BaseTables \cup {"operator_stations", "hostile_detections"}) \cup old =
          ((BaseTables \cup new) \cup old) \ {"intercept_tasks"}
    BY <1>3, <1>e DEF ControlCenter, Dropped
  <2>2. "intercept_tasks" \in (BaseTables \cup new) \cup old
    BY <1>3 DEF ControlCenter
  <2> HIDE DEF D
  <2> QED
    BY <1>2, <1>t0, <1>e, <1>p, <2>1, <2>2, DropsPlain, Referrers
<1>t2. g(2) = Holding((BaseTables \cup {"operator_stations"}) \cup old, E, D, F)
  <2> HIDE DEF D
  <2> QED
    BY <1>2, <1>t1, <1>e, <1>p, DropsPlain, Referrers DEF Dropped
<1>t3. g(3) = Holding(BaseTables \cup old, E, D, F)
  <2> HIDE DEF D
  <2> QED
    BY <1>2, <1>t2, <1>e, <1>p, DropsPlain, Referrers DEF Dropped
<1>4. C \subseteq New
  <2> SUFFICES ASSUME NEW c \in Old, c \in C PROVE FALSE
    BY <1>c
  <2> HIDE DEF D
  <2>1. ~Allowed(g(3), AddColumns(Old))
    BY <1>t3 DEF Allowed, AddColumns, Statement, Holding, D
  <2>2. Needed(g(3), AddColumns(Old)) = AddColumns(Old)
    BY DEF Needed, AddColumns, Statement
  <2>3. g(4) = Refusing((BaseTables \cup old) \cup E, D, F)
    BY <1>t3, <1>2, <2>1, <2>2, Refuses
  <2> QED
    BY <1>r, <2>3
<1>t4. g(4) = Holding(BaseTables \cup old, E, D \cup Old, F)
  <2>1. \A c \in Old : c[1] \in BaseTables \cup old /\ c \notin D
    BY <1>4, ColumnFacts, Disjoint
  <2> HIDE DEF D
  <2> QED
    BY <1>2, <1>t3, <2>1, Adds
<1>5. New \subseteq D \cup Old
  <2> SUFFICES ASSUME ~(New \subseteq D \cup Old) PROVE FALSE
    OBVIOUS
  <2> HIDE DEF D
  <2>1. ~Allowed(g(4), DropColumns(New))
    BY <1>t4 DEF Allowed, DropColumns, Statement, Holding
  <2>2. Needed(g(4), DropColumns(New)) = DropColumns(New)
    BY DEF Needed, DropColumns, Statement
  <2>3. g(5) = Refusing((BaseTables \cup old) \cup E, D \cup Old, F)
    BY <1>t4, <1>2, <2>1, <2>2, Refuses
  <2> QED
    BY <1>r, <2>3
<1>6. C = New
  BY <1>c, <1>4, <1>5, Disjoint
<1> DEFINE X == (D \cup Old) \ New
<1>t5. g(5) = Holding(BaseTables \cup old, E, X, F)
  <2> HIDE DEF D
  <2> QED
    BY <1>2, <1>t4, <1>5, Removes
<1> HIDE DEF X, D
<1>7. "missions" \notin old
  <2> SUFFICES ASSUME "missions" \in old PROVE FALSE
    OBVIOUS
  <2>1. ~Allowed(g(5), Create("missions"))
    BY <1>t5 DEF Allowed, Create, Statement, Holding
  <2>2. Needed(g(5), Create("missions")) = Create("missions")
    BY DEF Needed, Create, Statement
  <2>3. g(6) = Refusing((BaseTables \cup old) \cup E, X, F)
    BY <1>t5, <1>2, <2>1, <2>2, Refuses
  <2> QED
    BY <1>r, <2>3
<1>t6. g(6) = Holding((BaseTables \cup old) \cup {"missions"}, E, X, F)
  BY <1>2, <1>t5, <1>7, <1>e, Creates, Refs
<1>t7. g(7) = Holding(((BaseTables \cup old) \cup {"missions"}) \cup {"mission_assignments"},
                      E, X, F)
  BY <1>2, <1>t6, <1>7, <1>e, Creates, Refs DEF OldParts
<1>8. "sensor_contact_events" \notin old
  <2> SUFFICES ASSUME "sensor_contact_events" \in old PROVE FALSE
    OBVIOUS
  <2> DEFINE T == ((BaseTables \cup old) \cup {"missions"}) \cup {"mission_assignments"}
  <2>1. ~Allowed(g(7), Create("sensor_contact_events"))
    BY <1>t7 DEF Allowed, Create, Statement, Holding
  <2>2. Needed(g(7), Create("sensor_contact_events")) = Create("sensor_contact_events")
    BY DEF Needed, Create, Statement
  <2>3. g(8) = Refusing(T \cup E, X, F)
    BY <1>t7, <1>2, <2>1, <2>2, Refuses
  <2> QED
    BY <1>r, <2>3
<1>9. old = {}
  BY <1>7, <1>8 DEF Dropped, OldParts
<1> QED
  BY <1>3, <1>6, <1>9

-----------------------------------------------------------------------------
(* The invariant                                                            *)

LEMMA TablesGrow ==
  /\ \A r \in 2 .. 7 : Growing \subseteq TablesAt(r)
  /\ Growing \subseteq TablesAt(1) /\ Growing \cap TablesAt(0) = {}
BY DEF Growing, TablesAt, BaseTables, ModelTables

LEMMA FiveIsAltered ==
  ASSUME NEW E \in Besides, NEW s \in SchemaAt(5, E)
  PROVE  Altered(s, E)
<1>1. PICK F \in SUBSET Growing : s = Holding(TablesAt(5), E, ColumnsAt(5), F)
  BY DEF SchemaAt
<1>2. /\ TablesAt(5) = (BaseTables \cup ControlCenter) \cup {}
      /\ ColumnsAt(5) = PasswordColumns \cup New
  BY DEF TablesAt, ColumnsAt
<1> QED
  BY <1>1, <1>2, MixedFacts DEF Altered, AlteredTo

LEMMA UpFromFive ==
  ASSUME NEW E \in Besides, NEW s, Altered(s, E)
  PROVE  RunRevision(s, 6) \in SchemaAt(6, E)
<1>1. PICK new \in NewParts, old \in OldParts, C \in Mixed, F \in SUBSET Growing :
        s = AlteredTo(new, old, E, C, F)
  BY DEF Altered
<1>2. RunRevision(s, 6) = Holding(TablesAt(6), {}, ColumnsAt(6), F)
  BY <1>1, Up6
<1> QED
  BY <1>1, <1>2, TablesGrow DEF SchemaAt

LEMMA RevisionSteps ==
  ASSUME NEW E \in Besides, NEW r \in 1 .. 7, NEW q, q = r - 1, NEW s, ShapeAt(s, q, E)
  PROVE  RunRevision(s, r) \in SchemaAt(r, E)
<1>1. CASE r = 6
  BY <1>1, FiveIsAltered, UpFromFive DEF ShapeAt
<1>2. CASE r # 6
  <2>1. s \in SchemaAt(r - 1, E)
    BY <1>2 DEF ShapeAt
  <2>2. PICK F \in SUBSET (Growing \cap TablesAt(r - 1)) :
          s = Holding(TablesAt(r - 1), IF r - 1 <= 5 THEN E ELSE {}, ColumnsAt(r - 1), F)
    BY <2>1 DEF SchemaAt
  <2>3. F \in SUBSET Growing
    OBVIOUS
  <2>4. CASE r = 1
    <3>1. F = {} /\ TablesAt(0) = {} /\ ColumnsAt(0) = {}
      BY <2>4, TablesGrow DEF TablesAt, ColumnsAt
    <3>2. s = Holding({}, E, {}, {})
      BY <2>2, <2>4, <3>1
    <3>3. RunRevision(s, 1) = Holding(TablesAt(1), E, ColumnsAt(1), {})
      BY <3>2, Up1
    <3> QED
      BY <2>4, <3>3 DEF SchemaAt
  <2>5. CASE r = 2
    <3>1. s = Holding(TablesAt(1), E, ColumnsAt(1), F)
      BY <2>2, <2>5
    <3> QED
      BY <2>5, <2>3, <3>1, Up2, TablesGrow DEF SchemaAt
  <2>6. CASE r = 3
    <3>1. s = Holding(TablesAt(2), E, ColumnsAt(2), F)
      BY <2>2, <2>6
    <3> QED
      BY <2>6, <2>3, <3>1, Up3, TablesGrow DEF SchemaAt
  <2>7. CASE r = 4
    <3>1. s = Holding(TablesAt(3), E, ColumnsAt(3), F)
      BY <2>2, <2>7
    <3> QED
      BY <2>7, <2>3, <3>1, Up4, TablesGrow DEF SchemaAt
  <2>8. CASE r = 5
    <3>1. s = Holding(TablesAt(4), E, ColumnsAt(4), F)
      BY <2>2, <2>8
    <3> QED
      BY <2>8, <2>3, <3>1, Up5, TablesGrow DEF SchemaAt
  <2>9. CASE r = 7
    <3>1. s = Holding(TablesAt(6), {}, ColumnsAt(6), F)
      BY <2>2, <2>9
    <3> QED
      BY <2>9, <2>3, <3>1, Up7, TablesGrow DEF SchemaAt
  <2> QED
    BY <1>2, <2>4, <2>5, <2>6, <2>7, <2>8, <2>9
<1> QED
  BY <1>1, <1>2

LEMMA UpgradeShape ==
  ASSUME NEW E \in Besides, NEW from \in 0 .. 7, NEW to \in 0 .. 7, from <= to,
         NEW s, ShapeAt(s, from, E)
  PROVE  /\ ShapeAt(Upgraded(s, from, to), to, E)
         /\ from < to => Upgraded(s, from, to) \in SchemaAt(to, E)
<1> DEFINE n == to - from
           g(i) == Midway(s, from, to, i)
           There == {i \in Nat : i <= n => /\ ShapeAt(g(i), from + i, E)
                                           /\ i > 0 => g(i) \in SchemaAt(from + i, E)}
<1>1. /\ g(0) = s /\ g(n) = Upgraded(s, from, to) /\ n \in Nat
      /\ \A i \in 1 .. n : g(i) = RunRevision(g(i - 1), from + i)
  BY SMTT(30), from \in Nat, to \in Nat, UpgradeSteps
<1> HIDE DEF g
<1>2. 0 \in There
  BY <1>1
<1>3. ASSUME NEW i \in Nat, i \in There PROVE i + 1 \in There
  <2> SUFFICES ASSUME i + 1 <= n
               PROVE  /\ ShapeAt(g(i + 1), from + (i + 1), E)
                      /\ g(i + 1) \in SchemaAt(from + (i + 1), E)
    OBVIOUS
  <2>1. ShapeAt(g(i), from + i, E)
    BY <1>1, <1>3
  <2>2. /\ i + 1 \in 1 .. n /\ (i + 1) - 1 = i
        /\ from + (i + 1) \in 1 .. 7 /\ (from + (i + 1)) - 1 = from + i
    BY <1>1
  <2>3. g(i + 1) = RunRevision(g(i), from + (i + 1))
    BY <1>1, <2>2
  <2> DEFINE r == from + (i + 1)
             q == from + i
  <2>4. r \in 1 .. 7 /\ q = r - 1 /\ ShapeAt(g(i), q, E)
    BY <2>1, <2>2
  <2>5. RunRevision(g(i), r) \in SchemaAt(r, E)
    <3> HIDE DEF r, q
    <3> QED
      BY <2>4, RevisionSteps
  <2>6. ShapeAt(g(i + 1), r, E)
    BY <2>3, <2>5 DEF ShapeAt
  <2> QED
    BY <2>3, <2>5, <2>6
<1>4. \A i \in Nat : i \in There
  <2> HIDE DEF There
  <2> QED
    BY <1>2, <1>3, Counting
<1>5. n \in There /\ from + n = to /\ (from < to => n > 0)
  BY <1>1, <1>4
<1> QED
  BY <1>1, <1>5

LEMMA StepBack ==
  ASSUME NEW E \in Besides, NEW r \in 1 .. 7, NEW s \in SchemaAt(r, E)
  PROVE  \E D \in Besides : Downgraded(s, r) \in SchemaAt(r - 1, D)
<1>1. PICK F \in SUBSET (Growing \cap TablesAt(r)) :
        s = Holding(TablesAt(r), IF r <= 5 THEN E ELSE {}, ColumnsAt(r), F)
  BY DEF SchemaAt
<1>2. F \in SUBSET Growing /\ {} \in Besides
  BY DEF Besides
<1>3. CASE r = 1
  <2>1. s = Holding(TablesAt(1), E, ColumnsAt(1), F)
    BY <1>1, <1>3
  <2>2. Downgraded(s, 1) = Holding({}, E, {}, {}) /\ TablesAt(0) = {} /\ ColumnsAt(0) = {}
    BY <1>3, <2>1, Down1 DEF TablesAt, ColumnsAt
  <2> QED
    BY <1>3, <2>2 DEF SchemaAt
<1>4. CASE r = 2
  <2>1. s = Holding(TablesAt(2), E, ColumnsAt(2), F)
    BY <1>1, <1>4
  <2> QED
    BY <1>2, <1>4, <2>1, Down2, TablesGrow DEF SchemaAt
<1>5. CASE r = 3
  <2>1. s = Holding(TablesAt(3), E, ColumnsAt(3), F)
    BY <1>1, <1>5
  <2> QED
    BY <1>2, <1>5, <2>1, Down3, TablesGrow DEF SchemaAt
<1>6. CASE r = 4
  <2>1. s = Holding(TablesAt(4), E, ColumnsAt(4), F)
    BY <1>1, <1>6
  <2> QED
    BY <1>2, <1>6, <2>1, Down4, TablesGrow DEF SchemaAt
<1>7. CASE r = 5
  <2>1. s = Holding(TablesAt(5), E, ColumnsAt(5), F)
    BY <1>1, <1>7
  <2> QED
    BY <1>2, <1>7, <2>1, Down5, TablesGrow DEF SchemaAt
<1>8. CASE r = 6
  <2>1. /\ s = Holding(TablesAt(6), {}, ColumnsAt(6), F)
        /\ TablesAt(5) = TablesAt(6) /\ ColumnsAt(5) = ColumnsAt(6)
    BY <1>1, <1>8 DEF TablesAt, ColumnsAt
  <2>2. Downgraded(s, 6) = Holding(TablesAt(5), {}, ColumnsAt(5), F)
    BY <2>1, Down6
  <2>3. Downgraded(s, 6) \in SchemaAt(5, {})
    BY <1>2, <2>2, TablesGrow DEF SchemaAt
  <2> QED
    BY <1>2, <1>8, <2>3
<1>9. CASE r = 7
  <2>1. s = Holding(TablesAt(7), {}, ColumnsAt(7), F)
    BY <1>1, <1>9
  <2> QED
    BY <1>2, <1>9, <2>1, Down7, TablesGrow DEF SchemaAt
<1> QED
  BY <1>3, <1>4, <1>5, <1>6, <1>7, <1>8, <1>9

(* A step back that is refused nothing starts from what the revisions make. *)
LEMMA StepBackFrom ==
  ASSUME NEW E \in Besides, NEW r \in 1 .. 7, NEW s, ShapeAt(s, r, E), Downgraded(s, r).ok
  PROVE  s \in SchemaAt(r, E)
<1> SUFFICES ASSUME r = 5, Altered(s, E) PROVE s \in SchemaAt(5, E)
  BY DEF ShapeAt
<1>1. PICK new \in NewParts, old \in OldParts, C \in Mixed, F \in SUBSET Growing :
        s = AlteredTo(new, old, E, C, F)
  BY DEF Altered
<1>2. new = ControlCenter /\ old = {} /\ C = New
  BY <1>1, Down5Earlier
<1>3. /\ TablesAt(5) = (BaseTables \cup ControlCenter) \cup {}
      /\ ColumnsAt(5) = PasswordColumns \cup New
  BY DEF TablesAt, ColumnsAt
<1>4. AlteredTo(ControlCenter, {}, E, New, F) = Holding(TablesAt(5), E, ColumnsAt(5), F)
  BY <1>3 DEF AlteredTo
<1>5. s = Holding(TablesAt(5), E, ColumnsAt(5), F)
  BY <1>1, <1>2, <1>4
<1> QED
  BY <1>5, TablesGrow DEF SchemaAt

LEMMA SchemaInitInv == SchemaInit => SchemaInv
<1> SUFFICES ASSUME SchemaInit PROVE SchemaInv
  OBVIOUS
<1>1. CASE rev = 0 /\ schema = Empty
  <2>1. {} \in Besides /\ TablesAt(0) = {} /\ ColumnsAt(0) = {}
    BY DEF Besides, TablesAt, ColumnsAt
  <2>2. schema = Holding(TablesAt(0), {}, ColumnsAt(0), {})
    BY <1>1, <2>1 DEF Empty, Holding
  <2>3. schema \in SchemaAt(0, {})
    BY <2>2 DEF SchemaAt
  <2>4. ShapeAt(schema, 0, {})
    BY <2>3 DEF ShapeAt
  <2> QED
    BY <1>1, <2>1, <2>4 DEF SchemaInv, LastRevision
<1>2. CASE rev = 5 /\ schema \in Earlier
  <2>1. PICK new \in NewParts, old \in OldParts, E \in {{}, Engagement},
             adapted \in SUBSET DOMAIN RoleColumns :
          schema = EarlierSchema(new, old, E, adapted)
    BY <1>2 DEF Earlier
  <2>2. MixedColumns(adapted) \in Mixed /\ E \in Besides
    BY <2>1 DEF Mixed, Besides
  <2>3. schema = AlteredTo(new, old, E, MixedColumns(adapted), {})
    BY <2>1 DEF EarlierSchema, AlteredTo, Holding
  <2>4. Altered(schema, E)
    BY <2>1, <2>2, <2>3 DEF Altered
  <2> QED
    BY <1>2, <2>2, <2>4 DEF SchemaInv, ShapeAt, LastRevision
<1> QED
  BY <1>1, <1>2 DEF SchemaInit

(* The first row of a table.                                                *)
LEMMA HoldingIs ==
  ASSUME NEW T, NEW E, NEW C, NEW F,
         NEW x \in [tables : {T \cup E}, columns : {C}, filled : {F}, ok : {TRUE}]
  PROVE  x = Holding(T, E, C, F)
<1>1. ASSUME NEW A, NEW B, NEW D, NEW O,
             NEW y \in [tables : {A}, columns : {B}, filled : {D}, ok : {O}]
      PROVE  y = [tables |-> A, columns |-> B, filled |-> D, ok |-> O]
  OBVIOUS
<1>2. x = [tables |-> T \cup E, columns |-> C, filled |-> F, ok |-> TRUE]
  BY <1>1
<1> QED
  BY <1>2 DEF Holding

LEMMA InsertShape ==
  ASSUME NEW r \in 0 .. 7, NEW E \in Besides, NEW s, ShapeAt(s, r, E),
         NEW t \in Growing \cap s.tables
  PROVE  ShapeAt([s EXCEPT !.filled = @ \cup {t}], r, E)
<1>e. \A D \in Besides : Growing \cap D = {}
  BY DEF Besides, Growing, Engagement
<1>1. CASE s \in SchemaAt(r, E)
  <2> DEFINE D == IF r <= 5 THEN E ELSE {}
  <2>1. PICK F \in SUBSET (Growing \cap TablesAt(r)) :
          s = Holding(TablesAt(r), D, ColumnsAt(r), F)
    BY <1>1 DEF SchemaAt
  <2>2. t \in TablesAt(r)
    BY <1>e, <2>1 DEF Holding
  <2>f. s.filled = F
    BY <2>1 DEF Holding
  <2>3. [s EXCEPT !.filled = s.filled \cup {t}] =
          Holding(TablesAt(r), D, ColumnsAt(r), s.filled \cup {t})
    <3> DEFINE G == s.filled \cup {t}
               T == TablesAt(r)
               C == ColumnsAt(r)
    <3>1. s = Holding(T, D, C, F)
      BY <2>1
    <3> HIDE DEF G, D, T, C
    <3>2. [s EXCEPT !.filled = G] \in
            [tables : {T \cup D}, columns : {C}, filled : {G}, ok : {TRUE}]
      BY <3>1 DEF Holding
    <3>3. [s EXCEPT !.filled = G] = Holding(T, D, C, G)
      BY <3>2, HoldingIs
    <3> QED
      BY <3>3 DEF G, T, C
  <2>4. F \cup {t} \in SUBSET (Growing \cap TablesAt(r))
    BY <2>2
  <2> QED
    BY <2>f, <2>3, <2>4 DEF SchemaAt, ShapeAt
<1>2. CASE r = 5 /\ Altered(s, E)
  <2>1. PICK new \in NewParts, old \in OldParts, C \in Mixed, F \in SUBSET Growing :
          s = AlteredTo(new, old, E, C, F)
    BY <1>2 DEF Altered
  <2>f. s.filled = F
    BY <2>1 DEF Holding, AlteredTo
  <2>2. [s EXCEPT !.filled = s.filled \cup {t}] =
          AlteredTo(new, old, E, C, F \cup {t})
    <3> DEFINE G == F \cup {t}
    <3>1. [s EXCEPT !.filled = s.filled \cup {t}] = [s EXCEPT !.filled = G]
      BY <2>f
    <3> HIDE DEF G
    <3> DEFINE T == (BaseTables \cup new) \cup old
               K == PasswordColumns \cup C
    <3>2. s = Holding(T, E, K, F)
      BY <2>1 DEF AlteredTo
    <3> HIDE DEF T, K
    <3>3. [s EXCEPT !.filled = G] \in
            [tables : {T \cup E}, columns : {K}, filled : {G}, ok : {TRUE}]
      BY <3>2 DEF Holding
    <3>4. [s EXCEPT !.filled = G] = Holding(T, E, K, G)
      BY <3>3, HoldingIs
    <3> QED
      BY <3>1, <3>4 DEF AlteredTo, G, T, K
  <2>3. F \cup {t} \in SUBSET Growing
    OBVIOUS
  <2> QED
    BY <1>2, <2>2, <2>3 DEF Altered, ShapeAt
<1> QED
  BY <1>1, <1>2 DEF ShapeAt

LEMMA SchemaStepInv == SchemaInv /\ [SchemaNext]_schemaVars => SchemaInv'
<1> SUFFICES ASSUME SchemaInv, [SchemaNext]_schemaVars PROVE SchemaInv'
  OBVIOUS
<1> USE DEF LastRevision
<1>0. PICK E \in Besides : ShapeAt(schema, rev, E)
  BY DEF SchemaInv
<1>1. CASE Insert
  <2>1. PICK t \in (Growing \cap schema.tables) \ schema.filled :
          schema' = [schema EXCEPT !.filled = @ \cup {t}]
    BY <1>1 DEF Insert
  <2>2. ShapeAt(schema', rev, E)
    BY <1>0, <2>1, InsertShape DEF SchemaInv
  <2> QED
    BY <1>1, <2>2 DEF SchemaInv, Insert
<1>2. ASSUME NEW r \in 1 .. LastRevision, Upgrade(r) PROVE SchemaInv'
  <2>1. schema' = Upgraded(schema, rev, r) /\ rev' = r /\ rev <= r /\ rev \in 0 .. 7
    BY <1>2 DEF Upgrade, SchemaInv
  <2>2. ShapeAt(schema', r, E)
    BY <1>0, <2>1, UpgradeShape
  <2> QED
    BY <2>1, <2>2 DEF SchemaInv
<1>3. CASE Downgrade
  <2>1. /\ schema' = Downgraded(schema, rev) /\ rev' = rev - 1 /\ rev \in 1 .. 7
        /\ Downgraded(schema, rev).ok
    BY <1>3 DEF Downgrade, SchemaInv
  <2>2. schema \in SchemaAt(rev, E)
    BY <1>0, <2>1, StepBackFrom
  <2>3. \E D \in Besides : schema' \in SchemaAt(rev - 1, D)
    BY <2>1, <2>2, StepBack
  <2>4. PICK D \in Besides : schema' \in SchemaAt(rev', D)
    BY <2>1, <2>3
  <2>5. ShapeAt(schema', rev', D)
    BY <2>4 DEF ShapeAt
  <2>6. rev' \in 0 .. 7
    BY <2>1
  <2> QED
    BY <2>5, <2>6 DEF SchemaInv
<1>4. CASE UNCHANGED schemaVars
  BY <1>4 DEF schemaVars, SchemaInv
<1> QED
  BY <1>1, <1>2, <1>3, <1>4 DEF SchemaNext

LEMMA ShapesAreTyped ==
  ASSUME NEW r \in 0 .. 7, NEW E \in Besides, NEW s, ShapeAt(s, r, E)
  PROVE  /\ s.ok /\ \A c \in s.columns : c[1] \in s.tables
         /\ s.filled \subseteq Growing \cap s.tables
<1>1. CASE s \in SchemaAt(r, E)
  <2> DEFINE D == IF r <= 5 THEN E ELSE {}
  <2>1. PICK F \in SUBSET (Growing \cap TablesAt(r)) :
          s = Holding(TablesAt(r), D, ColumnsAt(r), F)
    BY <1>1 DEF SchemaAt
  <2>2. \A c \in ColumnsAt(r) : r # 0 /\ c[1] \in Growing
    BY ColumnFacts DEF ColumnsAt, Growing
  <2>3. \A c \in ColumnsAt(r) : c[1] \in TablesAt(r)
    BY <2>2, TablesGrow
  <2> QED
    BY <2>1, <2>3 DEF Holding
<1>2. CASE r = 5 /\ Altered(s, E)
  <2>1. PICK new \in NewParts, old \in OldParts, C \in Mixed, F \in SUBSET Growing :
          s = AlteredTo(new, old, E, C, F)
    BY <1>2 DEF Altered
  <2>2. C \subseteq Old \cup New
    BY MixedFacts
  <2>3. \A c \in PasswordColumns \cup C : c[1] \in Growing
    BY <2>2, ColumnFacts DEF Growing
  <2>4. Growing \subseteq BaseTables
    BY DEF Growing, BaseTables
  <2>5. \A c \in PasswordColumns \cup C : c[1] \in BaseTables
    BY <2>3, <2>4
  <2>6. F \subseteq Growing \cap BaseTables
    BY <2>4
  <2> QED
    BY <2>1, <2>5, <2>6 DEF AlteredTo, Holding
<1> QED
  BY <1>1, <1>2 DEF ShapeAt

(* The schema of a revision, from an empty database.                        *)
LEMMA FreshSchema ==
  ASSUME NEW r \in 0 .. 7
  PROVE  /\ SchemaOf[r].ok /\ SchemaOf[r].tables = TablesAt(r)
         /\ SchemaOf[r].columns = ColumnsAt(r)
<1>1. {} \in Besides /\ TablesAt(0) = {} /\ ColumnsAt(0) = {}
  BY DEF Besides, TablesAt, ColumnsAt
<1>2. Empty = Holding(TablesAt(0), {}, ColumnsAt(0), {})
  BY <1>1 DEF Empty, Holding
<1>3. Empty \in SchemaAt(0, {})
  BY <1>2 DEF SchemaAt
<1>4. SchemaOf[r] = Upgraded(Empty, 0, r)
  BY DEF SchemaOf, LastRevision
<1>5. SchemaOf[r] \in SchemaAt(r, {})
  <2>1. CASE r = 0
    <3>1. Upgraded(Empty, 0, 0) = Empty
      BY UpgradeSteps
    <3> QED
      BY <1>3, <1>4, <2>1, <3>1
  <2>2. CASE r > 0
    <3>1. ShapeAt(Empty, 0, {}) /\ 0 \in 0 .. 7 /\ 0 <= r
      BY <1>3 DEF ShapeAt
    <3>2. Upgraded(Empty, 0, r) \in SchemaAt(r, {})
      BY <1>1, <2>2, <3>1, UpgradeShape
    <3> QED
      BY <1>4, <3>2
  <2> QED
    BY <2>1, <2>2
<1>6. PICK F : SchemaOf[r] = Holding(TablesAt(r), {}, ColumnsAt(r), F)
  BY <1>5 DEF SchemaAt
<1> QED
  BY <1>6 DEF Holding

LEMMA ShapesReachModels == SchemaInv => UpgradeReachesModels
<1> SUFFICES ASSUME SchemaInv PROVE UpgradeReachesModels
  OBVIOUS
<1> USE DEF LastRevision
<1>0. PICK E \in Besides : ShapeAt(schema, rev, E)
  BY DEF SchemaInv
<1>r. rev \in 0 .. 7
  BY DEF SchemaInv
<1> DEFINE last == IF schema = Empty THEN SchemaOf[7] ELSE Upgraded(schema, rev, 7)
           same == /\ schema.tables \ Engagement = SchemaOf[rev].tables
                   /\ schema.columns = SchemaOf[rev].columns
<1>m. TablesAt(7) = ModelTables /\ ColumnsAt(7) = ModelColumns
  BY DEF TablesAt, ColumnsAt, ModelColumns, New
<1>1. last.ok /\ last.tables = ModelTables /\ last.columns = ModelColumns
  <2>1. CASE schema = Empty
    BY <2>1, <1>m, FreshSchema
  <2>2. CASE schema # Empty
    <3>1. last \in SchemaAt(7, E)
      BY <2>2, <1>0, <1>r, UpgradeShape DEF ShapeAt
    <3>2. PICK F : last = Holding(TablesAt(7), {}, ColumnsAt(7), F)
      BY <3>1 DEF SchemaAt
    <3> HIDE DEF last
    <3> QED
      BY <1>m, <3>2 DEF Holding
  <2> QED
    BY <2>1, <2>2
<1>2. same <=> /\ schema.tables \ Engagement = TablesAt(rev)
               /\ schema.columns = ColumnsAt(rev)
  BY <1>r, FreshSchema
<1>e. \A r \in 0 .. 7 : TablesAt(r) \cap Engagement = {}
  BY DEF TablesAt, Engagement, BaseTables, ControlCenter, Dropped, ModelTables
<1>3. ASSUME schema \in SchemaAt(rev, E) PROVE same
  <2>1. PICK D \in Besides, F \in SUBSET Growing : schema = Holding(TablesAt(rev), D, ColumnsAt(rev), F)
    BY <1>3 DEF SchemaAt, Besides
  <2>2. D \subseteq Engagement
    BY DEF Besides
  <2> QED
    BY <1>2, <1>e, <1>r, <2>1, <2>2 DEF Holding
<1>4. rev = 5 \/ same
  BY <1>0, <1>3 DEF ShapeAt
<1>5. ASSUME same PROVE schema \in SchemaAt(rev, E)
  <2>1. CASE schema \in SchemaAt(rev, E)
    BY <2>1
  <2>2. CASE rev = 5 /\ Altered(schema, E)
    <3>1. PICK new \in NewParts, old \in OldParts, C \in Mixed, F \in SUBSET Growing :
            schema = AlteredTo(new, old, E, C, F)
      BY <2>2 DEF Altered
    <3>2. /\ ((BaseTables \cup new) \cup old) \cap Engagement = {}
          /\ E \subseteq Engagement
      BY DEF NewParts, OldParts, Besides, BaseTables, ControlCenter, Dropped, Engagement
    <3>3. (BaseTables \cup new) \cup old = TablesAt(5) /\ PasswordColumns \cup C = ColumnsAt(5)
      <4>1. schema.tables \ Engagement = TablesAt(5) /\ schema.columns = ColumnsAt(5)
        BY <1>2, <1>5, <2>2
      <4>2. schema.tables = ((BaseTables \cup new) \cup old) \cup E /\ schema.columns = PasswordColumns \cup C
        BY <3>1 DEF AlteredTo, Holding
      <4> QED
        BY <3>2, <4>1, <4>2
    <3>4. schema = Holding(TablesAt(5), E, ColumnsAt(5), F)
      BY <3>1, <3>3 DEF AlteredTo
    <3> QED
      BY <2>2, <3>4, TablesGrow DEF SchemaAt
  <2> QED
    BY <1>0, <2>1, <2>2 DEF ShapeAt
<1>6. ASSUME same, rev > 0 PROVE Downgraded(schema, rev).ok
  <2>1. rev \in 1 .. 7 /\ schema \in SchemaAt(rev, E)
    BY <1>5, <1>6, <1>r
  <2>2. PICK D \in Besides : Downgraded(schema, rev) \in SchemaAt(rev - 1, D)
    BY <2>1, StepBack
  <2> QED
    BY <2>2 DEF SchemaAt, Holding
<1> QED
  BY <1>1, <1>4, <1>6 DEF UpgradeReachesModels

LEMMA SchemaInductive == SchemaSpec => []SchemaInv
BY SchemaInitInv, SchemaStepInv, PTL DEF SchemaSpec

THEOREM SchemaTyping == SchemaSpec => []SchemaTypeOK
<1>1. SchemaInv => SchemaTypeOK
  BY ShapesAreTyped DEF SchemaInv, SchemaTypeOK, LastRevision
<1> QED
  BY <1>1, SchemaInductive, PTL

THEOREM UpgradesMeetModels == SchemaSpec => []UpgradeReachesModels
BY ShapesReachModels, SchemaInductive, PTL

-----------------------------------------------------------------------------
(* All parts *)

(* What one part keeps the steps of the others keep as well: they leave its *)
(* variables alone.                                                         *)
PartsInv == LoginInv /\ AirInv /\ LayerInv /\ FlightInv /\ SchemaInv /\ EdgeInv

LEMMA PartsStepInv == PartsInv /\ [PartsNext]_PartsVars => PartsInv'
<1> SUFFICES ASSUME PartsInv, [PartsNext]_PartsVars PROVE PartsInv'
  OBVIOUS
<1>1. /\ [LoginNext]_loginVars /\ [AirNext]_airVars /\ [LayerNext]_layerVars
      /\ [FlightNext]_flightVars /\ [SchemaNext]_schemaVars /\ [EdgeNext]_edgeVars
  <2>1. CASE PartsNext
    BY <2>1 DEF PartsNext
  <2>2. CASE UNCHANGED PartsVars
    BY <2>2 DEF PartsVars
  <2> QED
    BY <2>1, <2>2
<1>2. LoginInv' /\ AirInv' /\ LayerInv'
  BY <1>1, LoginStepInv, AirStepInv, LayerStepInv DEF PartsInv
<1>3. FlightInv' /\ SchemaInv' /\ EdgeInv'
  BY <1>1, FlightStepInv, SchemaStepInv, EdgeInvStep DEF PartsInv
<1> QED
  BY <1>2, <1>3 DEF PartsInv

(* Every reachable state of every part is well typed: a column belongs to a *)
(* table that is there, rows are in tables that are there, and a packet is  *)
(* tried retry_max_attempts times at most.                                  *)
THEOREM PartsTyping == PartsSpec => []PartsTypeOK
<1>1. PartsInit => PartsInv
  BY LoginInitInv, AirInitInv, LayerInitInv, FlightInitInv, SchemaInitInv, EdgeInvInit
  DEF PartsInit, PartsInv
<1>2. PartsInv => PartsTypeOK
  <2> SUFFICES ASSUME PartsInv PROVE PartsTypeOK
    OBVIOUS
  <2>1. LoginTypeOK /\ AirTypeOK /\ LayerTypeOK
    BY LayerInvTyped DEF PartsInv, LoginInv, AirInv
  <2>2. FlightTypeOK
    BY DEF PartsInv, FlightInv
  <2>3. SchemaTypeOK
    BY ShapesAreTyped DEF PartsInv, SchemaInv, SchemaTypeOK, LastRevision
  <2>4. EdgeTypeOK
    BY DEF PartsInv, EdgeInv
  <2> QED
    BY <2>1, <2>2, <2>3, <2>4 DEF PartsTypeOK
<1> QED
  BY <1>1, <1>2, PartsStepInv, PTL DEF PartsSpec
=============================================================================
