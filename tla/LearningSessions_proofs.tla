---------------------- MODULE LearningSessions_proofs ----------------------
(***************************************************************************)
(* The quota: while the day's spend is below the cap any call may start;   *)
(* once it is not, only the calls in flight can still add to it.  The      *)
(* sessions: a session that is read, changed and written back stays sound, *)
(* whatever was written in between.                                        *)
(***************************************************************************)
EXTENDS LearningSessions, FiniteSetTheorems, TLAPS

Room == MaxCost * Cardinality(Requests)

(* At or above the cap, the calls in flight have their share of the room   *)
(* left.                                                                   *)
QInv ==
  /\ QuotaTypeOK
  /\ \A d \in Days : spent[d] <= Cap - 1 + Room
  /\ spent[day] < Cap \/ spent[day] + MaxCost * Cardinality(InFlight) <= Cap - 1 + Room
  /\ \A d \in Days : d > day => spent[d] = 0
  /\ AlertedAtCap
-----------------------------------------------------------------------------
LEMMA Shares ==
  ASSUME NEW S \in SUBSET Requests
  PROVE  /\ Cardinality(S) \in Nat /\ Cardinality(Requests) \in Nat
         /\ Cardinality(S) <= Cardinality(Requests)
         /\ IsFiniteSet(S)
<1>1. IsFiniteSet(Requests)
  BY QuotaAssumption
<1>2. IsFiniteSet(S) /\ Cardinality(S) <= Cardinality(Requests)
  BY <1>1, FS_Subset
<1>. QED BY <1>1, <1>2, FS_CardinalityType

(* One call fewer leaves MaxCost more. *)
LEMMA Share ==
  ASSUME NEW S \in SUBSET Requests, NEW c \in S
  PROVE  MaxCost * Cardinality(S \ {c}) = MaxCost * Cardinality(S) - MaxCost
<1>1. IsFiniteSet(S)
  BY Shares
<1>2. Cardinality(S \ {c}) = Cardinality(S) - 1 /\ Cardinality(S) \in Nat
  BY <1>1, FS_RemoveElement, FS_CardinalityType
<1> DEFINE n == Cardinality(S)
<1>3. n \in Nat /\ MaxCost \in Nat
  BY <1>2, QuotaAssumption
<1> HIDE DEF n
<1>4. MaxCost * (n - 1) = MaxCost * n - MaxCost
  BY <1>3
<1>. QED BY <1>2, <1>4 DEF n

LEMMA ShareOrder ==
  ASSUME NEW S \in SUBSET Requests, NEW T \in SUBSET S
  PROVE  MaxCost * Cardinality(T) <= MaxCost * Cardinality(S)
<1>1. IsFiniteSet(S)
  BY Shares
<1>2. Cardinality(T) <= Cardinality(S) /\ Cardinality(T) \in Nat /\ Cardinality(S) \in Nat
  BY <1>1, FS_Subset, FS_CardinalityType
<1> DEFINE m == Cardinality(T)
           n == Cardinality(S)
<1>3. m \in Nat /\ n \in Nat /\ m <= n /\ MaxCost \in Nat
  BY <1>2, QuotaAssumption
<1> HIDE DEF m, n
<1>4. n = m + (n - m) /\ n - m \in Nat
  BY <1>3
<1>5. MaxCost * n = MaxCost * m + MaxCost * (n - m)
  BY <1>3, <1>4
<1>6. MaxCost * (n - m) >= 0 /\ MaxCost * m \in Nat /\ MaxCost * (n - m) \in Nat
  BY <1>3, <1>4
<1>. QED BY <1>5, <1>6 DEF m, n
-----------------------------------------------------------------------------
CallStates == {"idle", "asked", "allowed", "billed", "counted", "answered", "failed"}

Call == [at : CallStates, cost : 0..MaxCost]

(* A step that only moves calls, and starts none at or above the cap.      *)
LEMMA CallMoves ==
  ASSUME QInv, UNCHANGED <<day, spent, alerts, lost>>,
         call' \in [Requests -> Call],
         spent[day] < Cap \/ InFlight' \subseteq InFlight
  PROVE  QInv'
<1>1. QuotaTypeOK' /\ AlertedAtCap'
  BY DEF QInv, QuotaTypeOK, AlertedAtCap, Call, CallStates
<1>2. spent'[day'] < Cap \/ spent'[day'] + MaxCost * Cardinality(InFlight') <= Cap - 1 + Room
  <2>1. CASE spent[day] < Cap
    BY <2>1
  <2>2. CASE ~(spent[day] < Cap)
    <3>1. InFlight' \subseteq InFlight /\ InFlight \subseteq Requests
      BY <2>2 DEF InFlight
    <3>2. MaxCost * Cardinality(InFlight') <= MaxCost * Cardinality(InFlight)
      BY <3>1, ShareOrder
    <3>3. Cardinality(InFlight') \in Nat /\ Cardinality(InFlight) \in Nat /\ Cardinality(Requests) \in Nat
      BY <3>1, Shares
    <3>4. spent[day] + MaxCost * Cardinality(InFlight) <= Cap - 1 + Room /\ spent[day] \in Nat
      BY <2>2 DEF QInv, QuotaTypeOK
    <3> DEFINE a == MaxCost * Cardinality(InFlight')
               b == MaxCost * Cardinality(InFlight)
               k == Cap - 1 + Room
    <3>5. a \in Nat /\ b \in Nat /\ k \in Int
      BY <3>3, QuotaAssumption DEF Room
    <3>6. spent[day] + b <= k /\ a <= b
      BY <3>2, <3>4
    <3> HIDE DEF a, b, k
    <3>7. spent[day] + a <= k
      BY <3>4, <3>5, <3>6
    <3>. QED BY <3>7 DEF a, k
  <2>. QED BY <2>1, <2>2
<1>3. (\A d \in Days : spent[d] <= Cap - 1 + Room)' /\ (\A d \in Days : d > day => spent[d] = 0)'
  BY DEF QInv
<1>. QED BY <1>1, <1>2, <1>3 DEF QInv

LEMMA Moved ==
  ASSUME call \in [Requests -> Call], NEW c \in Requests,
         NEW at \in CallStates
  PROVE  [call EXCEPT ![c].at = at] \in [Requests -> Call]
BY DEF Call

LEMMA QuotaTypes == ASSUME QuotaTypeOK PROVE call \in [Requests -> Call] /\ day \in Days
BY DEF QuotaTypeOK, Call, CallStates

LEMMA QuotaInitial == ASSUME QuotaInit PROVE QInv
<1>1. MaxCost * Cardinality(Requests) \in Nat
  BY QuotaAssumption, FS_CardinalityType
<1>2. QuotaTypeOK
  BY QuotaAssumption DEF QuotaInit, QuotaTypeOK, NoCall, Days
<1>. QED BY <1>1, <1>2, QuotaAssumption DEF QuotaInit, QInv, AlertedAtCap, Room, Days

LEMMA AskKeeps == ASSUME QInv, NEW c \in Requests, Ask(c) PROVE QInv'
<1>1. call' = [call EXCEPT ![c].at = "asked"] /\ call \in [Requests -> Call]
  BY QuotaTypes DEF Ask, Becomes, QInv
<1>2. InFlight' \subseteq InFlight
  BY <1>1 DEF InFlight, Call
<1>3. call' \in [Requests -> Call]
  BY <1>1, Moved DEF CallStates
<1>. QED BY <1>2, <1>3, CallMoves DEF Ask

LEMMA AssertKeeps == ASSUME QInv, NEW c \in Requests, AssertNotExceeded(c) PROVE QInv'
<1>0. call \in [Requests -> Call]
  BY QuotaTypes DEF QInv
<1>1. CASE spent[day] < Cap /\ Becomes(c, "allowed")
  <2>1. call' \in [Requests -> Call]
    BY <1>0, <1>1, Moved DEF Becomes, CallStates
  <2>. QED BY <1>1, <2>1, CallMoves DEF AssertNotExceeded
<1>2. CASE Becomes(c, "failed")
  <2>1. call' \in [Requests -> Call]
    BY <1>0, <1>2, Moved DEF Becomes, CallStates
  <2>2. InFlight' \subseteq InFlight
    BY <1>0, <1>2 DEF InFlight, Call, Becomes
  <2>. QED BY <2>1, <2>2, CallMoves DEF AssertNotExceeded
<1>. QED BY <1>1, <1>2 DEF AssertNotExceeded

LEMMA CallKeeps == ASSUME QInv, NEW c \in Requests, CallLlm(c) PROVE QInv'
<1>0. call \in [Requests -> Call] /\ c \in InFlight
  BY QuotaTypes DEF QInv, CallLlm, InFlight
<1>1. ASSUME NEW x \in 0..MaxCost, call' = [call EXCEPT ![c] = [at |-> "billed", cost |-> x]]
      PROVE  QInv'
  <2>1. call' \in [Requests -> Call]
    BY <1>0, <1>1 DEF Call, CallStates
  <2>2. InFlight' \subseteq InFlight
    BY <1>0, <1>1 DEF InFlight, Call
  <2>. QED BY <2>1, <2>2, CallMoves DEF CallLlm
<1>2. CASE Becomes(c, "failed")
  <2>1. call' \in [Requests -> Call]
    BY <1>0, <1>2, Moved DEF Becomes, CallStates
  <2>2. InFlight' \subseteq InFlight
    BY <1>0, <1>2 DEF InFlight, Call, Becomes
  <2>. QED BY <2>1, <2>2, CallMoves DEF CallLlm
<1>. QED BY <1>1, <1>2 DEF CallLlm

(* What adding a cost x to a total t does to the day's number of alerts n, *)
(* and to whether the day is lost.                                         *)
LEMMA AlertStep ==
  ASSUME QuotaTypeOK, NEW x \in Nat, x > 0,
         spent' = [spent EXCEPT ![day] = @ + x],
         Alert \/ (UNCHANGED alerts /\ lost' = lost \cup {day})
  PROVE  /\ alerts' \in [Days -> Nat] /\ lost' \in SUBSET Days /\ lost \subseteq lost'
         /\ \A d \in Days \ {day} : alerts'[d] = alerts[d]
         /\ alerts'[day] \in {alerts[day], alerts[day] + 1}
         /\ alerts'[day] = alerts[day] + 1 => spent[day] <= Cap /\ spent'[day] >= Cap
         /\ spent[day] < Cap /\ spent'[day] >= Cap => alerts'[day] > 0 \/ day \in lost'
<1>1. /\ spent \in [Days -> Nat] /\ alerts \in [Days -> Nat] /\ lost \in SUBSET Days /\ day \in Days
      /\ Cap \in Nat
  BY QuotaAssumption DEF QuotaTypeOK
<1>2. spent[day] \in Nat /\ alerts[day] \in Nat /\ spent'[day] = spent[day] + x
  BY <1>1
<1>3. CASE UNCHANGED alerts /\ lost' = lost \cup {day}
  BY <1>1, <1>2, <1>3
<1>4. CASE Alert
  <2>1. PICK previous \in (spent[day] - 1)..(spent[day] + 1), stored \in BOOLEAN :
          /\ stored => previous < Cap /\ spent'[day] >= Cap
          /\ alerts' = IF stored THEN [alerts EXCEPT ![day] = @ + 1] ELSE alerts
          /\ lost' = IF (previous < Cap /\ spent'[day] >= Cap /\ ~stored) \/ (spent[day] < Cap /\ previous >= Cap)
                     THEN lost \cup {day} ELSE lost
    BY <1>4 DEF Alert
  <2>2. previous \in Int /\ previous >= spent[day] - 1
    BY <1>2
  <2>3. CASE stored
    <3>1. alerts' = [alerts EXCEPT ![day] = @ + 1]
      BY <2>1, <2>3
    <3>2. /\ alerts' \in [Days -> Nat] /\ alerts'[day] = alerts[day] + 1
          /\ \A d \in Days \ {day} : alerts'[d] = alerts[d]
      BY <1>1, <1>2, <3>1
    <3>3. spent[day] <= Cap /\ spent'[day] >= Cap
      BY <1>1, <1>2, <2>1, <2>2, <2>3
    <3>. QED BY <1>1, <1>2, <2>1, <3>2, <3>3
  <2>4. CASE ~stored
    <3>1. alerts' = alerts
      BY <2>1, <2>4
    <3>2. spent[day] < Cap /\ spent'[day] >= Cap => day \in lost'
      BY <1>1, <1>2, <2>1, <2>2, <2>4
    <3>. QED BY <1>1, <1>2, <2>1, <3>1, <3>2
  <2>. QED BY <2>3, <2>4
<1>. QED BY <1>3, <1>4

(* The cost is added, and its call is in flight no more.                   *)
LEMMA RecordKeeps == ASSUME QInv, NEW c \in Requests, RecordSpend(c) PROVE QInv'
<1>0. call \in [Requests -> Call] /\ c \in InFlight /\ day \in Days
  BY QuotaTypes DEF QInv, RecordSpend, InFlight
<1>1. CASE (Becomes(c, "failed") \/ Becomes(c, "answered")) /\ UNCHANGED <<spent, alerts, lost>>
  <2>1. call' \in [Requests -> Call]
    BY <1>0, <1>1, Moved DEF Becomes, CallStates
  <2>2. InFlight' \subseteq InFlight
    BY <1>0, <1>1 DEF InFlight, Call, Becomes
  <2>. QED BY <1>1, <2>1, <2>2, CallMoves DEF RecordSpend
<1>2. CASE /\ call[c].cost > 0
           /\ Becomes(c, "answered") \/ Becomes(c, "failed") \/ Becomes(c, "counted")
           /\ spent' = [spent EXCEPT ![day] = @ + call[c].cost]
           /\ Alert \/ (UNCHANGED alerts /\ lost' = lost \cup {day})
  <2>1. call' \in [Requests -> Call]
    <3>1. PICK at \in CallStates : call' = [call EXCEPT ![c].at = at]
      BY <1>2 DEF Becomes, CallStates
    <3>. QED BY <1>0, <3>1, Moved
  <2>2. InFlight' = InFlight \ {c}
    BY <1>0, <1>2 DEF InFlight, Call, Becomes
  <2>3. InFlight \in SUBSET Requests
    BY DEF InFlight
  <2>4. MaxCost * Cardinality(InFlight') = MaxCost * Cardinality(InFlight) - MaxCost
    BY <1>0, <2>2, <2>3, Share
  <2>5. MaxCost * Cardinality(InFlight) <= Room
    BY <2>3, ShareOrder DEF Room
  <2>6. /\ spent \in [Days -> Nat] /\ alerts \in [Days -> Nat]
        /\ day' = day /\ call[c].cost \in 0..MaxCost
    BY <1>0 DEF QInv, QuotaTypeOK, RecordSpend, Call
  <2>7. spent' \in [Days -> Nat] /\ spent'[day] = spent[day] + call[c].cost
    BY <1>0, <1>2, <2>6, QuotaAssumption
  <2>8. \A d \in Days \ {day} : spent'[d] = spent[d]
    BY <1>0, <1>2, <2>6
  <2>17. call[c].cost \in Nat
    BY <2>6, QuotaAssumption
  <2>9. /\ alerts' \in [Days -> Nat] /\ lost' \in SUBSET Days /\ lost \subseteq lost'
        /\ \A d \in Days \ {day} : alerts'[d] = alerts[d]
        /\ alerts'[day] \in {alerts[day], alerts[day] + 1}
        /\ alerts'[day] = alerts[day] + 1 => spent[day] <= Cap /\ spent'[day] >= Cap
        /\ spent[day] < Cap /\ spent'[day] >= Cap => alerts'[day] > 0 \/ day \in lost'
    <3>1. QuotaTypeOK
      BY DEF QInv
    <3>. QED BY <1>2, <2>17, <3>1, AlertStep
  <2>10. spent'[day] + MaxCost * Cardinality(InFlight') <= Cap - 1 + Room
    <3> DEFINE a == MaxCost * Cardinality(InFlight')
               b == MaxCost * Cardinality(InFlight)
    <3>1. a \in Int /\ b \in Int /\ Room \in Int /\ a = b - MaxCost /\ b <= Room
      BY <2>2, <2>3, <2>4, <2>5, Shares, QuotaAssumption DEF Room
    <3>2. spent[day] < Cap \/ spent[day] + b <= Cap - 1 + Room
      BY DEF QInv
    <3>3. spent[day] \in Nat /\ call[c].cost \in Nat /\ call[c].cost <= MaxCost /\ Cap \in Nat /\ MaxCost \in Nat
      BY <1>0, <2>6, QuotaAssumption
    <3> HIDE DEF a, b
    <3>4. spent'[day] + a <= Cap - 1 + Room
      BY <2>7, <3>1, <3>2, <3>3
    <3>. QED BY <3>4 DEF a
  <2>11. MaxCost * Cardinality(InFlight') \in Nat /\ Room \in Nat
    BY <2>2, <2>3, Shares, QuotaAssumption DEF Room
  <2>12. spent'[day] <= Cap - 1 + Room
    <3> DEFINE a == MaxCost * Cardinality(InFlight')
    <3>1. a \in Nat /\ spent'[day] \in Nat /\ Room \in Nat /\ Cap \in Nat /\ spent'[day] + a <= Cap - 1 + Room
      BY <1>0, <2>7, <2>10, <2>11, QuotaAssumption
    <3> HIDE DEF a
    <3>. QED BY <3>1
  <2>13. \A d \in Days : spent'[d] <= Cap - 1 + Room
    BY <2>8, <2>12 DEF QInv
  <2>14. \A d \in Days : d > day => spent'[d] = 0
    BY <1>0, <2>8 DEF QInv, Days
  <2>15. AlertedAtCap'
    <3>1. ASSUME NEW d \in Days
          PROVE  /\ spent'[d] < Cap => alerts'[d] = 0
                 /\ alerts'[d] <= IF spent'[d] = Cap THEN 1 ELSE 2
                 /\ spent'[d] >= Cap => alerts'[d] > 0 \/ d \in lost'
      <4>1. CASE d # day
        BY <2>8, <2>9, <4>1 DEF QInv, AlertedAtCap
      <4>2. CASE d = day
        <5>1. /\ spent[day] < Cap => alerts[day] = 0
              /\ alerts[day] <= IF spent[day] = Cap THEN 1 ELSE 2
              /\ spent[day] >= Cap => alerts[day] > 0 \/ day \in lost
          BY <1>0 DEF QInv, AlertedAtCap
        <5>2. /\ spent[day] \in Nat /\ alerts[day] \in Nat /\ call[c].cost \in Nat /\ Cap \in Nat
              /\ call[c].cost > 0
          BY <1>0, <1>2, <2>6, QuotaAssumption
        <5>. QED BY <2>7, <2>9, <4>2, <5>1, <5>2
      <4>. QED BY <4>1, <4>2
    <3>. QED BY <3>1 DEF AlertedAtCap
  <2>16. QuotaTypeOK'
    BY <1>0, <2>1, <2>6, <2>7, <2>9 DEF QuotaTypeOK, Call, CallStates
  <2>. QED BY <2>6, <2>10, <2>13, <2>14, <2>15, <2>16 DEF QInv
<1>. QED BY <1>1, <1>2 DEF RecordSpend

LEMMA ReturnKeeps == ASSUME QInv, NEW c \in Requests, Return(c) PROVE QInv'
<1>1. call' = [call EXCEPT ![c] = NoCall] /\ call \in [Requests -> Call]
  BY QuotaTypes DEF Return, QInv
<1>2. InFlight' \subseteq InFlight
  BY <1>1 DEF InFlight, Call, NoCall
<1>3. call' \in [Requests -> Call]
  BY <1>1, QuotaAssumption DEF NoCall, Call, CallStates
<1>. QED BY <1>2, <1>3, CallMoves DEF Return

LEMMA MidnightKeeps == ASSUME QInv, Midnight PROVE QInv'
<1>1. day' \in Days /\ day' > day /\ day' \in Nat /\ day \in Nat
  BY QuotaAssumption DEF QInv, QuotaTypeOK, Midnight, Days
<1>2. spent'[day'] = 0 /\ spent' = spent
  BY <1>1 DEF QInv, Midnight
<1>3. spent'[day'] < Cap
  BY <1>2, QuotaAssumption
<1>4. \A d \in Days : d > day' => spent'[d] = 0
  BY <1>1, <1>2 DEF QInv, Days
<1>5. QuotaTypeOK' /\ AlertedAtCap'
  BY <1>1 DEF QInv, QuotaTypeOK, AlertedAtCap, Midnight
<1>. QED BY <1>2, <1>3, <1>4, <1>5 DEF QInv

LEMMA CrashKeeps == ASSUME QInv, QuotaCrash PROVE QInv'
<1>1. call' = [c \in Requests |-> NoCall]
  BY DEF QuotaCrash
<1>2. InFlight' \subseteq InFlight
  BY <1>1 DEF InFlight, NoCall
<1>3. call' \in [Requests -> Call]
  BY <1>1, QuotaAssumption DEF NoCall, Call, CallStates
<1>. QED BY <1>2, <1>3, CallMoves DEF QuotaCrash

LEMMA QuotaKeeps == ASSUME QInv, [QuotaNext]_quotaVars PROVE QInv'
<1>1. CASE UNCHANGED quotaVars
  BY <1>1 DEF quotaVars, QInv, QuotaTypeOK, AlertedAtCap, InFlight
<1>2. CASE QuotaNext
  BY <1>2, AskKeeps, AssertKeeps, CallKeeps, RecordKeeps, ReturnKeeps, MidnightKeeps, CrashKeeps
     DEF QuotaNext, Calling
<1>. QED BY <1>1, <1>2
-----------------------------------------------------------------------------
(* A step of a session is a step of the quota, or none for it.             *)
LEMMA EachStep == ASSUME [Next]_vars PROVE [QuotaNext]_quotaVars
<1>1. CASE UNCHANGED vars
  BY <1>1 DEF vars, quotaVars
<1>2. CASE NextDay
  BY <1>2 DEF NextDay, QuotaNext
<1>3. CASE Crash
  BY <1>3 DEF Crash, QuotaNext
<1>0. CASE Cards
  BY <1>0 DEF Cards
<1>4. ASSUME NEW r \in Requests, CheckStepResponse(r) \/ AskQuestion(r)
      PROVE  Ask(r)
  BY <1>4 DEF CheckStepResponse, AskQuestion
<1>5. ASSUME NEW r \in Requests, StoreCheck(r) \/ StoreAnswer(r)
      PROVE  Return(r)
  BY <1>5 DEF StoreCheck, StoreAnswer
<1>6. ASSUME NEW r \in Requests, AdvanceStep(r) \/ StoreStep(r)
      PROVE  UNCHANGED quotaVars
  BY <1>6 DEF AdvanceStep, StoreStep
<1>7. ASSUME NEW r \in Requests, Complete(r) \/ SubmitPracticeTestAnswers(r)
      PROVE  Ask(r) \/ UNCHANGED quotaVars
  BY <1>7 DEF Complete, SubmitPracticeTestAnswers
<1>8. ASSUME NEW r \in Requests, StoreCompleted(r) \/ StoreTest(r) \/ Fail(r)
      PROVE  Return(r) \/ UNCHANGED quotaVars
  BY <1>8 DEF StoreCompleted, StoreTest, Fail
<1>9. ASSUME NEW r \in Requests, Calls(r)
      PROVE  Calling(r)
  BY <1>9 DEF Calls
<1>. QED BY <1>0, <1>1, <1>2, <1>3, <1>4, <1>5, <1>6, <1>7, <1>8, <1>9 DEF Next, QuotaNext

(* Every call of a session goes through the quota: the specification of    *)
(* the sessions implements the one of LlmQuota.                            *)
THEOREM QuotaUsed == Spec => UsesQuota
<1>1. Init => QuotaInit
  BY DEF Init
<1>2. [Next]_vars => [QuotaNext]_quotaVars
  BY EachStep
<1>. QED BY <1>1, <1>2, PTL DEF Spec, UsesQuota, QuotaSpec

(* The room left at and above the cap is an invariant of the quota.        *)
THEOREM QuotaInvariance == QuotaSpec => []QInv
<1>1. QuotaInit => QInv
  BY QuotaInitial
<1>2. QInv /\ [QuotaNext]_quotaVars => QInv'
  BY QuotaKeeps
<1>. QED BY <1>1, <1>2, PTL DEF QuotaSpec

(* A day's spend exceeds the cap at most by what the calls in flight at a  *)
(* time can cost, however many requests and whatever they do.              *)
THEOREM CapHeldAlways == Spec => []CapHeld
<1>1. QInv => CapHeld
  BY DEF QInv, CapHeld, Room
<1>. QED BY <1>1, QuotaUsed, QuotaInvariance, PTL DEF UsesQuota

(* No alert below the cap, at most two on a day, and none missing but one  *)
(* not seen, rounded away or not stored.                                   *)
THEOREM AlertedAtCapAlways == Spec => []AlertedAtCap
<1>1. QInv => AlertedAtCap
  BY DEF QInv
<1>. QED BY <1>1, QuotaUsed, QuotaInvariance, PTL DEF UsesQuota
-----------------------------------------------------------------------------
(* What an answer number g and the judgements ok allow of a step's result. *)
SoundResult(t, g, ok) ==
  /\ t \in StepResult
  /\ t.userResponses \subseteq 1..g
  /\ Cardinality(t.userResponses) = t.attempts
  /\ t.passed => t.userResponses \cap ok # {} \/ t.attempts >= MaxAttemptsAllowed

Sound(s, g, ok) ==
  /\ s \in SessionData
  /\ \A n \in StepNumbers : SoundResult(s.stepResults[n], g, ok)
  /\ \A n \in StepNumbers : n < s.currentStep => s.stepResults[n].passed
  /\ s.userAnswers <= g
  /\ s.userAnswers # 0 => (s.correct <=> s.userAnswers \in ok)

Kept(s, g) ==
  \A a \in 1..g : \/ a \in s.conversation
                  \/ a = s.userAnswers
                  \/ \E n \in StepNumbers : a \in s.stepResults[n].userResponses

(* What a handler has read is as sound as the row, and is what its guard   *)
(* found.                                                                  *)
SoundHandler(h, g, ok, ty) ==
  /\ Sound(h.read, g, ok)
  /\ h.op = "checkStepResponse" => ~h.read.stepResults[h.step].passed
  /\ h.op = "advanceStep" => h.read.stepResults[h.read.currentStep].passed
  /\ h.op = "submitPracticeTestAnswers" <=> ty = "PRACTICE_TESTING"

Typed ==
  /\ type \in Types
  /\ status \in {"IN_PROGRESS", "COMPLETED"}
  /\ req \in [Requests -> Handler \cup {None}]
  /\ given \in Nat
  /\ right \in SUBSET (1..given)
  /\ overlap \in BOOLEAN
  /\ loads \in Nat

(* A call belongs to a handler that asks. *)
Tied == \A r \in Requests : call[r] # NoCall =>
          req[r] # None /\ req[r].op \in Asking

(* While no two requests overlap, they find in the row all that there is;  *)
(* a test takes answers once.                                              *)
Calm ==
  /\ \A r, q \in Requests : req[r] # None /\ req[q] # None => r = q
  /\ \A r \in Requests : req[r] # None => req[r].read = data
  /\ Kept(data, given)
  /\ type = "PRACTICE_TESTING" =>
       given = 0 \/ (status = "COMPLETED" /\ \A r \in Requests : req[r] = None)

SInv ==
  /\ Typed
  /\ Tied
  /\ Sound(data, given, right)
  /\ \A r \in Requests : req[r] # None => SoundHandler(req[r], given, right, type)
  /\ ~overlap => Calm
-----------------------------------------------------------------------------
(* Later answers and judgements take nothing away.                         *)
LEMMA SoundStays ==
  ASSUME NEW s, NEW g \in Nat, NEW h \in Nat, NEW ok, NEW good,
         Sound(s, g, ok), g <= h, ok \subseteq good,
         \A a \in 1..g : a \in good => a \in ok
  PROVE  Sound(s, h, good)
<1>1. ASSUME NEW n \in StepNumbers PROVE SoundResult(s.stepResults[n], h, good)
  <2>1. SoundResult(s.stepResults[n], g, ok)
    BY DEF Sound
  <2>2. 1..g \subseteq 1..h
    OBVIOUS
  <2>. QED BY <2>1, <2>2 DEF SoundResult
<1>2. s.userAnswers \in Nat /\ s.userAnswers <= g
  BY DEF Sound, SessionData
<1>3. s.userAnswers <= h /\ (s.userAnswers # 0 => (s.correct <=> s.userAnswers \in good))
  <2>1. s.userAnswers <= h
    BY <1>2
  <2>2. s.userAnswers # 0 => s.userAnswers \in 1..g
    BY <1>2
  <2>. QED BY <2>1, <2>2 DEF Sound
<1>. QED BY <1>1, <1>3 DEF Sound

LEMMA CheckedSound ==
  ASSUME NEW t, NEW g \in Nat, NEW ok, SoundResult(t, g, ok), NEW b \in BOOLEAN
  PROVE  SoundResult(Checked(t, g + 1, b), g + 1, IF b THEN ok \cup {g + 1} ELSE ok)
<1> DEFINE u == Checked(t, g + 1, b)
<1>1. t.attempts \in Nat /\ t.userResponses \in SUBSET (1..g)
  BY DEF SoundResult, StepResult
<1>2. /\ u.attempts = t.attempts + 1
      /\ u.passed <=> b \/ t.attempts + 1 >= MaxAttemptsAllowed
      /\ u.userResponses = t.userResponses \cup {g + 1}
  BY DEF Checked
<1>3. u \in StepResult
  <2>1. u.userResponses \in SUBSET Nat
    BY <1>1, <1>2
  <2>2. (b \/ t.attempts + 1 >= MaxAttemptsAllowed) \in BOOLEAN
    OBVIOUS
  <2>3. t.attempts + 1 \in Nat /\ t.userResponses \cup {g + 1} \in SUBSET Nat
    BY <1>1, <1>2, <2>1
  <2>. QED BY <2>2, <2>3 DEF Checked, StepResult
<1>4. u.userResponses \subseteq 1..(g + 1)
  BY <1>1, <1>2
<1>5. Cardinality(u.userResponses) = u.attempts
  <2>1. IsFiniteSet(1..g)
    BY FS_Interval
  <2>2. IsFiniteSet(t.userResponses)
    BY <1>1, <2>1, FS_Subset
  <2>3. g + 1 \notin t.userResponses
    BY <1>1
  <2>4. Cardinality(t.userResponses \cup {g + 1}) = Cardinality(t.userResponses) + 1
    BY <2>2, <2>3, FS_AddElement
  <2>. QED BY <1>2, <2>4 DEF SoundResult
<1>6. u.passed => \/ u.userResponses \cap (IF b THEN ok \cup {g + 1} ELSE ok) # {}
                  \/ u.attempts >= MaxAttemptsAllowed
  BY <1>2
<1> HIDE DEF u
<1>7. SoundResult(u, g + 1, IF b THEN ok \cup {g + 1} ELSE ok)
  BY <1>3, <1>4, <1>5, <1>6 DEF SoundResult
<1>. QED BY <1>7 DEF u

(* A check that found the step not passed stores a sound session: the      *)
(* steps before the current one it found passed.                           *)
LEMMA StoredSound ==
  ASSUME NEW s, NEW g \in Nat, NEW ok, Sound(s, g, ok), NEW n \in StepNumbers,
         ~s.stepResults[n].passed, NEW b \in BOOLEAN
  PROVE  /\ Sound([s EXCEPT !.stepResults[n] = Checked(@, g + 1, b)], g + 1,
                  IF b THEN ok \cup {g + 1} ELSE ok)
         /\ Kept(s, g) => Kept([s EXCEPT !.stepResults[n] = Checked(@, g + 1, b)], g + 1)
<1> DEFINE good == IF b THEN ok \cup {g + 1} ELSE ok
           t    == Checked(s.stepResults[n], g + 1, b)
           f    == [s.stepResults EXCEPT ![n] = t]
           u    == [s EXCEPT !.stepResults[n] = Checked(@, g + 1, b)]
<1>1. s \in SessionData
  BY DEF Sound
<1>2. SoundResult(t, g + 1, good)
  BY CheckedSound DEF Sound
<1>3. t \in StepResult /\ t.userResponses = s.stepResults[n].userResponses \cup {g + 1}
  BY <1>2 DEF SoundResult, Checked
<1>4. Sound(s, g + 1, good)
  <2>1. g <= g + 1 /\ g + 1 \in Nat /\ ok \subseteq good /\ \A a \in 1..g : a \in good => a \in ok
    OBVIOUS
  <2>. QED BY <2>1, SoundStays
<1> HIDE DEF good, t
<1>5. u = [s EXCEPT !.stepResults = f]
  BY <1>1 DEF SessionData, t
<1>6. f \in [StepNumbers -> StepResult] /\ f[n] = t /\ \A m \in StepNumbers \ {n} : f[m] = s.stepResults[m]
  BY <1>1, <1>3 DEF SessionData
<1> HIDE DEF f, u
<1>7. /\ u \in SessionData /\ u.stepResults = f /\ u.currentStep = s.currentStep
      /\ u.conversation = s.conversation /\ u.userAnswers = s.userAnswers /\ u.correct = s.correct
  BY <1>1, <1>5, <1>6 DEF SessionData
<1>8. Sound(u, g + 1, good)
  <2>1. \A m \in StepNumbers : SoundResult(f[m], g + 1, good)
    BY <1>2, <1>4, <1>6 DEF Sound
  <2>2. ASSUME NEW m \in StepNumbers, m < s.currentStep PROVE f[m].passed
    <3>1. s.stepResults[m].passed
      BY <2>2 DEF Sound
    <3>2. m # n
      BY <3>1
    <3>. QED BY <1>6, <3>1, <3>2
  <2>3. u.userAnswers <= g + 1 /\ (u.userAnswers # 0 => (u.correct <=> u.userAnswers \in good))
    BY <1>4, <1>7 DEF Sound
  <2>. QED BY <1>7, <2>1, <2>2, <2>3 DEF Sound
<1>9. ASSUME Kept(s, g) PROVE Kept(u, g + 1)
  <2>1. ASSUME NEW a \in 1..(g + 1)
        PROVE  a \in u.conversation \/ a = u.userAnswers \/ \E m \in StepNumbers : a \in u.stepResults[m].userResponses
    <3>1. CASE a = g + 1
      BY <1>3, <1>6, <1>7, <3>1
    <3>2. CASE a # g + 1
      <4>1. a \in 1..g
        BY <3>2
      <4>2. a \in s.conversation \/ a = s.userAnswers \/ \E m \in StepNumbers : a \in s.stepResults[m].userResponses
        BY <1>9, <4>1 DEF Kept
      <4>3. \A m \in StepNumbers : s.stepResults[m].userResponses \subseteq f[m].userResponses
        BY <1>3, <1>6
      <4>. QED BY <1>7, <4>2, <4>3
    <3>. QED BY <3>1, <3>2
  <2>. QED BY <2>1 DEF Kept
<1>. QED BY <1>8, <1>9 DEF u, good

LEMMA AnsweredSound ==
  ASSUME NEW s, NEW g \in Nat, NEW ok, Sound(s, g, ok)
  PROVE  /\ Sound([s EXCEPT !.conversation = @ \cup {g + 1}], g + 1, ok)
         /\ Kept(s, g) => Kept([s EXCEPT !.conversation = @ \cup {g + 1}], g + 1)
<1> DEFINE u == [s EXCEPT !.conversation = @ \cup {g + 1}]
<1>1. s \in SessionData /\ g + 1 \in Nat
  BY DEF Sound
<1>2. Sound(s, g + 1, ok)
  BY <1>1, SoundStays
<1>3. /\ u \in SessionData /\ u.stepResults = s.stepResults /\ u.currentStep = s.currentStep
      /\ u.conversation = s.conversation \cup {g + 1} /\ u.userAnswers = s.userAnswers /\ u.correct = s.correct
  BY <1>1 DEF SessionData
<1> HIDE DEF u
<1>4. Sound(u, g + 1, ok)
  BY <1>2, <1>3 DEF Sound
<1>5. Kept(s, g) => Kept(u, g + 1)
  <2>1. \A a \in 1..(g + 1) : a = g + 1 \/ a \in 1..g
    OBVIOUS
  <2>. QED BY <1>3, <2>1 DEF Kept
<1>. QED BY <1>4, <1>5 DEF u

LEMMA TestedSound ==
  ASSUME NEW s, NEW g \in Nat, NEW ok \in SUBSET Nat, Sound(s, g, ok), NEW b \in BOOLEAN,
         \A a \in ok : a <= g
  PROVE  Sound([s EXCEPT !.userAnswers = g + 1, !.correct = b], g + 1,
               IF b THEN ok \cup {g + 1} ELSE ok)
<1> DEFINE good == IF b THEN ok \cup {g + 1} ELSE ok
           u    == [s EXCEPT !.userAnswers = g + 1, !.correct = b]
<1>1. s \in SessionData /\ g + 1 \in Nat
  BY DEF Sound
<1>2. /\ u \in SessionData /\ u.stepResults = s.stepResults /\ u.currentStep = s.currentStep
      /\ u.userAnswers = g + 1
  BY <1>1 DEF SessionData
<1>3. u.correct = b
  BY <1>1 DEF SessionData
<1>4. Sound(s, g + 1, good)
  <2>1. g <= g + 1 /\ g + 1 \in Nat /\ ok \subseteq good /\ \A a \in 1..g : a \in good => a \in ok
    OBVIOUS
  <2>. QED BY <2>1, SoundStays
<1>5. b <=> g + 1 \in good
  <2>1. g + 1 \notin ok
    OBVIOUS
  <2>. QED BY <2>1
<1> HIDE DEF u, good
<1>6. g + 1 <= g + 1
  BY <1>1
<1>7. Sound(u, g + 1, good)
  BY <1>2, <1>3, <1>4, <1>5, <1>6 DEF Sound
<1>. QED BY <1>7 DEF u, good

(* The step that is left was passed, and so were all before it.            *)
LEMMA AdvancedSound ==
  ASSUME NEW s, NEW g \in Nat, NEW ok, Sound(s, g, ok), NEW m \in StepNumbers,
         m <= s.currentStep + 1, s.stepResults[s.currentStep].passed
  PROVE  /\ Sound([s EXCEPT !.currentStep = m], g, ok)
         /\ Kept(s, g) => Kept([s EXCEPT !.currentStep = m], g)
<1> DEFINE u == [s EXCEPT !.currentStep = m]
<1>1. s \in SessionData /\ s.currentStep \in StepNumbers
  BY DEF Sound, SessionData
<1>2. /\ u \in SessionData /\ u.stepResults = s.stepResults /\ u.currentStep = m
      /\ u.conversation = s.conversation /\ u.userAnswers = s.userAnswers /\ u.correct = s.correct
  BY <1>1 DEF SessionData
<1> HIDE DEF u
<1>3. ASSUME NEW n \in StepNumbers, n < m PROVE s.stepResults[n].passed
  <2>1. n \in Nat /\ m \in Nat /\ s.currentStep \in Nat
    BY <1>1, LearningAssumption DEF StepNumbers
  <2>2. n < s.currentStep \/ n = s.currentStep
    BY <1>3, <2>1
  <2>. QED BY <2>2 DEF Sound
<1>4. Sound(u, g, ok)
  BY <1>2, <1>3 DEF Sound
<1>5. Kept(s, g) => Kept(u, g)
  BY <1>2 DEF Kept
<1>. QED BY <1>4, <1>5 DEF u
-----------------------------------------------------------------------------
(* A handler that goes on has read the row.                                *)
LEMMA ReadsKeeps ==
  ASSUME SInv, NEW r \in Requests, NEW n \in StepNumbers,
         NEW op \in Asking \cup {"advanceStep"}, Reads(r, op, n),
         op = "checkStepResponse" => ~data.stepResults[n].passed,
         op = "advanceStep" => data.stepResults[data.currentStep].passed,
         op = "submitPracticeTestAnswers" <=> type = "PRACTICE_TESTING",
         op = "submitPracticeTestAnswers" => status # "COMPLETED",
         \A q \in Requests : call'[q] # NoCall => call[q] # NoCall \/ (q = r /\ op \in Asking)
  PROVE  SInv'
<1> DEFINE h == [op |-> op, step |-> n, read |-> data]
<1>1. /\ req \in [Requests -> Handler \cup {None}] /\ req[r] = None
      /\ req' = [req EXCEPT ![r] = h]
      /\ UNCHANGED <<type, status, data, given, right>>
  BY DEF Reads, SInv, Typed
<1>2. h \in Handler /\ h.op = op /\ h.step = n /\ h.read = data
  BY DEF Handler, SInv, Sound, Asking
<1> HIDE DEF h
<1>3. req'[r] = h /\ h # None /\ \A q \in Requests \ {r} : req'[q] = req[q]
  BY <1>1, <1>2, NoneAssumption
<1>4. Typed'
  <2>1. req' \in [Requests -> Handler \cup {None}]
    BY <1>1, <1>2
  <2>2. overlap' \in BOOLEAN /\ loads' \in Nat
    BY DEF Reads, SInv, Typed
  <2>. QED BY <1>1, <2>1, <2>2 DEF SInv, Typed
<1>5. Tied'
  <2>1. ASSUME NEW q \in Requests, call'[q] # NoCall
        PROVE  req'[q] # None /\ req'[q].op \in Asking
    <3>1. CASE q = r
      <4>1. call[r] = NoCall
        BY <1>1 DEF SInv, Tied
      <4>. QED BY <1>2, <1>3, <2>1, <3>1, <4>1
    <3>2. CASE q # r
      BY <1>3, <2>1, <3>2 DEF SInv, Tied, Asking
    <3>. QED BY <3>1, <3>2
  <2>. QED BY <2>1 DEF Tied, Asking
<1>6. \A q \in Requests : req'[q] # None => SoundHandler(req'[q], given', right', type')
  <2>0. type' = type /\ given' = given /\ right' = right
    BY <1>1
  <2>1. SoundHandler(h, given, right, type)
    BY <1>2 DEF SInv, SoundHandler
  <2>2. \A q \in Requests : req'[q] # None => SoundHandler(req'[q], given, right, type)
    BY <1>3, <2>1 DEF SInv
  <2>. QED BY <2>0, <2>2
<1>7. ASSUME ~overlap' PROVE Calm'
  <2>1. ~overlap /\ \A q \in Requests : req[q] = None
    BY <1>7 DEF Reads
  <2>2. Kept(data, given)
    BY <2>1 DEF SInv, Calm
  <2>3. type = "PRACTICE_TESTING" => given = 0
    BY <2>1 DEF SInv, Calm
  <2>. QED BY <1>1, <1>2, <1>3, <2>1, <2>2, <2>3 DEF Calm
<1>. QED BY <1>1, <1>4, <1>5, <1>6, <1>7 DEF SInv

(* A handler that ends has left a sound row.                               *)
LEMMA EndsKeeps ==
  ASSUME SInv, NEW r \in Requests, Ends(r), req[r] # None,
         UNCHANGED type, status' \in {"IN_PROGRESS", "COMPLETED"},
         given' \in Nat, given <= given', right \subseteq right', right' \in SUBSET (1..given'),
         \A a \in 1..given : a \in right' => a \in right,
         type = "PRACTICE_TESTING" => given' = given \/ status' = "COMPLETED",
         Sound(data', given', right'),
         ~overlap => Kept(data', given'),
         \A q \in Requests : call'[q] # NoCall => q # r /\ call[q] # NoCall
  PROVE  SInv'
<1>1. /\ req \in [Requests -> Handler \cup {None}]
      /\ req' = [req EXCEPT ![r] = None] /\ UNCHANGED <<overlap, loads>>
  BY DEF Ends, SInv, Typed
<1>2. req'[r] = None /\ \A q \in Requests \ {r} : req'[q] = req[q]
  BY <1>1
<1>3. Typed'
  BY <1>1 DEF SInv, Typed
<1>4. Tied'
  <2>1. ASSUME NEW q \in Requests, call'[q] # NoCall
        PROVE  req'[q] # None /\ req'[q].op \in Asking
    BY <1>2, <2>1 DEF SInv, Tied, Asking
  <2>. QED BY <2>1 DEF Tied, Asking
<1>5. ASSUME NEW q \in Requests, req'[q] # None PROVE SoundHandler(req'[q], given', right', type')
  <2>1. req'[q] = req[q] /\ SoundHandler(req[q], given, right, type)
    BY <1>2, <1>5 DEF SInv
  <2>2. given \in Nat
    BY DEF SInv, Typed
  <2>3. Sound(req[q].read, given', right')
    <3> DEFINE s == req[q].read
               h == given'
               good == right'
    <3>1. Sound(s, given, right) /\ h \in Nat /\ given <= h /\ right \subseteq good
      BY <2>1 DEF SoundHandler
    <3>2. \A a \in 1..given : a \in good => a \in right
      OBVIOUS
    <3> HIDE DEF s, h, good
    <3>3. Sound(s, h, good)
      BY <2>2, <3>1, <3>2, SoundStays
    <3>. QED BY <3>3 DEF s, h, good
  <2>. QED BY <2>1, <2>3 DEF SoundHandler
<1>6. ASSUME ~overlap' PROVE Calm'
  <2>1. ~overlap /\ \A q \in Requests : req[q] # None => q = r
    BY <1>1, <1>6 DEF SInv, Calm
  <2>2. \A q \in Requests : req'[q] = None
    BY <1>2, <2>1
  <2>3. Kept(data', given')
    BY <2>1
  <2>4. type' = "PRACTICE_TESTING" => given' = 0 \/ status' = "COMPLETED"
    BY <2>1 DEF SInv, Calm
  <2>. QED BY <2>1, <2>2, <2>3, <2>4 DEF Calm, Kept
<1>. QED BY <1>3, <1>4, <1>5, <1>6 DEF SInv, Sound

(* A step of calls, of the day, of cards or of the process alone.          *)
LEMMA RestKeeps ==
  ASSUME SInv, UNCHANGED <<type, status, data, given, right, overlap>>, loads' \in Nat,
         req' = req \/ req' = [r \in Requests |-> None],
         \A q \in Requests : call'[q] # NoCall => req'[q] = req[q] /\ call[q] # NoCall
  PROVE  SInv'
<1>1. Typed'
  BY DEF SInv, Typed
<1>2. \A q \in Requests : req'[q] = None \/ req'[q] = req[q]
  OBVIOUS
<1>3. Tied'
  BY DEF SInv, Tied
<1>4. \A q \in Requests : req'[q] # None => SoundHandler(req'[q], given', right', type')
  BY <1>2 DEF SInv, SoundHandler
<1>5. ~overlap => Calm'
  BY <1>2 DEF SInv, Calm
<1>. QED BY <1>1, <1>3, <1>4, <1>5 DEF SInv
-----------------------------------------------------------------------------
(* What the steps of the quota do to the other requests' calls.            *)
LEMMA Asked ==
  ASSUME QInv, NEW r \in Requests, Ask(r), NEW q \in Requests, call'[q] # NoCall
  PROVE  call[q] # NoCall \/ q = r
BY QuotaTypes DEF QInv, Ask, Becomes

LEMMA Returned ==
  ASSUME QInv, NEW r \in Requests, Return(r), NEW q \in Requests, call'[q] # NoCall
  PROVE  q # r /\ call[q] # NoCall
BY QuotaTypes DEF QInv, Return

LEMMA Went ==
  ASSUME QInv, NEW r \in Requests, Calling(r), NEW q \in Requests, call'[q] # NoCall
  PROVE  call[q] # NoCall
<1>1. call \in [Requests -> Call] /\ call[r] # NoCall
  BY QuotaTypes DEF QInv, Calling, AssertNotExceeded, CallLlm, RecordSpend, NoCall
<1>2. CASE q = r
  BY <1>1, <1>2
<1>3. CASE q # r
  <2>1. CASE AssertNotExceeded(r)
    BY <1>1, <1>3, <2>1 DEF AssertNotExceeded, Becomes
  <2>2. CASE CallLlm(r)
    BY <1>1, <1>3, <2>2 DEF CallLlm, Becomes
  <2>3. CASE RecordSpend(r)
    BY <1>1, <1>3, <2>3 DEF RecordSpend, Becomes
  <2>. QED BY <2>1, <2>2, <2>3 DEF Calling
<1>. QED BY <1>2, <1>3

(* Only a handler that asks has a call.                                    *)
LEMMA NotCalling ==
  ASSUME SInv, NEW r \in Requests, req[r] = None \/ req[r].op = "advanceStep"
  PROVE  call[r] = NoCall
BY DEF SInv, Tied, Asking

LEMMA One == 1 \in StepNumbers /\ StepCount \in StepNumbers
BY LearningAssumption DEF StepNumbers

LEMMA HandlerSound ==
  ASSUME SInv, NEW r \in Requests, req[r] # None
  PROVE  /\ req[r] \in Handler
         /\ SoundHandler(req[r], given, right, type)
         /\ given \in Nat /\ given + 1 \in Nat /\ given <= given + 1
         /\ right \in SUBSET (1..given)
         /\ ~overlap => Kept(req[r].read, given)
BY DEF SInv, Typed, Calm
-----------------------------------------------------------------------------
LEMMA CheckStepResponseKeeps ==
  ASSUME SInv, QInv, NEW r \in Requests, CheckStepResponse(r)
  PROVE  SInv'
<1>1. PICK n \in StepNumbers : ~data.stepResults[n].passed /\ Reads(r, "checkStepResponse", n)
  BY DEF CheckStepResponse
<1>2. "checkStepResponse" \in Asking
  BY DEF Asking
<1>3. \A q \in Requests : call'[q] # NoCall => call[q] # NoCall \/ q = r
  BY Asked DEF CheckStepResponse
<1>4. type # "PRACTICE_TESTING"
  BY DEF CheckStepResponse
<1>. QED BY <1>1, <1>2, <1>3, <1>4, ReadsKeeps

LEMMA AdvanceStepKeeps ==
  ASSUME SInv, QInv, NEW r \in Requests, AdvanceStep(r)
  PROVE  SInv'
<1>1. data.currentStep \in StepNumbers
  BY DEF SInv, Sound, SessionData
<1>2. UNCHANGED call
  BY DEF AdvanceStep, quotaVars
<1>. QED BY <1>1, <1>2, ReadsKeeps DEF AdvanceStep

LEMMA AskQuestionKeeps ==
  ASSUME SInv, QInv, NEW r \in Requests, AskQuestion(r)
  PROVE  SInv'
<1>1. "askQuestion" \in Asking
  BY DEF Asking
<1>2. \A q \in Requests : call'[q] # NoCall => call[q] # NoCall \/ q = r
  BY Asked DEF AskQuestion
<1>. QED BY <1>1, <1>2, One, ReadsKeeps DEF AskQuestion

LEMMA CompleteKeeps ==
  ASSUME SInv, QInv, NEW r \in Requests, Complete(r)
  PROVE  SInv'
<1>1. "complete" \in Asking
  BY DEF Asking
<1>2. \A q \in Requests : call'[q] # NoCall => call[q] # NoCall \/ q = r
  <2>1. CASE Ask(r)
    BY <2>1, Asked
  <2>2. CASE UNCHANGED call
    BY <2>2
  <2>. QED BY <2>1, <2>2 DEF Complete, quotaVars
<1>. QED BY <1>1, <1>2, One, ReadsKeeps DEF Complete

LEMMA StoreCheckKeeps ==
  ASSUME SInv, QInv, NEW r \in Requests, StoreCheck(r)
  PROVE  SInv'
<1>1. PICK b \in BOOLEAN :
        /\ data' = [req[r].read EXCEPT !.stepResults[req[r].step] = Checked(@, given + 1, b)]
        /\ right' = IF b THEN right \cup {given + 1} ELSE right
  BY DEF StoreCheck
<1>2. /\ req[r] # None /\ req[r].op = "checkStepResponse" /\ Return(r) /\ Ends(r)
      /\ given' = given + 1 /\ UNCHANGED <<type, status>>
  BY DEF StoreCheck, Runs
<1>3. req[r].step \in StepNumbers /\ ~req[r].read.stepResults[req[r].step].passed
  BY <1>2, HandlerSound DEF SoundHandler, Handler
<1>4. Sound(req[r].read, given, right)
  BY <1>2, HandlerSound DEF SoundHandler
<1>5. given \in Nat
  BY DEF SInv, Typed
<1>6. Sound(data', given', right') /\ (Kept(req[r].read, given) => Kept(data', given'))
  <2> DEFINE s == req[r].read
             n == req[r].step
  <2>1. Sound(s, given, right) /\ n \in StepNumbers /\ ~s.stepResults[n].passed
    BY <1>3, <1>4
  <2>2. data' = [s EXCEPT !.stepResults[n] = Checked(@, given + 1, b)]
    BY <1>1
  <2> HIDE DEF s, n
  <2>3. /\ Sound([s EXCEPT !.stepResults[n] = Checked(@, given + 1, b)], given + 1,
                 IF b THEN right \cup {given + 1} ELSE right)
        /\ Kept(s, given) => Kept([s EXCEPT !.stepResults[n] = Checked(@, given + 1, b)], given + 1)
    BY <1>5, <2>1, StoredSound
  <2>. QED BY <1>1, <1>2, <2>2, <2>3 DEF s
<1>7. right \subseteq right' /\ right' \in SUBSET (1..given') /\ \A a \in 1..given : a \in right' => a \in right
  <2>1. right \in SUBSET (1..given)
    BY DEF SInv, Typed
  <2>. QED BY <1>1, <1>2, <1>5, <2>1
<1>10. type # "PRACTICE_TESTING"
  BY <1>2, HandlerSound DEF SoundHandler
<1>8. \A q \in Requests : call'[q] # NoCall => q # r /\ call[q] # NoCall
  BY <1>2, Returned
<1>9. status' \in {"IN_PROGRESS", "COMPLETED"}
  BY <1>2 DEF SInv, Typed
<1>11. given' \in Nat /\ given <= given'
  BY <1>2, <1>5
<1>12. ~overlap => Kept(data', given')
  BY <1>2, <1>6, HandlerSound
<1>. QED BY <1>2, <1>6, <1>7, <1>8, <1>9, <1>10, <1>11, <1>12, EndsKeeps

LEMMA StoreAnswerKeeps ==
  ASSUME SInv, QInv, NEW r \in Requests, StoreAnswer(r)
  PROVE  SInv'
<1>1. /\ req[r] # None /\ req[r].op = "askQuestion" /\ Return(r) /\ Ends(r) /\ given' = given + 1
      /\ data' = [req[r].read EXCEPT !.conversation = @ \cup {given + 1}]
      /\ UNCHANGED <<type, status, right>>
  BY DEF StoreAnswer, Runs
<1>2. Sound(req[r].read, given, right) /\ given \in Nat
  BY <1>1, HandlerSound DEF SoundHandler
<1>3. Sound(data', given', right') /\ (Kept(req[r].read, given) => Kept(data', given'))
  BY <1>1, <1>2, AnsweredSound
<1>4. \A q \in Requests : call'[q] # NoCall => q # r /\ call[q] # NoCall
  BY <1>1, Returned
<1>5. status' \in {"IN_PROGRESS", "COMPLETED"} /\ right' \in SUBSET (1..given')
  <2>1. right \in SUBSET (1..given) /\ status \in {"IN_PROGRESS", "COMPLETED"}
    BY DEF SInv, Typed
  <2>. QED BY <1>1, <1>2, <2>1
<1>6. type # "PRACTICE_TESTING"
  BY <1>1, HandlerSound DEF SoundHandler
<1>7. ~overlap => Kept(data', given')
  BY <1>1, <1>3, HandlerSound
<1>8. given' \in Nat /\ given <= given'
  BY <1>1, <1>2
<1>. QED BY <1>1, <1>3, <1>4, <1>5, <1>6, <1>7, <1>8, EndsKeeps

LEMMA StoreStepKeeps ==
  ASSUME SInv, QInv, NEW r \in Requests, StoreStep(r)
  PROVE  SInv'
<1>1. /\ req[r] # None /\ req[r].op = "advanceStep" /\ Ends(r)
      /\ UNCHANGED <<type, given, right>> /\ UNCHANGED call
  BY DEF StoreStep, Runs, quotaVars
<1>2. /\ Sound(req[r].read, given, right) /\ given \in Nat
      /\ req[r].read.stepResults[req[r].read.currentStep].passed
  BY <1>1, HandlerSound DEF SoundHandler
<1>3. req[r].read.currentStep \in StepNumbers
  BY <1>2 DEF Sound, SessionData
<1>4. PICK m \in StepNumbers : /\ data' = [req[r].read EXCEPT !.currentStep = m]
                               /\ m <= req[r].read.currentStep + 1
  <2> DEFINE k == req[r].read.currentStep
  <2>1. k \in 1..StepCount /\ StepCount \in Nat \ {0}
    BY <1>3, LearningAssumption DEF StepNumbers
  <2>2. \/ k + 1 > StepCount /\ data' = [req[r].read EXCEPT !.currentStep = StepCount]
        \/ k + 1 <= StepCount /\ data' = [req[r].read EXCEPT !.currentStep = k + 1]
    BY DEF StoreStep
  <2> HIDE DEF k
  <2>3. \E m \in StepNumbers : data' = [req[r].read EXCEPT !.currentStep = m] /\ m <= k + 1
    <3>1. CASE k + 1 > StepCount /\ data' = [req[r].read EXCEPT !.currentStep = StepCount]
      <4>1. StepCount <= k + 1 /\ StepCount \in StepNumbers
        BY <2>1, <3>1, One
      <4>. QED BY <3>1, <4>1
    <3>2. CASE k + 1 <= StepCount /\ data' = [req[r].read EXCEPT !.currentStep = k + 1]
      <4>1. k + 1 \in StepNumbers /\ k + 1 <= k + 1
        BY <2>1, <3>2 DEF StepNumbers
      <4>. QED BY <3>2, <4>1
    <3>. QED BY <2>2, <3>1, <3>2
  <2>. QED BY <2>3 DEF k
<1>5. Sound(data', given', right') /\ (Kept(req[r].read, given) => Kept(data', given'))
  BY <1>1, <1>2, <1>4, AdvancedSound
<1>6. \A q \in Requests : call'[q] # NoCall => q # r /\ call[q] # NoCall
  BY <1>1, NotCalling
<1>7. status' \in {"IN_PROGRESS", "COMPLETED"} /\ right' \in SUBSET (1..given') /\ given' \in Nat /\ given <= given'
  BY <1>1 DEF StoreStep, SInv, Typed
<1>. QED BY <1>1, <1>5, <1>6, <1>7, HandlerSound, EndsKeeps

(* A handler that leaves the session's data alone.                         *)
LEMMA LeftAlone ==
  ASSUME SInv, QInv, NEW r \in Requests, Ends(r), req[r] # None,
         UNCHANGED <<type, data, given, right>>, status' \in {"IN_PROGRESS", "COMPLETED"},
         IF call[r] = NoCall THEN UNCHANGED quotaVars ELSE Return(r)
  PROVE  SInv'
<1>1. \A q \in Requests : call'[q] # NoCall => q # r /\ call[q] # NoCall
  <2>1. CASE call[r] = NoCall
    BY <2>1 DEF quotaVars
  <2>2. CASE Return(r)
    BY <2>2, Returned
  <2>. QED BY <2>1, <2>2
<1>2. given \in Nat /\ given <= given' /\ right \in SUBSET (1..given) /\ Sound(data', given', right')
  BY DEF SInv, Typed
<1>3. ~overlap => Kept(data', given')
  BY DEF SInv, Calm
<1>. QED BY <1>1, <1>2, <1>3, EndsKeeps

LEMMA SubmitKeeps ==
  ASSUME SInv, QInv, NEW r \in Requests, SubmitPracticeTestAnswers(r)
  PROVE  SInv'
<1>1. "submitPracticeTestAnswers" \in Asking
  BY DEF Asking
<1>2. \A q \in Requests : call'[q] # NoCall => call[q] # NoCall \/ q = r
  <2>1. CASE Ask(r)
    BY <2>1, Asked
  <2>2. CASE UNCHANGED call
    BY <2>2
  <2>. QED BY <2>1, <2>2 DEF SubmitPracticeTestAnswers, quotaVars
<1>. QED BY <1>1, <1>2, One, ReadsKeeps DEF SubmitPracticeTestAnswers

LEMMA StoreTestKeeps ==
  ASSUME SInv, QInv, NEW r \in Requests, StoreTest(r)
  PROVE  SInv'
<1>1. PICK b \in BOOLEAN :
        /\ data' = [req[r].read EXCEPT !.userAnswers = given + 1, !.correct = b]
        /\ right' = IF b THEN right \cup {given + 1} ELSE right
  BY DEF StoreTest
<1>2. /\ req[r] # None /\ req[r].op = "submitPracticeTestAnswers" /\ Ends(r)
      /\ given' = given + 1 /\ status' = "COMPLETED" /\ UNCHANGED type
      /\ IF call[r] = NoCall THEN UNCHANGED quotaVars ELSE Return(r)
  BY DEF StoreTest, Runs
<1>3. Sound(req[r].read, given, right) /\ type = "PRACTICE_TESTING" /\ given \in Nat
  BY <1>2, HandlerSound DEF SoundHandler
<1>4. right \in SUBSET (1..given)
  BY DEF SInv, Typed
<1>5. Sound(data', given', right')
  <2>1. right \in SUBSET Nat /\ \A a \in right : a <= given
    BY <1>3, <1>4
  <2>2. Sound([req[r].read EXCEPT !.userAnswers = given + 1, !.correct = b], given + 1,
              IF b THEN right \cup {given + 1} ELSE right)
    BY <1>3, <2>1, TestedSound
  <2>. QED BY <1>1, <1>2, <2>2
<1>6. right \subseteq right' /\ right' \in SUBSET (1..given') /\ \A a \in 1..given : a \in right' => a \in right
  BY <1>1, <1>2, <1>3, <1>4
<1>7. ASSUME ~overlap PROVE Kept(data', given')
  <2>1. given = 0
    BY <1>2, <1>3, <1>7 DEF SInv, Calm
  <2>2. data'.userAnswers = given'
    <3>1. req[r].read \in SessionData
      BY <1>3 DEF Sound
    <3>. QED BY <1>1, <1>2, <3>1 DEF SessionData
  <2>3. given' = 1
    BY <1>2, <2>1
  <2>. QED BY <2>2, <2>3 DEF Kept
<1>8. \A q \in Requests : call'[q] # NoCall => q # r /\ call[q] # NoCall
  <2>1. CASE call[r] = NoCall
    BY <1>2, <2>1 DEF quotaVars
  <2>2. CASE Return(r)
    BY <2>2, Returned
  <2>. QED BY <1>2, <2>1, <2>2
<1>9. given' \in Nat /\ given <= given'
  BY <1>2, <1>3
<1>. QED BY <1>2, <1>5, <1>6, <1>7, <1>8, <1>9, EndsKeeps

LEMMA SessionKeeps == ASSUME SInv, QInv, [Next]_vars PROVE SInv'
<1>0. loads \in Nat
  BY DEF SInv, Typed
<1>1. CASE UNCHANGED vars
  BY <1>0, <1>1, RestKeeps DEF vars
<1>2. CASE NextDay
  BY <1>0, <1>2, RestKeeps DEF NextDay, Midnight, sessionVars
<1>3. CASE Crash
  BY <1>0, <1>3, RestKeeps DEF Crash, QuotaCrash
<1>7. CASE Cards
  <2>1. loads' \in Nat
    BY <1>0, <1>7 DEF Cards, DeleteCard, ReviewCard, StoreReview
  <2>. QED BY <1>7, <2>1, RestKeeps DEF Cards, quotaVars
<1>4. ASSUME NEW r \in Requests, Calls(r) PROVE SInv'
  BY <1>0, <1>4, Went, RestKeeps DEF Calls, sessionVars
<1>5. ASSUME NEW r \in Requests, StoreCompleted(r) PROVE SInv'
  BY <1>5, LeftAlone DEF StoreCompleted, Runs
<1>6. ASSUME NEW r \in Requests, Fail(r) PROVE SInv'
  <2>1. status' \in {"IN_PROGRESS", "COMPLETED"}
    BY <1>6 DEF Fail, SInv, Typed
  <2>. QED BY <1>6, <2>1, LeftAlone DEF Fail
<1>. QED BY <1>1, <1>2, <1>3, <1>4, <1>5, <1>6, <1>7, CheckStepResponseKeeps, StoreCheckKeeps,
            AdvanceStepKeeps, StoreStepKeeps, AskQuestionKeeps, StoreAnswerKeeps, CompleteKeeps,
            SubmitKeeps, StoreTestKeeps DEF Next

LEMMA SessionInitial == ASSUME Init PROVE SInv
<1>1. NoResult \in StepResult /\ ~NoResult.passed /\ NoResult.userResponses = {} /\ NoResult.attempts = 0
  BY DEF NoResult, StepResult
<1>2. SoundResult(NoResult, 0, {})
  BY <1>1, FS_EmptySet DEF SoundResult
<1>3. data \in SessionData /\ data.currentStep = 1 /\ \A n \in StepNumbers : data.stepResults[n] = NoResult
  BY <1>1, One DEF Init, SessionData
<1>4. Sound(data, 0, {})
  <2>1. data.userAnswers = 0
    BY DEF Init
  <2>. QED BY <1>2, <1>3, <2>1 DEF Sound, StepNumbers
<1>5. Typed /\ Tied /\ \A r \in Requests : req[r] = None
  BY DEF Init, QuotaInit, Typed, Tied
<1>6. Calm
  BY <1>5 DEF Init, Calm, Kept
<1>. QED BY <1>4, <1>5, <1>6 DEF Init, SInv

-----------------------------------------------------------------------------
(* A card that has been passed twice in a row waits six days or more.      *)
SoundCard(c) ==
  /\ c \in Card
  /\ c.ease >= MinEase
  /\ c.repetitions = 1 => c.interval = 1
  /\ c.repetitions > 1 => c.interval >= 6

CInv ==
  /\ card \in Card \cup {None} /\ (card # None => SoundCard(card))
  /\ rating \in [Requests -> Rating \cup {None}]
  /\ \A r \in Requests : rating[r] # None => SoundCard(rating[r].read)

(* The ease makes the next interval at least 1.3 times the last one.       *)
LEMMA Grows ==
  ASSUME NEW i \in Nat, NEW e \in Nat, i >= 6, e >= 130
  PROVE  (i * e + 50) \div 100 > i /\ (i * e + 50) \div 100 \in Nat
<1>1. e = 130 + (e - 130) /\ e - 130 \in Nat
  OBVIOUS
<1>2. i * e = 130 * i + i * (e - 130)
  BY <1>1
<1>3. i * (e - 130) \in Nat
  BY <1>1
<1> DEFINE p == i * e
<1>4. p \in Nat /\ p >= 130 * i
  BY <1>2, <1>3
<1> HIDE DEF p
<1>5. (p + 50) \div 100 > i /\ (p + 50) \div 100 \in Nat
  BY <1>4
<1>. QED BY <1>5 DEF p

LEMMA NextSound ==
  ASSUME NEW c, SoundCard(c), NEW q \in Qualities
  PROVE  /\ SoundCard(CalculateNextReview(q, c))
         /\ Passes(q) /\ c.repetitions > 0 => CalculateNextReview(q, c).interval > c.interval
<1> DEFINE d == CalculateNextReview(q, c)
<1>1. c.ease \in Nat /\ c.interval \in Nat /\ c.repetitions \in Nat
  BY DEF SoundCard, Card
<1>2. q \in {1, 2, 3, 5}
  BY DEF Qualities
<1>3. NextEase(c.ease, q) \in Nat /\ NextEase(c.ease, q) >= MinEase
  <2> DEFINE e == c.ease + 10 - (5 - q) * (8 + (5 - q) * 2)
  <2>1. e \in Int
    BY <1>1, <1>2
  <2>2. NextEase(c.ease, q) = IF e > MinEase THEN e ELSE MinEase
    BY DEF NextEase
  <2> HIDE DEF e
  <2>. QED BY <2>1, <2>2 DEF MinEase
<1>4. /\ c.repetitions = 0 => NextInterval(c) = 1
      /\ c.repetitions = 1 => NextInterval(c) = 6
      /\ c.repetitions > 1 => NextInterval(c) = (c.interval * c.ease + 50) \div 100
  BY <1>1 DEF NextInterval
<1>5. c.repetitions > 1 => NextInterval(c) > c.interval /\ NextInterval(c) \in Nat /\ c.interval >= 6
  BY <1>1, <1>4, Grows DEF SoundCard, MinEase
<1>6. NextInterval(c) \in Nat /\ (c.repetitions > 0 => NextInterval(c) > c.interval /\ NextInterval(c) >= 6)
  BY <1>1, <1>4, <1>5 DEF SoundCard
<1>7. /\ d.ease = NextEase(c.ease, q)
      /\ d.interval = IF Passes(q) THEN NextInterval(c) ELSE 1
      /\ d.repetitions = IF Passes(q) THEN c.repetitions + 1 ELSE 0
      /\ d = [ease |-> d.ease, interval |-> d.interval, repetitions |-> d.repetitions]
  BY DEF CalculateNextReview
<1> HIDE DEF d
<1>8. d \in Card
  BY <1>1, <1>3, <1>6, <1>7 DEF Card
<1>9. SoundCard(d)
  BY <1>1, <1>3, <1>4, <1>6, <1>7, <1>8 DEF SoundCard
<1>. QED BY <1>6, <1>7, <1>9 DEF d

LEMMA CardsKeep == ASSUME CInv, [Next]_vars PROVE CInv'
<1>1. CASE UNCHANGED cardVars
  BY <1>1 DEF CInv, cardVars
<1>2. CASE Crash
  BY <1>2 DEF CInv, Crash
<1>3. ASSUME NEW r \in Requests, ReviewCard(r) PROVE CInv'
  <2>1. PICK q \in Qualities : rating' = [rating EXCEPT ![r] = [quality |-> q, read |-> card]]
    BY <1>3 DEF ReviewCard
  <2>2. card \in Card /\ SoundCard(card) /\ card' = card
    BY <1>3 DEF ReviewCard, CInv
  <2> DEFINE t == [quality |-> q, read |-> card]
  <2>3. t \in Rating /\ t.read = card
    BY <2>2 DEF Rating
  <2> HIDE DEF t
  <2>4. rating' = [rating EXCEPT ![r] = t]
    BY <2>1 DEF t
  <2>5. rating' \in [Requests -> Rating \cup {None}]
    BY <2>3, <2>4 DEF CInv
  <2>6. \A s \in Requests : rating'[s] # None => SoundCard(rating'[s].read)
    BY <2>2, <2>3, <2>4 DEF CInv
  <2>. QED BY <2>2, <2>5, <2>6 DEF CInv
<1>4. ASSUME NEW r \in Requests, StoreReview(r) PROVE CInv'
  <2>1. rating[r] \in Rating /\ SoundCard(rating[r].read) /\ rating[r].quality \in Qualities
    BY <1>4 DEF StoreReview, CInv, Rating
  <2>2. rating' = [rating EXCEPT ![r] = None]
    BY <1>4 DEF StoreReview
  <2>3. card' = card \/ (card' = CalculateNextReview(rating[r].quality, rating[r].read))
    BY <1>4 DEF StoreReview
  <2>4. card' \in Card \cup {None} /\ (card' # None => SoundCard(card'))
    <3>1. SoundCard(CalculateNextReview(rating[r].quality, rating[r].read))
      BY <2>1, NextSound
    <3>. QED BY <2>3, <3>1 DEF CInv, SoundCard
  <2>5. rating' \in [Requests -> Rating \cup {None}]
        /\ \A s \in Requests : rating'[s] # None => SoundCard(rating'[s].read)
    BY <2>2 DEF CInv
  <2>. QED BY <2>4, <2>5 DEF CInv
<1>5. CASE DeleteCard
  BY <1>5 DEF DeleteCard, CInv
<1>6. \/ UNCHANGED cardVars \/ Crash \/ DeleteCard
      \/ \E r \in Requests : ReviewCard(r) \/ StoreReview(r)
  <2>1. CASE UNCHANGED vars
    BY <2>1 DEF vars, cardVars
  <2>2. CASE Cards
    BY <2>2 DEF Cards
  <2>3. CASE NextDay
    BY <2>3 DEF NextDay, sessionVars, cardVars
  <2>4. ASSUME NEW r \in Requests,
               CheckStepResponse(r) \/ AdvanceStep(r) \/ AskQuestion(r) \/ Complete(r)
                 \/ SubmitPracticeTestAnswers(r)
        PROVE  UNCHANGED cardVars
    BY <2>4 DEF CheckStepResponse, AdvanceStep, AskQuestion, Complete, SubmitPracticeTestAnswers, Reads
  <2>5. ASSUME NEW r \in Requests,
               StoreCheck(r) \/ StoreStep(r) \/ StoreAnswer(r) \/ StoreCompleted(r)
                 \/ StoreTest(r) \/ Fail(r)
        PROVE  UNCHANGED cardVars
    BY <2>5 DEF StoreCheck, StoreStep, StoreAnswer, StoreCompleted, StoreTest, Fail, Ends
  <2>6. ASSUME NEW r \in Requests, Calls(r) PROVE UNCHANGED cardVars
    BY <2>6 DEF Calls, sessionVars, cardVars
  <2>. QED BY <2>1, <2>2, <2>3, <2>4, <2>5, <2>6 DEF Next
<1>. QED BY <1>1, <1>2, <1>3, <1>4, <1>5, <1>6

LEMMA CardInitial == ASSUME Init PROVE CInv
<1>1. SoundCard(NewCard)
  BY DEF SoundCard, NewCard, Card, MinEase
<1>. QED BY <1>1 DEF Init, CInv, SoundCard

(* Whatever handlers overlap and whichever calls fail, the stored session  *)
(* and every session that a handler has read are sound, as are the cards.  *)
THEOREM Invariance == Spec => [](QInv /\ SInv /\ CInv)
<1>1. Init => QInv /\ SInv /\ CInv
  BY QuotaInitial, SessionInitial, CardInitial DEF Init
<1>2. (QInv /\ SInv /\ CInv) /\ [Next]_vars => (QInv /\ SInv /\ CInv)'
  BY EachStep, QuotaKeeps, SessionKeeps, CardsKeep
<1>. QED BY <1>1, <1>2, PTL DEF Spec

(* The variables keep their types, and calls belong to handlers that ask.  *)
THEOREM TypeCorrect == Spec => []TypeOK
<1>1. QInv /\ SInv /\ CInv => TypeOK
  <2>1. ASSUME right \in SUBSET (1..given) PROVE right \in SUBSET Nat
    BY <2>1
  <2>. QED BY <2>1 DEF QInv, SInv, CInv, Typed, Tied, Sound, TypeOK
<1>. QED BY <1>1, Invariance, PTL

(* The student is at a step only when every step before it is passed, also *)
(* after checks that wrote back old results.                               *)
THEOREM StepsInOrderAlways == Spec => []StepsInOrder
<1>1. SInv => StepsInOrder
  BY DEF SInv, Sound, StepsInOrder
<1>. QED BY <1>1, Invariance, PTL

(* A passed step has a right answer or as many answers as are allowed.     *)
THEOREM PassEarnedAlways == Spec => []PassEarned
<1>1. ASSUME SInv PROVE PassEarned
  <2>1. ASSUME NEW n \in StepNumbers, data.stepResults[n].passed
        PROVE  \/ data.stepResults[n].userResponses \cap right # {}
               \/ Cardinality(data.stepResults[n].userResponses) >= MaxAttemptsAllowed
    <3>1. SoundResult(data.stepResults[n], given, right)
      BY <1>1 DEF SInv, Sound
    <3>. QED BY <2>1, <3>1 DEF SoundResult
  <2>. QED BY <2>1 DEF PassEarned
<1>. QED BY <1>1, Invariance, PTL

(* While no two requests overlap, no answer is lost.                       *)
THEOREM AnswersKeptAlways == Spec => []AnswersKept
<1>1. SInv => AnswersKept
  BY DEF SInv, Calm, Kept, AnswersKept
<1>. QED BY <1>1, Invariance, PTL

(* A test's stored results are those of the answers stored with them.      *)
THEOREM ResultsOfAnswersAlways == Spec => []ResultsOfAnswers
<1>1. SInv => ResultsOfAnswers
  BY DEF SInv, Sound, ResultsOfAnswers
<1>. QED BY <1>1, Invariance, PTL

(* A good rating shows the card later than the last one, whatever ratings  *)
(* were given before or at the same time.                                  *)
THEOREM LaterEachTimeAlways == Spec => []LaterEachTime
<1>1. CInv => LaterEachTime
  BY NextSound DEF CInv, LaterEachTime
<1>. QED BY <1>1, Invariance, PTL
-----------------------------------------------------------------------------
(* Nothing is taken back while no two requests overlap: a handler that     *)
(* stores something has read the session as it still is.                   *)
LEMMA SameForward == ASSUME SInv, data' = data PROVE Forward
  BY DEF Forward, SInv, Sound, SessionData

LEMMA ReadNow ==
  ASSUME SInv, ~overlap, NEW r \in Requests, req[r] # None
  PROVE  req[r].read = data /\ Calm
  BY DEF SInv, Calm

LEMMA StoreForward ==
  ASSUME SInv, ~overlap, NEW r \in Requests,
         StoreCheck(r) \/ StoreStep(r) \/ StoreAnswer(r) \/ StoreTest(r)
  PROVE  Forward
<1>1. /\ data \in SessionData /\ given \in Nat
      /\ data.stepResults \in [StepNumbers -> StepResult]
      /\ data.currentStep \in StepNumbers
  BY DEF SInv, Typed, Sound, SessionData
<1>2. req[r] # None /\ req[r].read = data /\ Calm
  BY ReadNow DEF StoreCheck, StoreStep, StoreAnswer, StoreTest, Runs
<1>3. CASE StoreCheck(r)
  <2>1. PICK isCorrect \in BOOLEAN :
          data' = [data EXCEPT !.stepResults[req[r].step] = Checked(@, given + 1, isCorrect)]
    BY <1>2, <1>3 DEF StoreCheck
  <2> DEFINE m == req[r].step
             c == Checked(data.stepResults[m], given + 1, isCorrect)
  <2>2. ~data.stepResults[m].passed
    BY <1>2, <1>3 DEF StoreCheck, Runs, SInv, SoundHandler
  <2>3. c.userResponses = data.stepResults[m].userResponses \cup {given + 1}
    BY DEF Checked
  <2> HIDE DEF m, c
  <2>4. data' = [data EXCEPT !.stepResults = [data.stepResults EXCEPT ![m] = c]]
    BY <2>1 DEF m, c
  <2>5. /\ data'.stepResults = [data.stepResults EXCEPT ![m] = c]
        /\ data'.currentStep = data.currentStep
        /\ data'.conversation = data.conversation
        /\ data'.userAnswers = data.userAnswers
    BY <1>1, <2>4 DEF SessionData
  <2>6. \A n \in StepNumbers :
          /\ data.stepResults[n].passed => data'.stepResults[n].passed
          /\ data.stepResults[n].userResponses \subseteq data'.stepResults[n].userResponses
    <3> SUFFICES ASSUME NEW n \in StepNumbers
                 PROVE  /\ data.stepResults[n].passed => data'.stepResults[n].passed
                        /\ data.stepResults[n].userResponses \subseteq data'.stepResults[n].userResponses
      OBVIOUS
    <3>1. CASE n = m
      BY <1>1, <2>2, <2>3, <2>5, <3>1
    <3>2. CASE n # m
      BY <1>1, <2>5, <3>2
    <3>. QED BY <3>1, <3>2
  <2>. QED BY <2>5, <2>6 DEF Forward
<1>4. CASE StoreStep(r)
  <2>1. PICK k \in {data.currentStep, data.currentStep + 1} : data' = [data EXCEPT !.currentStep = k]
    <3>1. CASE data.currentStep + 1 > StepCount
      <4>1. data.currentStep = StepCount
        BY <1>1, <3>1, LearningAssumption DEF StepNumbers
      <4>. QED BY <1>2, <1>4, <3>1, <4>1 DEF StoreStep
    <3>2. CASE ~(data.currentStep + 1 > StepCount)
      BY <1>2, <1>4, <3>2 DEF StoreStep
    <3>. QED BY <3>1, <3>2
  <2>. QED BY <1>1, <2>1 DEF Forward, SessionData
<1>5. CASE StoreAnswer(r)
  <2>1. data' = [data EXCEPT !.conversation = data.conversation \cup {given + 1}]
    BY <1>2, <1>5 DEF StoreAnswer
  <2>. QED BY <1>1, <2>1 DEF Forward, SessionData
<1>6. CASE StoreTest(r)
  <2>1. PICK isCorrect \in BOOLEAN :
          data' = [data EXCEPT !.userAnswers = given + 1, !.correct = isCorrect]
    BY <1>2, <1>6 DEF StoreTest
  <2>2. type = "PRACTICE_TESTING"
    BY <1>2, <1>6 DEF StoreTest, Runs, SInv, SoundHandler
  <2>3. data.userAnswers = 0
    BY <1>1, <1>2, <2>2 DEF Calm, SInv, Sound, SessionData
  <2>. QED BY <1>1, <2>1, <2>3 DEF Forward, SessionData
<1>. QED BY <1>3, <1>4, <1>5, <1>6

LEMMA StepForward ==
  ASSUME SInv, [Next]_vars
  PROVE  (status = "COMPLETED" => status' = "COMPLETED") /\ (~overlap' => Forward)
<1> DEFINE Stays == status' = status /\ data' = data
           Goal == (status = "COMPLETED" => status' = "COMPLETED") /\ (~overlap' => Forward)
<1>1. ASSUME data' = data, status' \in {status, "COMPLETED"} PROVE Goal
  BY <1>1, SameForward
<1>2. ASSUME NEW r \in Requests, StoreCheck(r) \/ StoreStep(r) \/ StoreAnswer(r) \/ StoreTest(r)
      PROVE  Goal
  <2>1. overlap' = overlap
    BY <1>2 DEF StoreCheck, StoreStep, StoreAnswer, StoreTest, Ends
  <2>2. status' \in {status, "COMPLETED"}
    BY <1>2 DEF StoreCheck, StoreStep, StoreAnswer, StoreTest
  <2>. QED BY <1>2, <2>1, <2>2, StoreForward
<1>3. ASSUME NEW r \in Requests,
             CheckStepResponse(r) \/ AdvanceStep(r) \/ AskQuestion(r) \/ Complete(r)
               \/ SubmitPracticeTestAnswers(r)
      PROVE  Stays
  BY <1>3 DEF CheckStepResponse, AdvanceStep, AskQuestion, Complete, SubmitPracticeTestAnswers, Reads
<1>4. ASSUME NEW r \in Requests, StoreCompleted(r) PROVE Goal
  BY <1>1, <1>4 DEF StoreCompleted
<1>5. ASSUME NEW r \in Requests, Fail(r) \/ Calls(r) PROVE Stays
  BY <1>5 DEF Fail, Calls, sessionVars
<1>6. ASSUME Cards \/ NextDay \/ Crash \/ UNCHANGED vars PROVE Goal
  <2>1. Stays
    BY <1>6 DEF Cards, NextDay, Crash, sessionVars, vars
  <2>. QED BY <2>1, <1>1
<1>7. Stays => Goal
  BY <1>1
<1> HIDE DEF Stays, Goal
<1>8. Goal
  BY <1>2, <1>3, <1>4, <1>5, <1>6, <1>7 DEF Next
<1>. QED BY <1>8 DEF Goal

(* A completed session stays so; while no two requests overlap, no step,   *)
(* pass or answer is taken back and the student moves one step at a time.  *)
THEOREM NothingTakenBackAlways == Spec => NothingTakenBack
<1>1. SInv /\ [Next]_vars =>
        [(status = "COMPLETED" => status' = "COMPLETED") /\ (~overlap' => Forward)]_vars
  BY StepForward
<1>. QED BY <1>1, Invariance, PTL DEF Spec, NothingTakenBack
-----------------------------------------------------------------------------
(* SM-2 is monotone in the rating.                                         *)
LEMMA EaseGrows ==
  ASSUME NEW e \in Nat, NEW p \in Qualities, NEW q \in Qualities, p <= q
  PROVE  NextEase(e, p) <= NextEase(e, q)
<1> DEFINE f(x) == e + 10 - (5 - x) * (8 + (5 - x) * 2)
<1>1. /\ f(1) = e - 54 /\ f(2) = e - 32
      /\ f(3) = e - 14 /\ f(5) = e + 10
  OBVIOUS
<1>2. \A x \in Qualities : NextEase(e, x) = IF f(x) > MinEase THEN f(x) ELSE MinEase
  BY DEF NextEase
<1> HIDE DEF f
<1>3. f(p) \in Int /\ f(q) \in Int /\ f(p) <= f(q)
  BY <1>1 DEF Qualities
<1>. QED BY <1>2, <1>3 DEF MinEase

LEMMA BetterLater ==
  ASSUME NEW c, SoundCard(c), NEW p \in Qualities, NEW q \in Qualities, p <= q
  PROVE  /\ CalculateNextReview(p, c).interval <= CalculateNextReview(q, c).interval
         /\ CalculateNextReview(p, c).ease <= CalculateNextReview(q, c).ease
<1>1. c.ease \in Nat /\ c.interval \in Nat /\ c.repetitions \in Nat
  BY DEF SoundCard, Card
<1>2. \A x \in Qualities :
        /\ CalculateNextReview(x, c).ease = NextEase(c.ease, x)
        /\ CalculateNextReview(x, c).interval = IF Passes(x) THEN NextInterval(c) ELSE 1
  BY DEF CalculateNextReview
<1>3. NextInterval(c) \in Nat /\ NextInterval(c) >= 1
  <2>1. CASE c.repetitions = 0 \/ c.repetitions = 1
    BY <2>1 DEF NextInterval
  <2>2. CASE c.repetitions > 1
    <3>1. c.interval >= 6 /\ c.ease >= 130
      BY <2>2 DEF SoundCard, MinEase
    <3>2. NextInterval(c) = (c.interval * c.ease + 50) \div 100
      BY <1>1, <2>2 DEF NextInterval
    <3>3. NextInterval(c) > c.interval /\ NextInterval(c) \in Nat
      BY <1>1, <3>1, <3>2, Grows
    <3>. QED BY <1>1, <3>1, <3>3
  <2>. QED BY <1>1, <2>1, <2>2
<1>4. Passes(p) => Passes(q)
  BY DEF Passes, Qualities
<1>. QED BY <1>1, <1>2, <1>3, <1>4, EaseGrows

(* A better rating never shows a card earlier or leaves it less ease.      *)
THEOREM BetterIsLaterAlways == Spec => []BetterIsLater
<1>1. CInv => BetterIsLater
  BY BetterLater DEF CInv, BetterIsLater
<1>. QED BY <1>1, Invariance, PTL
=============================================================================
