------------------------------ MODULE LlmQuota ------------------------------
(***************************************************************************)
(* The daily spend cap of one key: LlmService checks the day's spend before *)
(* a call and adds the cost after it, so that calls in flight at the same  *)
(* time overshoot the cap, and a call over midnight is paid for on the new *)
(* day.  One counter in Redis per UTC day, incremented atomically.         *)
(*                                                                         *)
(* Costs are whole units, a unit as small as the rounding error of a       *)
(* double; the cap is configured (without it nothing is refused).  A       *)
(* module that makes calls extends this one, asks with Ask and reads the   *)
(* outcome from call.                                                      *)
(***************************************************************************)
EXTENDS Integers, FiniteSets

CONSTANTS Requests,  \* executions that call the model, one call at a time
          Cap,       \* LLM_DAILY_COST_CAP_USD
          MaxCost,   \* the most a call costs
          MaxDay,    \* bound of the model: midnights in a behaviour
          Faults     \* subset of {"db", "redis", "crash"}

ASSUME QuotaAssumption ==
  IsFiniteSet(Requests) /\ Cap \in Nat \ {0} /\ MaxCost \in Nat /\ MaxDay \in Nat

VARIABLES day,     \* the UTC calendar day
          spent,   \* the Redis counter of each day
          alerts,  \* USAGE_QUOTA_EXCEEDED events of each day
          lost,    \* history: days with a crossing not seen, rounded away or not stored
          call     \* each execution's call and what it costs

quotaVars == <<day, spent, alerts, lost, call>>
-----------------------------------------------------------------------------
Days == 0..MaxDay

NoCall == [at |-> "idle", cost |-> 0]

InFlight == {c \in Requests : call[c].at \in {"allowed", "billed"}}

QuotaInit ==
  /\ day = 0
  /\ spent = [d \in Days |-> 0]
  /\ alerts = [d \in Days |-> 0]
  /\ lost = {}
  /\ call = [c \in Requests |-> NoCall]

Becomes(c, at) == call' = [call EXCEPT ![c].at = at]

(* callLlmForUser() is called ... *)
Ask(c) == call[c] = NoCall /\ Becomes(c, "asked") /\ UNCHANGED <<day, spent, alerts, lost>>

(* Mutant: a day's spend may reach the cap before calls are refused. *)
AssertNotAbove(c) ==
  /\ call[c].at = "asked"
  /\ \/ spent[day] <= Cap /\ Becomes(c, "allowed")
     \/ spent[day] > Cap /\ Becomes(c, "failed")
     \/ "redis" \in Faults /\ Becomes(c, "failed")
  /\ UNCHANGED <<day, spent, alerts, lost>>

AssertNotExceeded(c) ==
  /\ call[c].at = "asked"
  /\ \/ spent[day] < Cap /\ Becomes(c, "allowed")
     \/ spent[day] >= Cap /\ Becomes(c, "failed")
     \/ "redis" \in Faults /\ Becomes(c, "failed")
  /\ UNCHANGED <<day, spent, alerts, lost>>

(* The provider answers, for a price, or fails.  A model without a price   *)
(* costs nothing.                                                          *)
CallLlm(c) ==
  /\ call[c].at = "allowed"
  /\ \/ \E x \in 0..MaxCost : call' = [call EXCEPT ![c] = [at |-> "billed", cost |-> x]]
     \/ Becomes(c, "failed")
  /\ UNCHANGED <<day, spent, alerts, lost>>

(* Mutant: a total that is exactly the cap does not cross it. *)
AlertAbove ==
  \E previous \in (spent[day] - 1)..(spent[day] + 1), stored \in BOOLEAN :
    LET crossed == previous < Cap /\ spent'[day] > Cap
    IN /\ IF Faults \cap {"db", "crash"} = {} THEN stored = crossed ELSE stored => crossed
       /\ alerts' = IF stored THEN [alerts EXCEPT ![day] = @ + 1] ELSE alerts
       /\ lost' = IF (crossed /\ ~stored) \/ (spent[day] < Cap /\ previous >= Cap)
                  THEN lost \cup {day} ELSE lost

(* Whether this call pushed the day's total over the cap.  previousTotal   *)
(* is newTotal - costUsd in doubles, one unit off at the worst.  The event *)
(* is stored in the background, and nobody hears when that fails.          *)
Alert ==
  \E previous \in (spent[day] - 1)..(spent[day] + 1), stored \in BOOLEAN :
    LET crossed == previous < Cap /\ spent'[day] >= Cap
    IN /\ IF Faults \cap {"db", "crash"} = {} THEN stored = crossed ELSE stored => crossed
       /\ alerts' = IF stored THEN [alerts EXCEPT ![day] = @ + 1] ELSE alerts
       /\ lost' = IF (crossed /\ ~stored) \/ (spent[day] < Cap /\ previous >= Cap)
                  THEN lost \cup {day} ELSE lost

(* Recorded on the day on which the call ends.  When the price is not read *)
(* or the counter not reached, the call fails although it was billed; when *)
(* the counter's answer is lost, its expire() fails or the API dies before *)
(* the answer ("counted"), nobody looks whether the cap was crossed.       *)
RecordSpend(c) ==
  /\ call[c].at = "billed"
  /\ \/ /\ call[c].cost = 0
        /\ Becomes(c, "answered")
        /\ UNCHANGED <<spent, alerts, lost>>
     \/ /\ "db" \in Faults \/ ("redis" \in Faults /\ call[c].cost > 0)
        /\ Becomes(c, "failed")
        /\ UNCHANGED <<spent, alerts, lost>>
     \/ /\ call[c].cost > 0
        /\ spent' = [spent EXCEPT ![day] = @ + call[c].cost]
        /\ \/ Becomes(c, "answered") /\ Alert
           \/ /\ \/ "redis" \in Faults /\ Becomes(c, "failed")
                 \/ "crash" \in Faults /\ Becomes(c, "counted")
              /\ lost' = lost \cup {day}
              /\ UNCHANGED alerts
  /\ UNCHANGED day

(* ... and returns to its caller. *)
Return(c) ==
  /\ call[c].at \in {"answered", "failed"}
  /\ call' = [call EXCEPT ![c] = NoCall]
  /\ UNCHANGED <<day, spent, alerts, lost>>

Midnight == day < MaxDay /\ day' = day + 1 /\ UNCHANGED <<spent, alerts, lost, call>>

(* The API dies with its calls. *)
QuotaCrash ==
  /\ "crash" \in Faults
  /\ call' = [c \in Requests |-> NoCall]
  /\ UNCHANGED <<day, spent, alerts, lost>>

Calling(c) == AssertNotExceeded(c) \/ CallLlm(c) \/ RecordSpend(c)

QuotaNext ==
  \/ \E c \in Requests : Ask(c) \/ Calling(c) \/ Return(c)
  \/ Midnight \/ QuotaCrash

QuotaSpec == QuotaInit /\ [][QuotaNext]_quotaVars
-----------------------------------------------------------------------------
QuotaTypeOK ==
  /\ day \in Days
  /\ spent \in [Days -> Nat]
  /\ alerts \in [Days -> Nat]
  /\ lost \in SUBSET Days
  /\ call \in [Requests -> [at : {"idle", "asked", "allowed", "billed", "counted", "answered",
                                  "failed"},
                            cost : 0..MaxCost]]

(* "a burst of concurrent requests can overshoot the cap slightly"         *)
(* (llm-usage-quota.service.ts:31-32): by the calls in flight at a time,   *)
(* also on a day that begins with calls of the day before.                 *)
CapHeld == \A d \in Days : spent[d] <= Cap - 1 + MaxCost * Cardinality(Requests)

(* No day below the cap has an alert, and none has more than two: the one  *)
(* of the call that crosses the cap, and, when the total was at the cap to *)
(* the unit, that of the next one, for which previousTotal may be rounded  *)
(* below the cap.  A day that reached the cap has none only when the       *)
(* crossing was not seen, rounded away or not stored: it cannot get lost   *)
(* between two calls.  "fires once per user per day, not on repeat"        *)
(* (recordSpend()) is more than the code keeps.                            *)
AlertedAtCap == \A d \in Days :
  /\ spent[d] < Cap => alerts[d] = 0
  /\ alerts[d] <= IF spent[d] = Cap THEN 1 ELSE 2
  /\ spent[d] >= Cap => alerts[d] > 0 \/ d \in lost
=============================================================================
