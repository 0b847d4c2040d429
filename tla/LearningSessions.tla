-------------------------- MODULE LearningSessions --------------------------
(***************************************************************************)
(* A student's learning intervention: a text read step by step with a      *)
(* question after each step (STEPWISE_LEARNING), a conversation about it   *)
(* (INTERROGATIVE_ELABORATION), a test (PRACTICE_TESTING), or a flashcard  *)
(* (DISTRIBUTED_PRACTICE).  The row's sessionData is one JSON value: a     *)
(* handler reads it, often asks the model through LlmQuota, and writes the *)
(* whole value back.  A check whose call fails, for the quota as for any   *)
(* other reason, counts as an attempt.                                     *)
(*                                                                         *)
(* An answer that the student got a response to is known by its number.    *)
(* Left out: the texts, feedback, summaries, questionsAsked (half the      *)
(* conversation), stepResults of steps that nobody answered.  A test has   *)
(* one short answer that needs the model, or none.                         *)
(***************************************************************************)
EXTENDS LlmQuota, SpacedRepetition

CONSTANTS StepCount,           \* steps.length
          MaxAttemptsAllowed,
          None,                \* no handler
          MaxRequests,         \* bound of the model: requests in a behaviour
          MaxReviews           \* bound of the model: ratings in a behaviour

ASSUME LearningAssumption ==
  /\ StepCount \in Nat \ {0} /\ MaxAttemptsAllowed \in Nat \ {0}
  /\ MaxRequests \in Nat /\ MaxReviews \in Nat

VARIABLES type, status,  \* columns of learning_interventions
          data,          \* its sessionData
          card,          \* the row of spaced_repetition_cards
          req,           \* the handler each request runs, and the data it has read
          rating,        \* the rating each request stores, and the card it has read
          given,         \* history: answers that students got
          right,         \* history: those that the model judged correct
          overlap,       \* history: two requests have overlapped
          loads          \* requests so far

cardVars == <<card, rating>>
vars == <<day, spent, alerts, lost, call, type, status, data, req, given, right, overlap, loads,
          card, rating>>
-----------------------------------------------------------------------------
StepNumbers == 1..StepCount

StepResult == [attempts : Nat, passed : BOOLEAN, userResponses : SUBSET Nat]

SessionData == [currentStep  : StepNumbers,
                stepResults  : [StepNumbers -> StepResult],
                conversation : SUBSET Nat,
                userAnswers  : Nat,      \* 0: none
                correct      : BOOLEAN]  \* in results

Types == {"STEPWISE_LEARNING", "INTERROGATIVE_ELABORATION", "PRACTICE_TESTING", "DISTRIBUTED_PRACTICE"}

(* The handlers that ask the model. *)
Asking == {"checkStepResponse", "askQuestion", "submitPracticeTestAnswers", "complete"}

Handler == [op : Asking \cup {"advanceStep"}, step : StepNumbers, read : SessionData]

Rating == [quality : Qualities, read : Card]

ASSUME NoneAssumption == None \notin Handler \cup Rating \cup Card

NoResult == [attempts |-> 0, passed |-> FALSE, userResponses |-> {}]

Init ==
  /\ QuotaInit
  /\ type \in Types
  /\ status = IF type = "DISTRIBUTED_PRACTICE" THEN "COMPLETED" ELSE "IN_PROGRESS"
  /\ data = [currentStep |-> 1, stepResults |-> [n \in StepNumbers |-> NoResult], conversation |-> {},
             userAnswers |-> 0, correct |-> FALSE]
  /\ card = IF type = "DISTRIBUTED_PRACTICE" THEN NewCard ELSE None
  /\ req = [r \in Requests |-> None]
  /\ rating = [r \in Requests |-> None]
  /\ given = 0
  /\ right = {}
  /\ overlap = FALSE
  /\ loads = 0
-----------------------------------------------------------------------------
(* findUnique() in a handler that goes on. *)
Reads(r, op, n) ==
  /\ req[r] = None
  /\ loads < MaxRequests
  /\ loads' = loads + 1
  /\ req' = [req EXCEPT ![r] = [op |-> op, step |-> n, read |-> data]]
  /\ overlap' = (overlap \/ \E q \in Requests : req[q] # None)
  /\ UNCHANGED <<type, status, data, given, right>> /\ UNCHANGED cardVars

Runs(r, op) == req[r] # None /\ req[r].op = op

Ends(r) == req' = [req EXCEPT ![r] = None] /\ UNCHANGED <<overlap, loads>> /\ UNCHANGED cardVars

CheckStepResponse(r) ==
  /\ type = "STEPWISE_LEARNING" /\ status # "COMPLETED"
  /\ \E n \in StepNumbers :
       /\ ~data.stepResults[n].passed
       /\ Reads(r, "checkStepResponse", n)
  /\ Ask(r)

(* Mutant: the last attempt comes one too early.                           *)
CheckedEarly(result, a, isCorrect) ==
  [attempts      |-> result.attempts + 1,
   passed        |-> isCorrect \/ result.attempts + 2 >= MaxAttemptsAllowed,
   userResponses |-> result.userResponses \cup {a}]

(* Judged, or not: the answer is stored, and the last attempt passes. *)
Checked(result, a, isCorrect) ==
  [attempts      |-> result.attempts + 1,
   passed        |-> isCorrect \/ result.attempts + 1 >= MaxAttemptsAllowed,
   userResponses |-> result.userResponses \cup {a}]

(* Mutant: the results are merged into the row as it is by now. *)
StoreMerges(r) ==
  /\ Runs(r, "checkStepResponse")
  /\ Return(r) /\ Ends(r)
  /\ given' = given + 1
  /\ \E isCorrect \in IF call[r].at = "answered" THEN BOOLEAN ELSE {FALSE} :
       /\ data' = [data EXCEPT !.stepResults =
                     [req[r].read.stepResults EXCEPT ![req[r].step] = Checked(@, given + 1, isCorrect)]]
       /\ right' = IF isCorrect THEN right \cup {given + 1} ELSE right
  /\ UNCHANGED <<type, status>>

StoreCheck(r) ==
  /\ Runs(r, "checkStepResponse")
  /\ Return(r) /\ Ends(r)
  /\ given' = given + 1
  /\ \E isCorrect \in IF call[r].at = "answered" THEN BOOLEAN ELSE {FALSE} :
       /\ data' = [req[r].read EXCEPT !.stepResults[req[r].step] = Checked(@, given + 1, isCorrect)]
       /\ right' = IF isCorrect THEN right \cup {given + 1} ELSE right
  /\ UNCHANGED <<type, status>>

(* advanceStep() *)
AdvanceStep(r) ==
  /\ type = "STEPWISE_LEARNING"
  /\ data.stepResults[data.currentStep].passed
  /\ Reads(r, "advanceStep", data.currentStep)
  /\ UNCHANGED quotaVars

(* Mutant: nobody looks whether there is a next step. *)
StorePastEnd(r) ==
  /\ Runs(r, "advanceStep")
  /\ Ends(r)
  /\ data' = [req[r].read EXCEPT !.currentStep = @ + 1]
  /\ UNCHANGED <<type, status, given, right>> /\ UNCHANGED quotaVars

StoreStep(r) ==
  /\ Runs(r, "advanceStep")
  /\ Ends(r)
  /\ LET nextStep == req[r].read.currentStep + 1
     IN \/ /\ nextStep > StepCount
           /\ status' = "COMPLETED"
           /\ data' = [req[r].read EXCEPT !.currentStep = StepCount]
        \/ /\ nextStep <= StepCount
           /\ data' = [req[r].read EXCEPT !.currentStep = nextStep]
           /\ UNCHANGED status
  /\ UNCHANGED <<type, given, right>> /\ UNCHANGED quotaVars
-----------------------------------------------------------------------------
(* askQuestion() does not look at the status. *)
AskQuestion(r) ==
  /\ type = "INTERROGATIVE_ELABORATION"
  /\ Reads(r, "askQuestion", 1)
  /\ Ask(r)

(* Mutant: only the last answer is stored. *)
AnswerAlone(r) ==
  /\ Runs(r, "askQuestion") /\ call[r].at = "answered"
  /\ Return(r) /\ Ends(r)
  /\ given' = given + 1
  /\ data' = [req[r].read EXCEPT !.conversation = {given + 1}]
  /\ UNCHANGED <<type, status, right>>

StoreAnswer(r) ==
  /\ Runs(r, "askQuestion") /\ call[r].at = "answered"
  /\ Return(r) /\ Ends(r)
  /\ given' = given + 1
  /\ data' = [req[r].read EXCEPT !.conversation = @ \cup {given + 1}]
  /\ UNCHANGED <<type, status, right>>

(* completeStepwiseSession(), and completeElaborationSession(), which asks *)
(* for a summary of a conversation and makes one up when the call fails.   *)
Complete(r) ==
  /\ type \in {"STEPWISE_LEARNING", "INTERROGATIVE_ELABORATION"}
  /\ Reads(r, "complete", 1)
  /\ IF type = "INTERROGATIVE_ELABORATION" /\ data.conversation # {}
     THEN Ask(r) ELSE UNCHANGED quotaVars

StoreCompleted(r) ==
  /\ Runs(r, "complete") /\ Ends(r)
  /\ IF call[r] = NoCall THEN UNCHANGED quotaVars ELSE Return(r)
  /\ status' = "COMPLETED"
  /\ UNCHANGED <<type, data, given, right>>
-----------------------------------------------------------------------------
(* A short answer is judged by the model; the others, and a short answer   *)
(* whose call fails, by comparison.                                        *)
SubmitPracticeTestAnswers(r) ==
  /\ type = "PRACTICE_TESTING" /\ status # "COMPLETED"
  /\ Reads(r, "submitPracticeTestAnswers", 1)
  /\ Ask(r) \/ UNCHANGED quotaVars

(* Mutant: the answers stored by another submission are left in place. *)
StoreResultsOnly(r) ==
  /\ Runs(r, "submitPracticeTestAnswers") /\ Ends(r)
  /\ IF call[r] = NoCall THEN UNCHANGED quotaVars ELSE Return(r)
  /\ given' = given + 1
  /\ \E isCorrect \in BOOLEAN :
       /\ data' = [data EXCEPT !.userAnswers = IF @ = 0 THEN given + 1 ELSE @, !.correct = isCorrect]
       /\ right' = IF isCorrect THEN right \cup {given + 1} ELSE right
  /\ status' = "COMPLETED"
  /\ UNCHANGED type

StoreTest(r) ==
  /\ Runs(r, "submitPracticeTestAnswers") /\ Ends(r)
  /\ IF call[r] = NoCall THEN UNCHANGED quotaVars ELSE Return(r)
  /\ given' = given + 1
  /\ \E isCorrect \in BOOLEAN :
       /\ data' = [req[r].read EXCEPT !.userAnswers = given + 1, !.correct = isCorrect]
       /\ right' = IF isCorrect THEN right \cup {given + 1} ELSE right
  /\ status' = "COMPLETED"
  /\ UNCHANGED type
-----------------------------------------------------------------------------
(* reviewCard() asks neither whether the card is due nor whether it has    *)
(* been rated since it was read.                                           *)
ReviewCard(r) ==
  /\ card # None /\ rating[r] = None
  /\ loads < MaxReviews
  /\ loads' = loads + 1
  /\ \E quality \in Qualities : rating' = [rating EXCEPT ![r] = [quality |-> quality, read |-> card]]
  /\ UNCHANGED card

(* The update of a card that is gone throws. *)
StoreReview(r) ==
  /\ rating[r] # None
  /\ rating' = [rating EXCEPT ![r] = None]
  /\ \/ card # None /\ card' = CalculateNextReview(rating[r].quality, rating[r].read)
     \/ (card = None \/ "db" \in Faults) /\ UNCHANGED card
  /\ UNCHANGED loads

DeleteCard ==
  /\ card # None
  /\ card' = None
  /\ UNCHANGED <<rating, loads>>

Cards ==
  /\ DeleteCard \/ \E r \in Requests : ReviewCard(r) \/ StoreReview(r)
  /\ UNCHANGED <<type, status, data, req, given, right, overlap>> /\ UNCHANGED quotaVars
-----------------------------------------------------------------------------
(* The call or the write fails, and the student gets an error. *)
Fail(r) ==
  /\ req[r] # None /\ Ends(r)
  /\ \/ Runs(r, "askQuestion") /\ call[r].at = "failed"
     \/ "db" \in Faults
  /\ IF call[r] = NoCall THEN UNCHANGED quotaVars ELSE Return(r)
  /\ UNCHANGED <<type, status, data, given, right>>

sessionVars == <<type, status, data, req, given, right, overlap, loads, card, rating>>

Calls(r) == Calling(r) /\ UNCHANGED sessionVars

NextDay == Midnight /\ UNCHANGED sessionVars

Crash ==
  /\ QuotaCrash
  /\ req' = [r \in Requests |-> None]
  /\ rating' = [r \in Requests |-> None]
  /\ UNCHANGED <<type, status, data, given, right, overlap, loads, card>>

Next ==
  \/ \E r \in Requests :
       \/ CheckStepResponse(r) \/ StoreCheck(r)
       \/ AdvanceStep(r) \/ StoreStep(r)
       \/ AskQuestion(r) \/ StoreAnswer(r)
       \/ Complete(r) \/ StoreCompleted(r)
       \/ SubmitPracticeTestAnswers(r) \/ StoreTest(r)
       \/ Fail(r) \/ Calls(r)
  \/ Cards \/ NextDay \/ Crash

Spec == Init /\ [][Next]_vars
-----------------------------------------------------------------------------
(* Types; a request has a call under way only in a handler that asks.      *)
TypeOK ==
  /\ QuotaTypeOK
  /\ type \in Types
  /\ status \in {"IN_PROGRESS", "COMPLETED"}
  /\ data \in SessionData
  /\ req \in [Requests -> Handler \cup {None}]
  /\ given \in Nat
  /\ right \in SUBSET Nat
  /\ overlap \in BOOLEAN
  /\ loads \in Nat
  /\ \A r \in Requests : call[r] # NoCall => req[r] # None /\ req[r].op \in Asking
  /\ card \in Card \cup {None}
  /\ rating \in [Requests -> Rating \cup {None}]

(* The student is at a step only when every step before it is passed,      *)
(* though a late check writes back the steps it has read.                  *)
StepsInOrder == \A n \in StepNumbers : n < data.currentStep => data.stepResults[n].passed

(* A step is passed by an answer that the model judged correct or by       *)
(* MaxAttemptsAllowed answers of the student to this very step.            *)
PassEarned ==
  \A n \in StepNumbers : LET result == data.stepResults[n] IN
    result.passed => \/ result.userResponses \cap right # {}
                     \/ Cardinality(result.userResponses) >= MaxAttemptsAllowed

(* While no two requests overlap, every answer that a student got is kept. *)
AnswersKept ==
  ~overlap => \A a \in 1..given :
    \/ a \in data.conversation
    \/ a = data.userAnswers
    \/ \E n \in StepNumbers : a \in data.stepResults[n].userResponses

(* The results of a test are those of the answers stored with them.        *)
ResultsOfAnswers == data.userAnswers # 0 => (data.correct <=> data.userAnswers \in right)

(* While no two requests overlap, nothing that the student has reached is  *)
(* taken back: steps, passes, answers, the answers of a test; and a        *)
(* session moves by one step at a time.                                    *)
Forward ==
  /\ data'.currentStep \in {data.currentStep, data.currentStep + 1}
  /\ \A n \in StepNumbers :
       /\ data.stepResults[n].passed => data'.stepResults[n].passed
       /\ data.stepResults[n].userResponses \subseteq data'.stepResults[n].userResponses
  /\ data.conversation \subseteq data'.conversation
  /\ data.userAnswers # 0 => data'.userAnswers = data.userAnswers

NothingTakenBack == [][(status = "COMPLETED" => status' = "COMPLETED") /\ (~overlap' => Forward)]_vars

(* Whatever ratings have overlapped, the next good rating shows the card   *)
(* later than the last one did, once it has been passed.                   *)
LaterEachTime == card # None /\ card.repetitions > 0 =>
  \A quality \in Qualities : Passes(quality) =>
    CalculateNextReview(quality, card).interval > card.interval

(* However ratings overlap, of two ratings of the card as it is the better *)
(* one never shows it earlier nor leaves it less ease.                     *)
BetterIsLater == card # None =>
  \A p, q \in Qualities : p <= q =>
    /\ CalculateNextReview(p, card).interval <= CalculateNextReview(q, card).interval
    /\ CalculateNextReview(p, card).ease <= CalculateNextReview(q, card).ease

(* Every call of the sessions goes through the quota. *)
UsesQuota == QuotaSpec
=============================================================================
