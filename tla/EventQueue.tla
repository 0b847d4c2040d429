----------------------------- MODULE EventQueue -----------------------------
(***************************************************************************)
(* What the event_queue table promises to those who publish to it and to   *)
(* those who poll it, whoever they are: the API (EventBusService) and the  *)
(* Python worker (app/db.py) both write and claim rows of the same table.  *)
(*                                                                         *)
(* A row is appended pending; a consumer takes the oldest pending row of a *)
(* topic, but for those that others have locked, and holds it alone; a     *)
(* held row is settled as processed or failed, once; a consumer that dies, *)
(* or whose settling write fails, lets go of a row that stays in           *)
(* processing for ever: nothing puts a row back.                           *)
(***************************************************************************)
EXTENDS Naturals, Sequences, TLAPS

CONSTANTS Topics,     \* event topics
          Publishers, \* clocks that stamp created_at
          Consumers,  \* executions that claim rows
          Skips       \* TRUE: a claim may fail while others pass over the row it has locked

VARIABLES row,   \* the table, oldest first
          holds  \* the index of the row each consumer is handling, or 0

vars == <<row, holds>>

Statuses == {"pending", "processing", "processed", "failed"}

Row == [topic : Topics, src : Publishers, status : Statuses]

Init == /\ row = <<>>
        /\ holds = [c \in Consumers |-> 0]

Publish == \E t \in Topics, p \in Publishers :
             /\ row' = Append(row, [topic |-> t, src |-> p, status |-> "pending"])
             /\ UNCHANGED holds

(* The order is that of created_at, and each publisher stamps its own      *)
(* rows: two rows of different publishers may be claimed in either order.  *)
(* A row that a claim has locked is passed over (FOR UPDATE SKIP LOCKED).  *)
Oldest(i) == Skips \/ \A j \in 1 .. i - 1 : \/ row[j].status # "pending"
                                            \/ row[j].topic # row[i].topic
                                            \/ row[j].src # row[i].src

Claim == \E c \in Consumers, i \in DOMAIN row :
           /\ holds[c] = 0
           /\ row[i].status = "pending"
           /\ Oldest(i)
           /\ row' = [row EXCEPT ![i].status = "processing"]
           /\ holds' = [holds EXCEPT ![c] = i]

Settle == \E c \in Consumers, s \in {"processed", "failed"} :
            /\ holds[c] # 0
            /\ row' = [row EXCEPT ![holds[c]].status = s]
            /\ holds' = [holds EXCEPT ![c] = 0]

(* A process stops, or a settling write fails: the row is left behind.     *)
LetGo == \E C \in SUBSET Consumers :
           /\ holds' = [c \in Consumers |-> IF c \in C THEN 0 ELSE holds[c]]
           /\ UNCHANGED row

Next == Publish \/ Claim \/ Settle \/ LetGo

Spec == Init /\ [][Next]_vars
-----------------------------------------------------------------------------
TypeOK == /\ row \in Seq(Row)
          /\ holds \in [Consumers -> Nat]

(* A held row is in processing and has one holder: a grading event is      *)
(* handled by one execution at a time (event-bus.service.ts, db.py).       *)
HeldAlone == \A c \in Consumers : holds[c] # 0 =>
               /\ holds[c] \in DOMAIN row
               /\ row[holds[c]].status = "processing"
               /\ \A d \in Consumers : holds[d] = holds[c] => d = c

SameStream(i, j) == row[i].topic = row[j].topic /\ row[i].src = row[j].src

(* Rows that one publisher wrote to one topic are claimed in the order in  *)
(* which it wrote them, by whomever: no row has left pending before an     *)
(* older one of its stream (ORDER BY created_at ASC LIMIT 1).  It needs    *)
(* every claim to succeed.                                                 *)
ClaimedInOrder == \A i, j \in DOMAIN row :
  i < j /\ SameStream(i, j) /\ row[j].status # "pending" => row[i].status # "pending"

Forward == {<<"pending", "processing">>, <<"processing", "processed">>,
            <<"processing", "failed">>}

RowForward(i) == /\ i \in DOMAIN row'
                 /\ row'[i].topic = row[i].topic
                 /\ row'[i].src = row[i].src
                 /\ \/ row'[i].status = row[i].status
                    \/ <<row[i].status, row'[i].status>> \in Forward

(* A row is never deleted, retried or settled a second time: its status    *)
(* moves from pending to processing to processed or failed, and no other   *)
(* way, whatever crashes or database errors its holder meets.              *)
OnlyForward == [][\A i \in DOMAIN row : RowForward(i)]_vars
-----------------------------------------------------------------------------
LEMMA InitInv == Init => TypeOK /\ HeldAlone
  BY DEF Init, TypeOK, HeldAlone

LEMMA NextInv == TypeOK /\ HeldAlone /\ [Next]_vars => TypeOK' /\ HeldAlone'
  <1> SUFFICES ASSUME TypeOK, HeldAlone, [Next]_vars PROVE TypeOK' /\ HeldAlone'
    OBVIOUS
  <1> USE DEF TypeOK, HeldAlone
  <1>1. CASE Publish
    <2>1. PICK e \in Row : row' = Append(row, e) /\ e.status = "pending"
      BY <1>1 DEF Publish, Row, Statuses
    <2>2. /\ row' \in Seq(Row)
          /\ DOMAIN row \subseteq DOMAIN row'
          /\ \A i \in DOMAIN row : row'[i] = row[i]
      BY <2>1
    <2> QED BY <1>1, <2>2 DEF Publish
  <1>2. CASE Claim
    <2>1. PICK c \in Consumers, i \in DOMAIN row :
            /\ holds[c] = 0
            /\ row[i].status = "pending"
            /\ row' = [row EXCEPT ![i].status = "processing"]
            /\ holds' = [holds EXCEPT ![c] = i]
      BY <1>2 DEF Claim
    <2>2. row[i] \in Row /\ i \in Nat \ {0}
      BY <2>1
    <2>3. [row[i] EXCEPT !.status = "processing"] \in Row
      BY <2>2 DEF Row, Statuses
    <2>4. row' \in Seq(Row) /\ DOMAIN row' = DOMAIN row
      BY <2>1, <2>3
    <2>5. \A j \in DOMAIN row : row'[j].status = IF j = i THEN "processing" ELSE row[j].status
      BY <2>1, <2>2 DEF Row
    <2>6. \A d \in Consumers : holds[d] # i
      BY <2>1, <2>2
    <2>7. holds' \in [Consumers -> Nat]
      BY <2>1, <2>2
    <2>8. HeldAlone'
      <3> SUFFICES ASSUME NEW d \in Consumers, holds'[d] # 0
                   PROVE  /\ holds'[d] \in DOMAIN row'
                          /\ row'[holds'[d]].status = "processing"
                          /\ \A b \in Consumers : holds'[b] = holds'[d] => b = d
        OBVIOUS
      <3>1. CASE d = c
        BY <2>1, <2>4, <2>5, <2>6, <3>1
      <3>2. CASE d # c
        BY <2>1, <2>4, <2>5, <2>6, <3>2
      <3> QED BY <3>1, <3>2
    <2> QED BY <2>4, <2>7, <2>8
  <1>3. CASE Settle
    <2>1. PICK c \in Consumers, s \in {"processed", "failed"} :
            /\ holds[c] # 0
            /\ row' = [row EXCEPT ![holds[c]].status = s]
            /\ holds' = [holds EXCEPT ![c] = 0]
      BY <1>3 DEF Settle
    <2>2. holds[c] \in DOMAIN row /\ row[holds[c]] \in Row
      BY <2>1
    <2>3. [row[holds[c]] EXCEPT !.status = s] \in Row
      BY <2>2 DEF Row, Statuses
    <2>4. row' \in Seq(Row) /\ DOMAIN row' = DOMAIN row
      BY <2>1, <2>2, <2>3
    <2>5. \A j \in DOMAIN row : j # holds[c] => row'[j] = row[j]
      BY <2>1
    <2> QED BY <2>1, <2>2, <2>4, <2>5
  <1>4. CASE LetGo
    BY <1>4 DEF LetGo
  <1>5. CASE UNCHANGED vars
    BY <1>5 DEF vars
  <1> QED BY <1>1, <1>2, <1>3, <1>4, <1>5 DEF Next

(* However many consumers poll the table, a row in processing is held by   *)
(* at most one of them.                                                    *)
THEOREM HeldAloneAlways == Spec => []HeldAlone
  <1>1. Init => TypeOK /\ HeldAlone
    BY InitInv
  <1>2. (TypeOK /\ HeldAlone) /\ [Next]_vars => (TypeOK /\ HeldAlone)'
    BY NextInv
  <1> QED BY <1>1, <1>2, PTL DEF Spec

LEMMA StepForward == TypeOK /\ HeldAlone /\ [Next]_vars => \A i \in DOMAIN row : RowForward(i)
  <1> SUFFICES ASSUME TypeOK, HeldAlone, [Next]_vars, NEW i \in DOMAIN row
               PROVE  RowForward(i)
    OBVIOUS
  <1> USE DEF TypeOK, HeldAlone, RowForward, Forward
  <1>0. row[i] \in Row /\ i \in Nat \ {0}
    OBVIOUS
  <1>1. CASE Publish
    BY <1>0, <1>1 DEF Publish
  <1>2. CASE Claim
    <2>1. PICK c \in Consumers, k \in DOMAIN row :
            /\ row[k].status = "pending"
            /\ row' = [row EXCEPT ![k].status = "processing"]
      BY <1>2 DEF Claim
    <2>2. row[k] \in Row
      BY <2>1
    <2> QED BY <1>0, <2>1, <2>2 DEF Row
  <1>3. CASE Settle
    <2>1. PICK c \in Consumers, s \in {"processed", "failed"} :
            /\ holds[c] # 0
            /\ row' = [row EXCEPT ![holds[c]].status = s]
      BY <1>3 DEF Settle
    <2>2. holds[c] \in DOMAIN row /\ row[holds[c]].status = "processing"
      BY <2>1
    <2> QED BY <1>0, <2>1, <2>2 DEF Row
  <1>4. CASE UNCHANGED row
    BY <1>4
  <1> QED BY <1>1, <1>2, <1>3, <1>4 DEF Next, LetGo, vars

(* Whoever polls and whatever fails, a row moves forward only.             *)
THEOREM OnlyForwardAlways == Spec => OnlyForward
  <1>1. TypeOK /\ HeldAlone /\ [Next]_vars => [\A i \in DOMAIN row : RowForward(i)]_vars
    BY StepForward
  <1>2. Init => TypeOK /\ HeldAlone
    BY InitInv
  <1>3. (TypeOK /\ HeldAlone) /\ [Next]_vars => (TypeOK /\ HeldAlone)'
    BY NextInv
  <1> QED BY <1>1, <1>2, <1>3, PTL DEF Spec, OnlyForward

LEMMA NextInOrder == ~Skips /\ TypeOK /\ TypeOK' /\ HeldAlone /\ ClaimedInOrder /\ [Next]_vars => ClaimedInOrder'
  <1> SUFFICES ASSUME ~Skips, TypeOK, TypeOK', HeldAlone, ClaimedInOrder, [Next]_vars,
                      NEW i \in DOMAIN row', NEW j \in DOMAIN row',
                      i < j, SameStream(i, j)', row'[j].status # "pending"
               PROVE  row'[i].status # "pending"
    BY DEF ClaimedInOrder
  <1>0. i \in Nat \ {0} /\ j \in Nat \ {0}
    BY DEF TypeOK
  <1>1. j \in DOMAIN row
    <2>1. ASSUME Publish PROVE j \in DOMAIN row
      BY <2>1 DEF Publish, TypeOK
    <2>2. ASSUME Claim PROVE DOMAIN row' = DOMAIN row
      BY <2>2 DEF Claim
    <2>3. ASSUME Settle PROVE DOMAIN row' = DOMAIN row
      BY <2>3 DEF Settle
    <2> QED BY <2>1, <2>2, <2>3 DEF Next, LetGo, vars
  <1>2. i \in DOMAIN row
    BY <1>0, <1>1 DEF TypeOK
  <1>3. RowForward(i) /\ RowForward(j)
    BY <1>1, <1>2, StepForward
  <1>4. SameStream(i, j)
    BY <1>3 DEF RowForward, SameStream
  <1>5. CASE row[j].status # "pending"
    <2>1. row[i].status # "pending"
      BY <1>1, <1>2, <1>4, <1>5 DEF ClaimedInOrder
    <2> QED BY <1>3, <2>1 DEF RowForward, Forward
  <1>6. CASE row[j].status = "pending"
    <2>1. ASSUME Publish PROVE FALSE
      BY <2>1, <1>0, <1>1, <1>6 DEF Publish, TypeOK
    <2>2. ASSUME Settle PROVE FALSE
      <3>1. PICK c \in Consumers, s \in {"processed", "failed"} :
              /\ holds[c] # 0
              /\ row' = [row EXCEPT ![holds[c]].status = s]
        BY <2>2 DEF Settle
      <3>2. row[holds[c]].status = "processing"
        BY <3>1 DEF HeldAlone
      <3> QED BY <3>1, <3>2, <1>1, <1>6 DEF TypeOK
    <2>3. ASSUME UNCHANGED row PROVE FALSE
      BY <2>3, <1>6
    <2>4. Claim
      BY <2>1, <2>2, <2>3 DEF Next, LetGo, vars
    <2>5. PICK c \in Consumers, k \in DOMAIN row :
            /\ Oldest(k)
            /\ row' = [row EXCEPT ![k].status = "processing"]
      BY <2>4 DEF Claim
    <2>6. k = j
      BY <2>5, <1>1, <1>6 DEF TypeOK
    <2>7. i \in 1 .. k - 1 /\ k \in Nat
      BY <1>0, <2>6
    <2>8. row[i].status # "pending"
      BY <1>4, <2>5, <2>6, <2>7 DEF Oldest, SameStream
    <2> QED BY <1>3, <2>8 DEF RowForward, Forward
  <1> QED BY <1>5, <1>6

(* However many consumers poll, the rows of one publisher and topic are    *)
(* claimed in the order in which they were written, if no claim fails.     *)
THEOREM ClaimedInOrderAlways == ~Skips => (Spec => []ClaimedInOrder)
  <1> SUFFICES ASSUME ~Skips PROVE Spec => []ClaimedInOrder
    OBVIOUS
  <1>1. Init => TypeOK /\ HeldAlone /\ ClaimedInOrder
    BY InitInv DEF Init, ClaimedInOrder
  <1>2. (TypeOK /\ HeldAlone /\ ClaimedInOrder) /\ [Next]_vars
          => (TypeOK /\ HeldAlone /\ ClaimedInOrder)'
    BY NextInv, NextInOrder
  <1> QED BY <1>1, <1>2, PTL DEF Spec
=============================================================================
