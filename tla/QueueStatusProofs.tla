------------------------ MODULE QueueStatusProofs ------------------------
(***************************************************************************)
(* Theorems about status reports, for any number of tasks and of calls     *)
(* that move them while the four queries of a report are answered.         *)
(***************************************************************************)
EXTENDS QueueStatus, QueueWorkerProofs

---------------------------------------------------------------------------
(* Counting *)

InStatus(S, status) == {t \in S : db[t].status = status}

LEMMA Counting ==
  ASSUME NEW S \in SUBSET Id, NEW status
  PROVE  /\ Count(S, status) = Cardinality(InStatus(S, status))
         /\ IsFiniteSet(InStatus(S, status)) /\ Count(S, status) \in Nat
         /\ IsFiniteSet(Id \ S) /\ Cardinality(Id \ S) \in Nat
  <1>1. InStatus(S, status) \subseteq Id /\ Id \ S \subseteq Id
    BY DEF InStatus
  <1>2. IsFiniteSet(InStatus(S, status)) /\ IsFiniteSet(Id \ S)
    BY <1>1, IdAssumption, FS_Subset
  <1> QED BY <1>2, FS_CardinalityType DEF Count, InStatus

\* What a set holds is at most what two sets that cover it hold.
LEMMA Covered ==
  ASSUME NEW A, NEW B, NEW C, IsFiniteSet(B), IsFiniteSet(C), A \subseteq B \cup C
  PROVE  /\ IsFiniteSet(A) /\ Cardinality(A) \in Nat
         /\ Cardinality(A) <= Cardinality(B) + Cardinality(C)
  <1>1. /\ IsFiniteSet(B \cup C)
        /\ Cardinality(B \cup C) = Cardinality(B) + Cardinality(C) - Cardinality(B \cap C)
    BY FS_Union
  <1>2. IsFiniteSet(B \cap C) /\ Cardinality(B \cap C) \in Nat
    BY FS_Subset, FS_CardinalityType
  <1>3. Cardinality(B) \in Nat /\ Cardinality(C) \in Nat
    BY FS_CardinalityType
  <1>4. IsFiniteSet(A) /\ Cardinality(A) <= Cardinality(B \cup C) /\ Cardinality(A) \in Nat
    BY <1>1, FS_Subset, FS_CardinalityType
  <1> QED BY <1>1, <1>2, <1>3, <1>4

\* The same, where the two are apart and the set holds both.
LEMMA Joined ==
  ASSUME NEW B, NEW C, IsFiniteSet(B), IsFiniteSet(C), B \cap C = {}
  PROVE  /\ Cardinality(B \cup C) = Cardinality(B) + Cardinality(C)
         /\ Cardinality(B) \in Nat /\ Cardinality(C) \in Nat
  <1>1. Cardinality(B \cup C) = Cardinality(B) + Cardinality(C) - Cardinality(B \cap C)
    BY FS_Union
  <1>2. Cardinality(B \cap C) = 0
    BY FS_EmptySet
  <1> QED BY <1>1, <1>2, FS_CardinalityType

---------------------------------------------------------------------------
(* Each count that has been read stays right up to the tasks that have     *)
(* moved: when one more moves, it may leave the steady ones of a status,   *)
(* but then it is among the moved.                                         *)

NearlyRight(status) ==
  /\ report.found[status] <= Steady(status) + Moved
  /\ \/ report.found[status] >= Steady(status)
     \/ status = "pending" /\ report.found[status] = PendingCap

ReportInv ==
  /\ StatusTypeOK /\ Base
  /\ report.asked => \A status \in Reported \ report.left : NearlyRight(status)
  /\ report.found["pending"] <= PendingCap

LEMMA ReportShape ==
  ASSUME StatusTypeOK
  PROVE  /\ report \in Report
         /\ report.still \in SUBSET Id /\ report.found \in [Reported -> Nat]
         /\ report.left \in SUBSET Reported /\ report.asked \in BOOLEAN
  BY DEF StatusTypeOK, Report

\* A query, answered in one moment.
LEMMA QueryBounds ==
  ASSUME StatusTypeOK, NEW status \in Reported
  PROVE  /\ Query(status) \in Nat
         /\ Query(status) <= Steady(status) + Moved
         /\ \/ Query(status) >= Steady(status)
            \/ status = "pending" /\ Query(status) = PendingCap
         /\ status = "pending" => Query(status) <= PendingCap
  <1> DEFINE S == report.still
  <1>1. S \in SUBSET Id /\ Id \in SUBSET Id
    BY ReportShape
  <1>2. /\ Count(S, status) = Cardinality(InStatus(S, status))
        /\ IsFiniteSet(InStatus(S, status)) /\ Count(S, status) \in Nat
        /\ IsFiniteSet(Id \ S) /\ Cardinality(Id \ S) \in Nat
        /\ Count(Id, status) = Cardinality(InStatus(Id, status))
        /\ IsFiniteSet(InStatus(Id, status)) /\ Count(Id, status) \in Nat
    BY <1>1, Counting
  <1> HIDE DEF S
  <1>3. Count(Id, status) <= Count(S, status) + Cardinality(Id \ S)
    <2>1. InStatus(Id, status) \subseteq InStatus(S, status) \cup (Id \ S)
      BY DEF InStatus
    <2> QED BY <1>2, <2>1, Covered
  <1>4. Count(S, status) <= Count(Id, status)
    <2>1. InStatus(S, status) \subseteq InStatus(Id, status)
      BY <1>1 DEF InStatus
    <2> QED BY <1>2, <2>1, FS_Subset
  <1> QED BY <1>2, <1>3, <1>4, LimitAssumption DEF Query, Steady, Moved, S

\* Whatever tasks move, the steady ones of a status become fewer, and together
\* with those that moved they become more.
LEMMA MovingCounts ==
  ASSUME StatusTypeOK, NEW status \in Reported,
         report'.still = {t \in report.still : db'[t].status = db[t].status}
  PROVE  /\ Steady(status)' <= Steady(status)
         /\ Steady(status) + Moved <= Steady(status)' + Moved'
         /\ Steady(status) \in Nat /\ Moved \in Nat
         /\ Steady(status)' \in Nat /\ Moved' \in Nat
  <1> DEFINE S == report.still
             A == InStatus(S, status)
             B == {t \in S : db'[t].status = db[t].status /\ db[t].status = status}
             C == {t \in S : db'[t].status # db[t].status}
             M == Id \ S
  <1>1. S \subseteq Id
    BY ReportShape
  <1>2. /\ Steady(status) = Cardinality(A) /\ Moved = Cardinality(M)
        /\ Steady(status)' = Cardinality(B) /\ Moved' = Cardinality(M \cup C)
    <2>1. {t \in report'.still : db'[t].status = status} = B
      OBVIOUS
    <2>2. Id \ report'.still = M \cup C
      BY <1>1
    <2> QED BY <2>1, <2>2 DEF Steady, Moved, Count, InStatus
  <1>3. /\ A \subseteq Id /\ B \subseteq A /\ C \subseteq Id /\ M \subseteq Id
        /\ A \subseteq B \cup C /\ M \cap C = {}
    BY <1>1 DEF InStatus
  <1> HIDE DEF S, A, B, C, M
  <1>4. IsFiniteSet(A) /\ IsFiniteSet(B) /\ IsFiniteSet(C) /\ IsFiniteSet(M)
    BY <1>3, IdAssumption, FS_Subset
  <1>5. /\ Cardinality(A) \in Nat /\ Cardinality(B) \in Nat
        /\ Cardinality(C) \in Nat /\ Cardinality(M) \in Nat
    BY <1>4, FS_CardinalityType
  <1>6. Cardinality(B) <= Cardinality(A)
    BY <1>3, <1>4, FS_Subset
  <1>7. Cardinality(A) <= Cardinality(B) + Cardinality(C)
    BY <1>3, <1>4, Covered
  <1>8. Cardinality(M \cup C) = Cardinality(M) + Cardinality(C)
    BY <1>3, <1>4, Joined
  <1> QED BY <1>2, <1>5, <1>6, <1>7, <1>8

LEMMA ReportInvInit == StatusInit => ReportInv
  <1> SUFFICES ASSUME StatusInit
               PROVE  ReportInv
    OBVIOUS
  <1>1. Base
    BY BaseInit DEF StatusInit
  <1>2. StatusTypeOK
    BY <1>1 DEF StatusInit, StatusTypeOK, Base, NoReport, Report
  <1>3. ~ report.asked /\ report.found["pending"] <= PendingCap
    BY LimitAssumption DEF StatusInit, NoReport, Reported
  <1> QED BY <1>1, <1>2, <1>3 DEF ReportInv

LEMMA ReportInvStep == ReportInv /\ [StatusNext]_qvars => ReportInv'
  <1> SUFFICES ASSUME ReportInv, [StatusNext]_qvars
               PROVE  ReportInv'
    OBVIOUS
  <1>1. /\ report.still \in SUBSET Id /\ report.found \in [Reported -> Nat]
        /\ report.left \in SUBSET Reported /\ report.asked \in BOOLEAN
        /\ report \in Report /\ Base /\ StatusTypeOK
    BY ReportShape DEF ReportInv
  <1>2. ASSUME UNCHANGED vars
        PROVE  Base'
    BY <1>1, <1>2 DEF vars, Base, TypeOK, NamesExist, RowsNamed, Exists, At, Task
  <1>3. CASE AskStatus
    <2>1. /\ report' = [asked |-> TRUE, left |-> Reported,
                        found |-> [s \in Reported |-> 0], still |-> Id]
          /\ UNCHANGED vars
      BY <1>3 DEF AskStatus, NoReport
    <2>2. StatusTypeOK'
      BY <1>2, <2>1 DEF StatusTypeOK, Base, Report
    <2> QED BY <1>2, <2>1, <2>2, LimitAssumption DEF ReportInv, Reported
  <1>4. CASE Answer
    <2>1. report' = NoReport /\ UNCHANGED vars
      BY <1>4 DEF Answer
    <2>2. StatusTypeOK'
      BY <1>2, <2>1 DEF StatusTypeOK, Base, Report, NoReport
    <2> QED BY <1>2, <2>1, <2>2, LimitAssumption DEF ReportInv, NoReport, Reported
  <1>5. ASSUME NEW status \in Reported, ReadCount(status)
        PROVE  ReportInv'
    <2>1. /\ Query(status) \in Nat
          /\ Query(status) <= Steady(status) + Moved
          /\ \/ Query(status) >= Steady(status)
             \/ status = "pending" /\ Query(status) = PendingCap
          /\ status = "pending" => Query(status) <= PendingCap
      BY <1>1, QueryBounds
    <2>2. /\ report' \in Report /\ report'.asked = report.asked
          /\ report'.left = report.left \ {status} /\ report'.still = report.still
          /\ report'.found[status] = Query(status)
          /\ \A s \in Reported \ {status} : report'.found[s] = report.found[s]
          /\ UNCHANGED vars
      BY <1>1, <1>5, <2>1 DEF ReadCount, Report
    <2>3. StatusTypeOK'
      BY <1>2, <2>2 DEF StatusTypeOK, Base
    <2>4. ASSUME NEW s \in Reported
          PROVE  Steady(s)' = Steady(s) /\ Moved' = Moved
      BY <2>2 DEF Steady, Moved, Count, vars
    <2>5. ASSUME report'.asked, NEW s \in Reported \ report'.left
          PROVE  NearlyRight(s)'
      <3>1. CASE s = status
        BY <2>1, <2>2, <2>4, <3>1 DEF NearlyRight
      <3>2. CASE s # status
        <4>1. NearlyRight(s)
          BY <2>2, <2>5, <3>2 DEF ReportInv
        <4> QED BY <2>2, <2>4, <3>2, <4>1 DEF NearlyRight
      <3> QED BY <3>1, <3>2
    <2>6. report'.found["pending"] <= PendingCap
      BY <2>1, <2>2 DEF ReportInv, Reported
    <2> QED BY <1>2, <2>2, <2>3, <2>5, <2>6 DEF ReportInv
  <1>6. CASE Work
    <2>1. Base'
      BY <1>1, <1>6, BaseStep DEF Work
    <2>2. /\ report' \in Report /\ report'.asked = report.asked
          /\ report'.left = report.left /\ report'.found = report.found
          /\ report'.still = {t \in report.still : db'[t].status = db[t].status}
      BY <1>1, <1>6 DEF Work, Report
    <2>3. StatusTypeOK'
      BY <2>1, <2>2 DEF StatusTypeOK, Base
    <2>4. ASSUME report'.asked, NEW s \in Reported \ report'.left
          PROVE  NearlyRight(s)'
      <3>1. /\ Steady(s)' <= Steady(s) /\ Steady(s) + Moved <= Steady(s)' + Moved'
            /\ Steady(s) \in Nat /\ Moved \in Nat /\ Steady(s)' \in Nat /\ Moved' \in Nat
        BY <1>1, <2>2, MovingCounts
      <3>2. NearlyRight(s) /\ report.found[s] \in Nat /\ report'.found[s] = report.found[s]
        BY <1>1, <2>2, <2>4 DEF ReportInv
      <3> QED BY <3>1, <3>2 DEF NearlyRight
    <2> QED BY <2>1, <2>2, <2>3, <2>4 DEF ReportInv
  <1>7. CASE UNCHANGED qvars
    <2>1. UNCHANGED vars /\ report' = report /\ db' = db
      BY <1>7 DEF qvars, vars
    <2>2. StatusTypeOK'
      <3>1. TypeOK'
        BY <1>2, <2>1 DEF Base
      <3>2. report' \in Report
        BY <1>1, <2>1
      <3> QED BY <3>1, <3>2 DEF StatusTypeOK
    <2> QED BY <1>2, <2>1, <2>2 DEF ReportInv, NearlyRight, Steady, Moved, Count
  <1> QED BY <1>3, <1>4, <1>5, <1>6, <1>7 DEF StatusNext

---------------------------------------------------------------------------
(* The theorems *)

\* The whole state is well typed while a report is put together.
THEOREM StatusTyping == StatusSpec => []StatusTypeOK
  BY ReportInvInit, ReportInvStep, PTL DEF StatusSpec, ReportInv

\* No count of a report is wrong by more than the tasks that moved while it was
\* put together, but for the limit on pending ones.
THEOREM ReportsAreNearlyRight == StatusSpec => []CountsNearlyRight
  <1>1. ReportInv => CountsNearlyRight
    BY DEF ReportInv, CountsNearlyRight, NearlyRight, AllRead
  <1> QED BY <1>1, ReportInvInit, ReportInvStep, PTL DEF StatusSpec

\* The branch on the backlog is dead: once all counts are read, the verdict is
\* on the failed tasks alone, as the limit of the query for pending ones is
\* below the threshold that they are compared with (getQueueStatus).
THEOREM BacklogIsNeverSeen ==
  StatusSpec => [](AllRead => (Healthy <=> report.found["failed"] < FailedLimit))
  <1>1. ReportInv => (AllRead => (Healthy <=> report.found["failed"] < FailedLimit))
    <2> SUFFICES ASSUME ReportInv
                 PROVE  report.found["pending"] < PendingLimit
      BY DEF Healthy
    <2>1. "pending" \in Reported
      BY DEF Reported
    <2>2. report.found["pending"] \in Nat /\ report.found["pending"] <= PendingCap
      BY <2>1, ReportShape DEF ReportInv
    <2> QED BY <2>2, LimitAssumption
  <1> QED BY <1>1, ReportInvInit, ReportInvStep, PTL DEF StatusSpec

==========================================================================
