------------------------ MODULE OooScoreboardProofs ------------------------
(***************************************************************************)
(* Theorems about the out-of-order scoreboard on its bench, for any set of *)
(* ids, requests and faults: every expectation and every writeback is      *)
(* settled once, and a test that passes saw a faithful device.             *)
(***************************************************************************)
EXTENDS OooScoreboardBench, FiniteSetTheorems, TLAPS

Methods == {"push_expected", "compare_actual", "compare_writeback"}

PredictedEvents == {WritebackEvent(id, x.response) : id \in TxnIds, x \in Requests}

OooTypes ==
    /\ pending \in [TxnIds -> Requests \cup {None}]
    /\ issued \in [TxnIds -> Requests \cup {None}]
    /\ expected_writebacks \in [TxnIds -> PredictedEvents \cup {None}]
    /\ raised \in [Methods -> Nat]
    /\ matched \in Nat /\ mismatched \in Nat /\ orphan \in Nat
    /\ timed_out \in Nat /\ pushes \in Nat
    /\ matched_writebacks \in Nat /\ mismatched_writebacks \in Nat
    /\ orphan_writebacks \in Nat

\* Every table describes requests that were issued.
TablesFollowIssued ==
    \A id \in TxnIds :
        /\ pending[id] # None => pending[id] = issued[id]
        /\ ~ReuseIds /\ expected_writebacks[id] # None =>
              /\ id \in Evicting
              /\ expected_writebacks[id] = WritebackEvent(id, issued[id].response)

AccountInv ==
    /\ OooTypes
    /\ EachExpectationSettledOnce

WritebackInv ==
    /\ OooTypes
    /\ TablesFollowIssued
    /\ EachWritebackSettledOnce
-----------------------------------------------------------------------------
LEMMA PendingFinite ==
    /\ IsFiniteSet(Pending) /\ Cardinality(Pending) \in Nat
    /\ IsFiniteSet(ExpectedWritebacks) /\ Cardinality(ExpectedWritebacks) \in Nat
    /\ IsFiniteSet(Evicting) /\ Cardinality(Evicting) \in Nat
<1>1. Pending \subseteq TxnIds /\ ExpectedWritebacks \subseteq TxnIds
      /\ Evicting \subseteq TxnIds
    BY DEF Pending, ExpectedWritebacks, Evicting, Issued
<1> QED
    BY <1>1, FS_Subset, FS_CardinalityType, TxnIdsAssumption

LEMMA RegistersNotNone ==
    ASSUME NEW id \in TxnIds, NEW x \in Requests
    PROVE  /\ x # None
           /\ WritebackEvent(id, x.response) \in PredictedEvents
           /\ WritebackEvent(id, x.response) # None
           /\ WritebackEvent(id, x.response).txn_id = id
BY RequestsAssumption DEF PredictedEvents, WritebackEvent
-----------------------------------------------------------------------------
(***************************************************************************)
(* What each operation does to the three counted sets.                     *)
(***************************************************************************)
LEMMA PushPending ==
    ASSUME OooTypes, NEW id \in TxnIds, NEW x \in Requests, AcceptPush(id, x)
    PROVE  /\ id \notin Pending
           /\ Pending' = Pending \cup {id}
BY RegistersNotNone DEF AcceptPush, Pending, OooTypes

LEMMA AnswerPendingSet ==
    ASSUME OooTypes, NEW a, AnswerPending(a)
    PROVE  /\ a.txn_id \in Pending
           /\ Pending' = Pending \ {a.txn_id}
BY DEF AnswerPending, Pending, OooTypes

LEMMA DrainPendingSet ==
    ASSUME OooTypes, DrainPending
    PROVE  Pending' = {}
BY DEF DrainPending, Pending
-----------------------------------------------------------------------------
LEMMA TypesInit == BenchInit => OooTypes
BY DEF BenchInit, OooInit, OooTypes, Methods

LEMMA IssueTypes ==
    ASSUME OooTypes, NEW id \in TxnIds, NEW x \in Requests, NEW f \in Faults,
           Issue(id, x, f)
    PROVE  OooTypes'
<1>1. /\ AcceptPush(id, x)
      /\ issued' = [issued EXCEPT ![id] = x]
      /\ pushes' = pushes + 1
    BY DEF Issue
<1>2. WritebackEvent(id, x.response) \in PredictedEvents
    BY RegistersNotNone
<1> QED
    BY <1>1, <1>2 DEF OooTypes, AcceptPush

LEMMA DeliverTypes ==
    ASSUME OooTypes, NEW a, Deliver(a)
    PROVE  OooTypes'
<1>1. CompareActual(a) /\ UNCHANGED <<issued, pushes>>
    BY DEF Deliver
<1>2. CASE OrphanResponse(a)
    BY <1>1, <1>2 DEF OrphanResponse, OooTypes, Raise, writebackVars, Methods
<1>3. CASE AnswerPending(a)
    <2>1. /\ pending' \in [TxnIds -> Requests \cup {None}]
          /\ UNCHANGED <<mismatched, orphan, timed_out, writebackVars>>
        BY <1>3 DEF AnswerPending, OooTypes
    <2>2. matched' \in Nat /\ raised' \in [Methods -> Nat]
        BY <1>3 DEF AnswerPending, OooTypes, Raise, Methods
    <2> QED
        BY <1>1, <2>1, <2>2 DEF OooTypes, writebackVars
<1> QED
    BY <1>1, <1>2, <1>3 DEF CompareActual

LEMMA DeliverEventTypes ==
    ASSUME OooTypes, NEW e, DeliverEvent(e)
    PROVE  OooTypes'
<1>1. CompareWriteback(e) /\ UNCHANGED <<issued, pushes>>
    BY DEF DeliverEvent
<1>2. CASE OrphanWriteback(e)
    BY <1>1, <1>2 DEF OrphanWriteback, OooTypes, Raise, responseVars, Methods
<1>3. CASE MatchWriteback(e)
    <2>1. /\ expected_writebacks' \in [TxnIds -> PredictedEvents \cup {None}]
          /\ UNCHANGED <<responseVars, orphan_writebacks>>
        BY <1>3 DEF MatchWriteback, OooTypes
    <2>2. /\ matched_writebacks' \in Nat /\ mismatched_writebacks' \in Nat
          /\ raised' \in [Methods -> Nat]
        BY <1>3 DEF MatchWriteback, OooTypes, Raise, Methods
    <2> QED
        BY <1>1, <2>1, <2>2 DEF OooTypes, responseVars
<1> QED
    BY <1>1, <1>2, <1>3 DEF CompareWriteback

LEMMA IssueTwiceTypes ==
    ASSUME OooTypes, NEW id \in TxnIds, IssueTwice(id)
    PROVE  OooTypes'
BY DEF IssueTwice, RejectPush, OooTypes, Raise, responseVars, writebackVars, Methods

LEMMA GiveUpTypes ==
    ASSUME OooTypes, GiveUp
    PROVE  OooTypes'
BY PendingFinite DEF GiveUp, DrainPending, OooTypes, writebackVars

LEMMA TransitTypes ==
    ASSUME OooTypes, Lose \/ Duplicate \/ UNCHANGED benchVars
    PROVE  OooTypes'
BY DEF Lose, Duplicate, benchVars, oooVars, responseVars, writebackVars, OooTypes

LEMMA StepTypes == OooTypes /\ [BenchNext]_benchVars => OooTypes'
BY IssueTypes, DeliverTypes, DeliverEventTypes, IssueTwiceTypes, GiveUpTypes,
   TransitTypes DEF BenchNext
-----------------------------------------------------------------------------
(***************************************************************************)
(* Every accepted expectation is pending, matched, refused or timed out,   *)
(* and only one of these, whatever the device and the test do.             *)
(***************************************************************************)
THEOREM ExpectationsSettledOnce == BenchSpec => []EachExpectationSettledOnce
<1>1. BenchInit => AccountInv
    <2> SUFFICES ASSUME BenchInit PROVE AccountInv
        OBVIOUS
    <2>1. Pending = {}
        BY DEF BenchInit, OooInit, Pending
    <2> QED
        BY <2>1, TypesInit, FS_EmptySet
        DEF BenchInit, OooInit, AccountInv, EachExpectationSettledOnce, Refused
<1>2. AccountInv /\ [BenchNext]_benchVars => AccountInv'
    <2> SUFFICES ASSUME AccountInv, [BenchNext]_benchVars PROVE AccountInv'
        OBVIOUS
    <2> USE DEF AccountInv
    <2>0. OooTypes'
        BY StepTypes
    <2>1. ASSUME NEW id \in TxnIds, NEW x \in Requests, NEW f \in Faults,
                 Issue(id, x, f)
          PROVE  EachExpectationSettledOnce'
        <3>1. AcceptPush(id, x) /\ pushes' = pushes + 1
            BY <2>1 DEF Issue
        <3>2. Cardinality(Pending') = Cardinality(Pending) + 1
            BY <3>1, PushPending, PendingFinite, FS_AddElement
        <3> QED
            BY <3>1, <3>2, PendingFinite
            DEF AcceptPush, EachExpectationSettledOnce, Refused, OooTypes, Methods
    <2>2. ASSUME NEW a, Deliver(a) PROVE EachExpectationSettledOnce'
        <3>1. CompareActual(a) /\ UNCHANGED pushes
            BY <2>2 DEF Deliver
        <3>2. CASE OrphanResponse(a)
            <4>1. Pending' = Pending
                BY <3>2 DEF OrphanResponse, Pending
            <4> QED
                BY <3>1, <3>2, <4>1, PendingFinite
                DEF OrphanResponse, EachExpectationSettledOnce, Refused, OooTypes,
                    Methods, Raise
        <3>3. CASE AnswerPending(a)
            <4>1. Cardinality(Pending') = Cardinality(Pending) - 1
                BY <3>3, AnswerPendingSet, PendingFinite, FS_RemoveElement
            <4> QED
                BY <3>1, <3>3, <4>1, PendingFinite
                DEF AnswerPending, EachExpectationSettledOnce, Refused, OooTypes,
                    Methods, Raise
        <3> QED
            BY <3>1, <3>2, <3>3 DEF CompareActual
    <2>3. ASSUME GiveUp PROVE EachExpectationSettledOnce'
        <3>1. Cardinality(Pending') = 0
            BY <2>3, DrainPendingSet, FS_EmptySet DEF GiveUp
        <3> QED
            BY <2>3, <3>1, PendingFinite
            DEF GiveUp, DrainPending, EachExpectationSettledOnce, Refused, OooTypes,
                Methods
    <2>4. ASSUME NEW e, DeliverEvent(e) PROVE EachExpectationSettledOnce'
        <3>1. /\ UNCHANGED <<responseVars, pushes>>
              /\ raised'["compare_actual"] = raised["compare_actual"]
            BY <2>4 DEF DeliverEvent, CompareWriteback, OrphanWriteback,
                        MatchWriteback, Raise, OooTypes, Methods
        <3> QED
            BY <3>1 DEF responseVars, Pending, EachExpectationSettledOnce, Refused
    <2>5. ASSUME NEW id \in TxnIds, IssueTwice(id) PROVE EachExpectationSettledOnce'
        BY <2>5 DEF IssueTwice, RejectPush, Raise, OooTypes, Methods, responseVars,
                    Pending, EachExpectationSettledOnce, Refused
    <2>6. ASSUME Lose \/ Duplicate \/ UNCHANGED benchVars
          PROVE  EachExpectationSettledOnce'
        BY <2>6 DEF Lose, Duplicate, benchVars, oooVars, responseVars,
                    Pending, EachExpectationSettledOnce, Refused
    <2>7. EachExpectationSettledOnce'
        <3> HIDE DEF AccountInv
        <3> QED
            BY <2>1, <2>2, <2>3, <2>4, <2>5, <2>6 DEF BenchNext
    <2> QED
        BY <2>0, <2>7
<1>3. AccountInv => EachExpectationSettledOnce
    BY DEF AccountInv
<1> QED
    BY <1>1, <1>2, <1>3, PTL DEF BenchSpec
-----------------------------------------------------------------------------
(***************************************************************************)
(* The tables of expectations after each step, by id.                      *)
(***************************************************************************)
LEMMA IssueTables ==
    ASSUME OooTypes, NEW id \in TxnIds, NEW x \in Requests, NEW f \in Faults,
           Issue(id, x, f)
    PROVE  /\ pending' = [pending EXCEPT ![id] = x]
           /\ issued' = [issued EXCEPT ![id] = x]
           /\ expected_writebacks' =
                 IF RegistersWriteback(x.response)
                 THEN [expected_writebacks EXCEPT ![id] = WritebackEvent(id, x.response)]
                 ELSE expected_writebacks
           /\ ReuseIds \/ id \notin Issued
           /\ id \notin Pending
           /\ UNCHANGED <<matched_writebacks, mismatched_writebacks, orphan_writebacks,
                          timed_out, raised, seen, seen_events>>
BY DEF Issue, AcceptPush

LEMMA DeliverTables ==
    ASSUME OooTypes, NEW a, Deliver(a)
    PROVE  /\ \/ pending' = pending
              \/ a.txn_id \in Pending /\ pending' = [pending EXCEPT ![a.txn_id] = None]
           /\ UNCHANGED <<issued, writebackVars, timed_out, seen_events>>
BY DEF Deliver, CompareActual, OrphanResponse, AnswerPending

LEMMA DeliverEventTables ==
    ASSUME OooTypes, NEW e, DeliverEvent(e)
    PROVE  /\ OrphanWriteback(e) \/ MatchWriteback(e)
           /\ UNCHANGED <<issued, responseVars, seen>>
BY DEF DeliverEvent, CompareWriteback, OrphanWriteback, MatchWriteback

LEMMA OtherTables ==
    ASSUME (\E id \in TxnIds : IssueTwice(id)) \/ Lose \/ Duplicate
           \/ UNCHANGED benchVars
    PROVE  UNCHANGED <<issued, responseVars, writebackVars, seen, seen_events>>
BY DEF IssueTwice, RejectPush, Lose, Duplicate, benchVars, oooVars, transit

LEMMA GiveUpTables ==
    ASSUME GiveUp
    PROVE  /\ pending' = [id \in TxnIds |-> None]
           /\ UNCHANGED <<issued, writebackVars, raised, seen, seen_events>>
BY DEF GiveUp, DrainPending, transit

LEMMA TablesStep ==
    ASSUME OooTypes, TablesFollowIssued, [BenchNext]_benchVars
    PROVE  TablesFollowIssued'
<1> USE DEF TablesFollowIssued
<1>1. ASSUME NEW id \in TxnIds, NEW x \in Requests, NEW f \in Faults, Issue(id, x, f)
      PROVE  TablesFollowIssued'
    <2>1. SUFFICES ASSUME NEW i \in TxnIds
          PROVE  /\ pending'[i] # None => pending'[i] = issued'[i]
                 /\ ~ReuseIds /\ expected_writebacks'[i] # None =>
                       /\ i \in Evicting'
                       /\ expected_writebacks'[i] = WritebackEvent(i, issued'[i].response)
        OBVIOUS
    <2>2. CASE i = id
        BY <1>1, <2>2, IssueTables, RegistersNotNone
        DEF OooTypes, Evicting, Issued
    <2>3. CASE i # id
        BY <1>1, <2>3, IssueTables DEF OooTypes, Evicting, Issued
    <2> QED
        BY <2>2, <2>3
<1>2. ASSUME NEW a, Deliver(a) PROVE TablesFollowIssued'
    BY <1>2, DeliverTables DEF OooTypes, writebackVars, Evicting, Issued
<1>3. ASSUME NEW e, DeliverEvent(e) PROVE TablesFollowIssued'
    BY <1>3, DeliverEventTables
    DEF OooTypes, responseVars, Evicting, Issued, OrphanWriteback, MatchWriteback
<1>4. ASSUME GiveUp PROVE TablesFollowIssued'
    BY <1>4, GiveUpTables DEF writebackVars, Evicting, Issued
<1>5. ASSUME (\E id \in TxnIds : IssueTwice(id)) \/ Lose \/ Duplicate
             \/ UNCHANGED benchVars
      PROVE  TablesFollowIssued'
    BY <1>5, OtherTables DEF responseVars, writebackVars, Evicting, Issued
<1> HIDE DEF TablesFollowIssued
<1> QED
    BY <1>1, <1>2, <1>3, <1>4, <1>5 DEF BenchNext
-----------------------------------------------------------------------------
(***************************************************************************)
(* When each id is issued once, every writeback that was registered is     *)
(* expected, matched or refused, and only one of these.                    *)
(***************************************************************************)
LEMMA WritebackStep ==
    ASSUME WritebackInv, [BenchNext]_benchVars
    PROVE  EachWritebackSettledOnce'
<1> SUFFICES ASSUME ~ReuseIds
             PROVE  Cardinality(Evicting') = Cardinality(ExpectedWritebacks')
                       + matched_writebacks' + mismatched_writebacks' - orphan_writebacks'
    BY DEF EachWritebackSettledOnce
<1> DEFINE Balanced == Cardinality(Evicting) = Cardinality(ExpectedWritebacks)
                          + matched_writebacks + mismatched_writebacks - orphan_writebacks
<1>0. OooTypes /\ TablesFollowIssued /\ Balanced
    BY DEF WritebackInv, EachWritebackSettledOnce
<1>1. ASSUME NEW id \in TxnIds, NEW x \in Requests, NEW f \in Faults, Issue(id, x, f)
      PROVE  Balanced'
    <2>1. id \notin Evicting /\ id \notin ExpectedWritebacks
        BY <1>0, <1>1, IssueTables
        DEF Evicting, ExpectedWritebacks, TablesFollowIssued
    <2>2. CASE RegistersWriteback(x.response)
        <3>1. Evicting' = Evicting \cup {id}
            BY <1>0, <1>1, <2>2, IssueTables, RegistersNotNone
            DEF Evicting, Issued, OooTypes
        <3>2. ExpectedWritebacks' = ExpectedWritebacks \cup {id}
            BY <1>0, <1>1, <2>2, IssueTables, RegistersNotNone
            DEF ExpectedWritebacks, OooTypes
        <3>3. /\ Cardinality(Evicting') = Cardinality(Evicting) + 1
              /\ Cardinality(ExpectedWritebacks') = Cardinality(ExpectedWritebacks) + 1
            BY <2>1, <3>1, <3>2, PendingFinite, FS_AddElement
        <3> QED
            BY <1>0, <1>1, <3>3, IssueTables, PendingFinite DEF OooTypes
    <2>3. CASE ~RegistersWriteback(x.response)
        <3>1. Evicting' = Evicting
            BY <1>0, <1>1, <2>1, <2>3, IssueTables, RegistersNotNone
            DEF Evicting, Issued, OooTypes
        <3>2. ExpectedWritebacks' = ExpectedWritebacks
            BY <1>1, <1>0, <2>3, IssueTables DEF ExpectedWritebacks
        <3> QED
            BY <1>0, <1>1, <3>1, <3>2, IssueTables
    <2> QED
        BY <2>2, <2>3
<1>2. ASSUME NEW e, DeliverEvent(e) PROVE Balanced'
    <2>1. Evicting' = Evicting
        BY <1>0, <1>2, DeliverEventTables DEF Evicting, Issued
    <2>2. CASE OrphanWriteback(e)
        BY <1>0, <2>1, <2>2, PendingFinite
        DEF OrphanWriteback, ExpectedWritebacks, OooTypes
    <2>3. CASE MatchWriteback(e)
        <3>1. /\ e.txn_id \in ExpectedWritebacks
              /\ ExpectedWritebacks' = ExpectedWritebacks \ {e.txn_id}
            BY <1>0, <2>3 DEF MatchWriteback, ExpectedWritebacks, OooTypes
        <3>2. Cardinality(ExpectedWritebacks') = Cardinality(ExpectedWritebacks) - 1
            BY <3>1, PendingFinite, FS_RemoveElement
        <3> QED
            BY <1>0, <2>1, <2>3, <3>2, PendingFinite DEF MatchWriteback, OooTypes
    <2> QED
        BY <1>0, <1>2, <2>2, <2>3, DeliverEventTables
<1>3. ASSUME UNCHANGED <<issued, writebackVars>> PROVE Balanced'
    BY <1>0, <1>3 DEF writebackVars, Evicting, Issued, ExpectedWritebacks
<1>4. ASSUME NEW a, Deliver(a) PROVE Balanced'
    BY <1>0, <1>3, <1>4, DeliverTables
<1>5. ASSUME GiveUp PROVE Balanced'
    BY <1>3, <1>5, GiveUpTables
<1>6. ASSUME (\E id \in TxnIds : IssueTwice(id)) \/ Lose \/ Duplicate
             \/ UNCHANGED benchVars
      PROVE  Balanced'
    BY <1>3, <1>6, OtherTables
<1> HIDE DEF Balanced
<1>7. Balanced'
    BY <1>1, <1>2, <1>4, <1>5, <1>6 DEF BenchNext
<1> QED
    BY <1>7 DEF Balanced

THEOREM WritebacksSettledOnce == BenchSpec => []EachWritebackSettledOnce
<1>1. BenchInit => WritebackInv
    <2> SUFFICES ASSUME BenchInit PROVE WritebackInv
        OBVIOUS
    <2>1. Evicting = {} /\ ExpectedWritebacks = {}
        BY DEF BenchInit, OooInit, Evicting, Issued, ExpectedWritebacks
    <2>2. EachWritebackSettledOnce
        BY <2>1, FS_EmptySet DEF BenchInit, OooInit, EachWritebackSettledOnce
    <2>3. TablesFollowIssued
        BY DEF BenchInit, OooInit, TablesFollowIssued
    <2> QED
        BY <2>2, <2>3, TypesInit DEF WritebackInv
<1>2. WritebackInv /\ [BenchNext]_benchVars => WritebackInv'
    BY StepTypes, TablesStep, WritebackStep DEF WritebackInv
<1>3. WritebackInv => EachWritebackSettledOnce
    BY DEF WritebackInv
<1> QED
    BY <1>1, <1>2, <1>3, PTL DEF BenchSpec
-----------------------------------------------------------------------------
(***************************************************************************)
(* What is in the bag once one more message was compared.                  *)
(***************************************************************************)
LEMMA BagAddOne ==
    ASSUME NEW B, NEW m
    PROVE  /\ DOMAIN (B (+) One(m)) = DOMAIN B \cup {m}
           /\ m \notin DOMAIN B => (B (+) One(m))[m] = 1
           /\ \A n \in DOMAIN B : n # m /\ B[n] \in Nat => (B (+) One(m))[n] = B[n]
BY DEF (+), One, SetToBag

LEMMA BagRemoveOne ==
    ASSUME NEW B, NEW m
    PROVE  DOMAIN (B (-) One(m)) \subseteq DOMAIN B
BY DEF (-), One, SetToBag

\* Nothing was raised or drained yet.
CleanSoFar ==
    ~ReuseIds /\ timed_out = 0 /\ \A m \in Methods : raised[m] = 0

AnswersShown(id) ==
    /\ id \in Pending \/ id \notin Issued => AnswersOf(id) = {}
    /\ id \in Issued /\ id \notin Pending => AnsweredOnce(id)

EventsShown(id) ==
    /\ id \in ExpectedWritebacks \/ id \notin Issued => EventsOf(id) = {}
    /\ id \in Issued /\ id \notin ExpectedWritebacks => WrittenBackOnce(id)

FaithfulSoFar ==
    CleanSoFar => \A id \in TxnIds : AnswersShown(id) /\ EventsShown(id)

\* The adapter says of every answer which fields it observed.
AnswersCarry == \A a \in DOMAIN answers : a.observed_fields = ObservedFields

FaithInv ==
    OooTypes /\ TablesFollowIssued /\ AnswersCarry /\ FaithfulSoFar

LEMMA SameAnswers ==
    ASSUME NEW i \in TxnIds, AnswersShown(i), issued'[i] = issued[i],
           pending'[i] = pending[i], UNCHANGED seen
    PROVE  AnswersShown(i)'
BY DEF AnswersShown, Pending, Issued, AnswersOf, AnsweredOnce

LEMMA SameEvents ==
    ASSUME NEW i \in TxnIds, EventsShown(i), issued'[i] = issued[i],
           expected_writebacks'[i] = expected_writebacks[i], UNCHANGED seen_events
    PROVE  EventsShown(i)'
BY DEF EventsShown, ExpectedWritebacks, Issued, EventsOf, WrittenBackOnce

\* Neither a refusal nor a drain is ever forgotten.
LEMMA CleanBefore ==
    ASSUME OooTypes, [BenchNext]_benchVars, CleanSoFar'
    PROVE  CleanSoFar
<1> DEFINE Kept == timed_out <= timed_out' /\ \A m \in Methods : raised[m] <= raised'[m]
<1>1. ASSUME NEW id \in TxnIds, NEW x \in Requests, NEW f \in Faults, Issue(id, x, f)
      PROVE  Kept
    BY <1>1, IssueTables DEF OooTypes
<1>2. ASSUME NEW a, Deliver(a) PROVE Kept
    BY <1>2 DEF Deliver, CompareActual, OrphanResponse, AnswerPending, Raise, OooTypes
<1>3. ASSUME NEW e, DeliverEvent(e) PROVE Kept
    BY <1>3 DEF DeliverEvent, CompareWriteback, OrphanWriteback, MatchWriteback, Raise,
                OooTypes, responseVars
<1>4. ASSUME GiveUp PROVE Kept
    BY <1>4, PendingFinite DEF GiveUp, DrainPending, OooTypes
<1>5. ASSUME NEW id \in TxnIds, IssueTwice(id) PROVE Kept
    BY <1>5 DEF IssueTwice, RejectPush, Raise, OooTypes, responseVars
<1>6. ASSUME Lose \/ Duplicate \/ UNCHANGED benchVars PROVE Kept
    BY <1>6 DEF Lose, Duplicate, benchVars, oooVars, responseVars, OooTypes
<1> HIDE DEF Kept
<1>7. Kept
    BY <1>1, <1>2, <1>3, <1>4, <1>5, <1>6 DEF BenchNext
<1> QED
    BY <1>7 DEF Kept, CleanSoFar, OooTypes

LEMMA CarryStep ==
    ASSUME AnswersCarry, [BenchNext]_benchVars
    PROVE  AnswersCarry'
<1>1. ASSUME NEW id \in TxnIds, NEW x \in Requests, NEW f \in Faults, Issue(id, x, f)
      PROVE  AnswersCarry'
    <2> DEFINE m == Answer(id, Inject(x.response, f))
    <2>1. m.observed_fields = ObservedFields
        BY DEF Answer
    <2>2. answers' = answers (+) One(m)
        BY <1>1 DEF Issue
    <2> HIDE DEF m
    <2>3. DOMAIN answers' = DOMAIN answers \cup {m}
        BY <2>2, BagAddOne
    <2> QED
        BY <2>1, <2>3 DEF AnswersCarry
<1>2. ASSUME NEW a, a \in DOMAIN answers,
             answers' = answers (+) One(a) \/ answers' = answers (-) One(a)
      PROVE  AnswersCarry'
    <2>1. DOMAIN answers' \subseteq DOMAIN answers
        <3>1. CASE answers' = answers (+) One(a)
            <4>1. DOMAIN (answers (+) One(a)) = DOMAIN answers \cup {a}
                BY BagAddOne
            <4> QED
                BY <1>2, <3>1, <4>1
        <3>2. CASE answers' = answers (-) One(a)
            BY <3>2, BagRemoveOne
        <3> QED
            BY <1>2, <3>1, <3>2
    <2> QED
        BY <2>1 DEF AnswersCarry
<1>3. ASSUME NEW a, a \in DOMAIN answers, Deliver(a) PROVE AnswersCarry'
    BY <1>2, <1>3 DEF Deliver
<1>4. ASSUME UNCHANGED answers PROVE AnswersCarry'
    BY <1>4 DEF AnswersCarry
<1>5. ASSUME Lose \/ Duplicate PROVE AnswersCarry'
    BY <1>2, <1>4, <1>5 DEF Lose, Duplicate
<1>6. ASSUME NEW e, DeliverEvent(e) PROVE AnswersCarry'
    BY <1>4, <1>6 DEF DeliverEvent
<1>7. ASSUME NEW id \in TxnIds, IssueTwice(id) PROVE AnswersCarry'
    BY <1>4, <1>7 DEF IssueTwice, transit
<1>8. ASSUME GiveUp \/ UNCHANGED benchVars PROVE AnswersCarry'
    BY <1>4, <1>8 DEF GiveUp, transit, benchVars
<1> QED
    BY <1>1, <1>3, <1>5, <1>6, <1>7, <1>8 DEF BenchNext

(***************************************************************************)
(* A comparison that raises nothing has compared what it should.           *)
(***************************************************************************)
LEMMA ResponseStep ==
    ASSUME FaithInv, CleanSoFar, CleanSoFar', NEW a, a \in DOMAIN answers, Deliver(a),
           NEW i \in TxnIds
    PROVE  AnswersShown(i)'
<1>1. OooTypes /\ TablesFollowIssued /\ AnswersShown(i) /\ a.observed_fields = ObservedFields
    BY DEF FaithInv, FaithfulSoFar, AnswersCarry
<1>2. ~OrphanResponse(a)
    BY <1>1 DEF OrphanResponse, CleanSoFar, Raise, OooTypes, Methods
<1>3. AnswerPending(a) /\ issued' = issued /\ seen' = seen (+) One(a)
    BY <1>2 DEF Deliver, CompareActual
<1>4. /\ DOMAIN seen' = DOMAIN seen \cup {a}
      /\ a \notin DOMAIN seen => seen'[a] = 1
      /\ \A n \in DOMAIN seen : n # a /\ seen[n] = 1 => seen'[n] = 1
    <2> DEFINE B == seen (+) One(a)
    <2>1. /\ DOMAIN B = DOMAIN seen \cup {a}
          /\ a \notin DOMAIN seen => B[a] = 1
          /\ \A n \in DOMAIN seen : n # a /\ seen[n] \in Nat => B[n] = seen[n]
        BY BagAddOne
    <2>2. seen' = B
        BY <1>3
    <2> HIDE DEF B
    <2> QED
        BY <2>1, <2>2
<1>5. CASE i # a.txn_id
    <2>1. pending'[i] = pending[i]
        BY <1>1, <1>3, <1>5 DEF AnswerPending, OooTypes
    <2>2. /\ AnswersOf(i)' = AnswersOf(i)
          /\ \A n \in AnswersOf(i) : seen[n] = 1 => seen'[n] = 1
        BY <1>4, <1>5 DEF AnswersOf
    <2>3. AnsweredOnce(i) => AnsweredOnce(i)'
        BY <1>3, <2>2 DEF AnsweredOnce, AnswersOf
    <2> QED
        BY <1>1, <1>3, <2>1, <2>2, <2>3 DEF AnswersShown, Pending, Issued
<1>6. CASE i = a.txn_id
    <2> DEFINE x == issued[i]
               expected == Answer(i, x.response)
    <2>1. i \in Pending /\ pending[i] = x /\ pending'[i] = None
        BY <1>1, <1>3, <1>6 DEF AnswerPending, Pending, TablesFollowIssued, OooTypes
    <2>2. i \in Issued
        BY <2>1 DEF Pending, Issued
    <2>3. ~Diverges(x.op, x.response, a)
        BY <1>1, <1>3, <1>6, <2>1
        DEF AnswerPending, CleanSoFar, Raise, OooTypes, Methods
    <2>4. /\ x.op = "read" => a.data = expected.data
          /\ \A f \in Observed(expected) : a[f] = expected[f]
        BY <1>1, <2>3 DEF Diverges, Observed, CheckedFields, Answer
    <2>5. AnswersOf(i) = {} /\ a \notin DOMAIN seen
        BY <1>1, <1>6, <2>1 DEF AnswersShown, AnswersOf
    <2>6. a \in DOMAIN seen' /\ seen'[a] = 1 /\ AnswersOf(i)' = {a}
        BY <1>4, <1>6, <2>5 DEF AnswersOf
    <2> HIDE DEF expected
    <2>7. AnsweredOnce(i)'
        <3>1. issued'[i] = x
            BY <1>3
        <3> QED
            BY <2>4, <2>6, <3>1 DEF AnsweredOnce, expected
    <2> QED
        BY <1>3, <2>1, <2>2, <2>7 DEF AnswersShown, Pending, Issued
<1> QED
    BY <1>5, <1>6

LEMMA EventStep ==
    ASSUME FaithInv, CleanSoFar, CleanSoFar', NEW e, DeliverEvent(e), NEW i \in TxnIds
    PROVE  EventsShown(i)'
<1>1. OooTypes /\ TablesFollowIssued /\ EventsShown(i) /\ ~ReuseIds
    BY DEF FaithInv, FaithfulSoFar, CleanSoFar
<1>2. ~OrphanWriteback(e)
    BY <1>1 DEF OrphanWriteback, CleanSoFar, Raise, OooTypes, Methods
<1>3. MatchWriteback(e) /\ issued' = issued /\ seen_events' = seen_events (+) One(e)
    BY <1>2 DEF DeliverEvent, CompareWriteback
<1>4. /\ DOMAIN seen_events' = DOMAIN seen_events \cup {e}
      /\ e \notin DOMAIN seen_events => seen_events'[e] = 1
      /\ \A n \in DOMAIN seen_events : n # e /\ seen_events[n] = 1 => seen_events'[n] = 1
    <2> DEFINE B == seen_events (+) One(e)
    <2>1. /\ DOMAIN B = DOMAIN seen_events \cup {e}
          /\ e \notin DOMAIN seen_events => B[e] = 1
          /\ \A n \in DOMAIN seen_events : n # e /\ seen_events[n] \in Nat => B[n] = seen_events[n]
        BY BagAddOne
    <2>2. seen_events' = B
        BY <1>3
    <2> HIDE DEF B
    <2> QED
        BY <2>1, <2>2
<1>5. CASE i # e.txn_id
    <2>1. expected_writebacks'[i] = expected_writebacks[i]
        BY <1>1, <1>3, <1>5 DEF MatchWriteback, OooTypes
    <2>2. /\ EventsOf(i)' = EventsOf(i)
          /\ \A n \in EventsOf(i) : seen_events[n] = 1 => seen_events'[n] = 1
        BY <1>4, <1>5 DEF EventsOf
    <2>3. WrittenBackOnce(i) => WrittenBackOnce(i)'
        BY <1>3, <2>2 DEF WrittenBackOnce
    <2> QED
        BY <1>1, <1>3, <2>1, <2>2, <2>3 DEF EventsShown, ExpectedWritebacks, Issued
<1>6. CASE i = e.txn_id
    <2> DEFINE wb == WritebackEvent(i, issued[i].response)
    <2>1. /\ i \in ExpectedWritebacks /\ expected_writebacks[i] = wb
          /\ expected_writebacks'[i] = None /\ i \in Evicting
        BY <1>1, <1>3, <1>6
        DEF MatchWriteback, ExpectedWritebacks, TablesFollowIssued, OooTypes
    <2>2. e = wb
        BY <1>1, <1>3, <1>6, <2>1
        DEF MatchWriteback, CleanSoFar, Raise, OooTypes, Methods
    <2>3. EventsOf(i) = {} /\ e \notin DOMAIN seen_events
        BY <1>1, <1>6, <2>1 DEF EventsShown, EventsOf
    <2>4. seen_events'[e] = 1 /\ EventsOf(i)' = {e}
        BY <1>4, <1>6, <2>3 DEF EventsOf
    <2>5. WrittenBackOnce(i)'
        BY <1>3, <2>1, <2>2, <2>4 DEF WrittenBackOnce, Evicting
    <2> QED
        BY <1>3, <2>1, <2>5 DEF EventsShown, ExpectedWritebacks, Evicting, Issued
<1> QED
    BY <1>5, <1>6

LEMMA FaithfulStep ==
    ASSUME FaithInv, [BenchNext]_benchVars
    PROVE  FaithfulSoFar'
<1> SUFFICES ASSUME CleanSoFar', NEW i \in TxnIds
             PROVE  AnswersShown(i)' /\ EventsShown(i)'
    BY DEF FaithfulSoFar
<1>1. OooTypes
    BY DEF FaithInv
<1>2. CleanSoFar
    BY <1>1, CleanBefore
<1>3. AnswersShown(i) /\ EventsShown(i) /\ TablesFollowIssued /\ ~ReuseIds
    BY <1>2 DEF FaithInv, FaithfulSoFar, CleanSoFar
<1>4. ASSUME NEW id \in TxnIds, NEW x \in Requests, NEW f \in Faults, Issue(id, x, f)
      PROVE  AnswersShown(i)' /\ EventsShown(i)'
    <2> USE IssueTables
    <2>1. CASE i # id
        <3>1. /\ issued'[i] = issued[i] /\ pending'[i] = pending[i]
              /\ expected_writebacks'[i] = expected_writebacks[i]
              /\ UNCHANGED <<seen, seen_events>>
            BY <1>1, <1>4, <2>1 DEF OooTypes
        <3> QED
            BY <1>3, <3>1, SameAnswers, SameEvents
    <2>2. CASE i = id
        <3>1. AnswersOf(i) = {} /\ EventsOf(i) = {} /\ expected_writebacks[i] = None
            BY <1>1, <1>3, <1>4, <2>2
            DEF AnswersShown, EventsShown, TablesFollowIssued, Evicting
        <3>2. AnswersOf(i)' = {} /\ EventsOf(i)' = {}
            BY <1>1, <1>4, <3>1 DEF AnswersOf, EventsOf
        <3>3. pending'[i] = x /\ issued'[i] = x /\ x # None
            BY <1>1, <1>4, <2>2, RegistersNotNone DEF OooTypes
        <3>4. AnswersShown(i)'
            BY <3>2, <3>3 DEF AnswersShown, Pending
        <3>5. ~RegistersWriteback(x.response) \/ i \in ExpectedWritebacks'
            BY <1>1, <1>4, <2>2, RegistersNotNone DEF OooTypes, ExpectedWritebacks
        <3>6. EventsShown(i)'
            BY <3>2, <3>3, <3>5 DEF EventsShown, WrittenBackOnce
        <3> QED
            BY <3>4, <3>6
    <2> QED
        BY <2>1, <2>2
<1>5. ASSUME NEW a, a \in DOMAIN answers, Deliver(a)
      PROVE  AnswersShown(i)' /\ EventsShown(i)'
    <2>1. UNCHANGED <<issued, expected_writebacks, seen_events>>
        BY <1>1, <1>5, DeliverTables DEF writebackVars
    <2> QED
        BY <1>2, <1>3, <1>5, <2>1, ResponseStep, SameEvents
<1>6. ASSUME NEW e, DeliverEvent(e)
      PROVE  AnswersShown(i)' /\ EventsShown(i)'
    <2>1. UNCHANGED <<issued, pending, seen>>
        BY <1>1, <1>6, DeliverEventTables DEF responseVars
    <2> QED
        BY <1>2, <1>3, <1>6, <2>1, EventStep, SameAnswers
<1>7. ASSUME GiveUp PROVE AnswersShown(i)' /\ EventsShown(i)'
    <2>1. Cardinality(Pending) = 0
        BY <1>1, <1>2, <1>7, PendingFinite DEF GiveUp, DrainPending, CleanSoFar
    <2> QED
        BY <1>7, <2>1, PendingFinite, FS_EmptySet DEF GiveUp
<1>8. ASSUME (\E id \in TxnIds : IssueTwice(id)) \/ Lose \/ Duplicate
             \/ UNCHANGED benchVars
      PROVE  AnswersShown(i)' /\ EventsShown(i)'
    <2>1. UNCHANGED <<issued, pending, expected_writebacks, seen, seen_events>>
        BY <1>8, OtherTables DEF responseVars, writebackVars
    <2> QED
        BY <1>3, <2>1, SameAnswers, SameEvents
<1> QED
    BY <1>4, <1>5, <1>6, <1>7, <1>8 DEF BenchNext

(***************************************************************************)
(* A test that ends with nothing raised, pending, expected or drained was  *)
(* shown a faithful answer, once, for each request, and each predicted     *)
(* writeback, once, whatever the faults, the losses and the order.         *)
(***************************************************************************)
THEOREM PassIsFaithful == BenchSpec => []PassMeansFaithful
<1>1. BenchInit => FaithInv
    <2> SUFFICES ASSUME BenchInit PROVE FaithInv
        OBVIOUS
    <2>1. /\ Issued = {} /\ TablesFollowIssued
          /\ DOMAIN answers = {} /\ DOMAIN seen = {} /\ DOMAIN seen_events = {}
        BY DEF BenchInit, OooInit, Issued, TablesFollowIssued, EmptyBag, SetToBag
    <2>2. FaithfulSoFar
        BY <2>1 DEF FaithfulSoFar, AnswersShown, EventsShown, AnswersOf, EventsOf
    <2> QED
        BY <2>1, <2>2, TypesInit DEF FaithInv, AnswersCarry
<1>2. FaithInv /\ [BenchNext]_benchVars => FaithInv'
    <2> SUFFICES ASSUME FaithInv, [BenchNext]_benchVars PROVE FaithInv'
        OBVIOUS
    <2>1. OooTypes' /\ TablesFollowIssued' /\ AnswersCarry'
        BY StepTypes, TablesStep, CarryStep DEF FaithInv
    <2> QED
        BY <2>1, FaithfulStep DEF FaithInv
<1>3. FaithInv => PassMeansFaithful
    <2> SUFFICES ASSUME FaithInv, TestPasses, ~ReuseIds, NEW id \in Issued
                 PROVE  AnsweredOnce(id) /\ WrittenBackOnce(id)
        BY DEF PassMeansFaithful
    <2>1. CleanSoFar
        BY DEF FaithInv, OooTypes, TestPasses, CleanSoFar
    <2>2. id \in TxnIds /\ id \notin Pending /\ id \notin ExpectedWritebacks
        BY DEF Issued, TestPasses
    <2> QED
        BY <2>1, <2>2 DEF FaithInv, FaithfulSoFar, AnswersShown, EventsShown
<1> QED
    BY <1>1, <1>2, <1>3, PTL DEF BenchSpec
-----------------------------------------------------------------------------
(***************************************************************************)
(* Order of arrival.  While nothing was drained and every answer and event *)
(* compared so far came once and as predicted, an answer that was compared *)
(* is accounted for by the copy that is seen, so that a second refusal of  *)
(* its id needs a second copy.                                             *)
(***************************************************************************)
Disturbed ==
    \/ timed_out > 0
    \/ \E a \in DOMAIN seen :
          seen[a] > 1 \/ a # Answer(a.txn_id, issued[a.txn_id].response)
    \/ \E e \in DOMAIN seen_events :
          \/ seen_events[e] > 1
          \/ e # WritebackEvent(e.txn_id, issued[e.txn_id].response)

TransitIssued ==
    /\ \A a \in DOMAIN answers : a.txn_id \in Issued
    /\ \A e \in DOMAIN events : e.txn_id \in Evicting

SeenCounted ==
    /\ \A a \in DOMAIN seen : seen[a] \in Nat \ {0} /\ a.txn_id \in Issued
    /\ \A e \in DOMAIN seen_events : seen_events[e] \in Nat \ {0} /\ e.txn_id \in Issued

NothingRaised ==
    /\ raised["compare_actual"] = 0 /\ raised["compare_writeback"] = 0
    /\ \A id \in Issued \ Pending : Answer(id, issued[id].response) \in DOMAIN seen
    /\ \A id \in Evicting \ ExpectedWritebacks :
          WritebackEvent(id, issued[id].response) \in DOMAIN seen_events

OrderInv ==
    /\ OooTypes /\ TablesFollowIssued
    /\ ~ReuseIds => TransitIssued /\ SeenCounted /\ (~Disturbed => NothingRaised)

\* A fault changes neither whether a line is evicted nor the id.
LEMMA InjectKeepsEviction ==
    ASSUME NEW x \in Requests, NEW f \in Faults
    PROVE  Inject(x.response, f).evicted_dirty = x.response.evicted_dirty
<1>1. "evicted_dirty" \in DOMAIN x.response
    BY RequestsAssumption DEF CheckedFields
<1> QED
    BY <1>1, FaultsAssumption DEF Inject

LEMMA BagCounts ==
    ASSUME NEW B, NEW m, \A n \in DOMAIN B : B[n] \in Nat \ {0}
    PROVE  /\ DOMAIN (B (+) One(m)) = DOMAIN B \cup {m}
           /\ \A n \in DOMAIN (B (+) One(m)) : (B (+) One(m))[n] \in Nat \ {0}
           /\ \A n \in DOMAIN B : (B (+) One(m))[n] >= B[n]
           /\ m \in DOMAIN B => (B (+) One(m))[m] > 1
BY DEF (+), One, SetToBag

LEMMA EvictingRegisters ==
    ASSUME OooTypes, NEW id \in Issued
    PROVE  /\ id \in TxnIds /\ issued[id] \in Requests
           /\ id \in Evicting <=> issued[id].response.evicted_dirty
BY RequestsAssumption DEF OooTypes, Issued, Evicting, RegistersWriteback

\* A disturbance is never forgotten.
LEMMA DisturbedStays ==
    ASSUME SeenCounted, OooTypes, Disturbed,
           timed_out' \in Nat, timed_out' >= timed_out,
           \A id \in Issued : issued'[id] = issued[id],
           seen' = seen \/ \E m : seen' = seen (+) One(m),
           seen_events' = seen_events \/ \E m : seen_events' = seen_events (+) One(m)
    PROVE  Disturbed'
<1>1. CASE timed_out > 0
    BY <1>1 DEF Disturbed, OooTypes
<1>2. /\ DOMAIN seen \subseteq DOMAIN seen'
      /\ \A n \in DOMAIN seen : seen'[n] >= seen[n] /\ seen'[n] \in Nat /\ seen[n] \in Nat
    <2>1. CASE seen' = seen
        BY <2>1 DEF SeenCounted
    <2>2. ASSUME NEW m, seen' = seen (+) One(m)
          PROVE  /\ DOMAIN seen \subseteq DOMAIN seen'
                 /\ \A n \in DOMAIN seen : seen'[n] >= seen[n] /\ seen'[n] \in Nat
        <3> DEFINE B == seen (+) One(m)
        <3>1. /\ DOMAIN B = DOMAIN seen \cup {m}
              /\ \A n \in DOMAIN B : B[n] \in Nat \ {0}
              /\ \A n \in DOMAIN seen : B[n] >= seen[n]
            BY BagCounts DEF SeenCounted
        <3>2. seen' = B
            BY <2>2
        <3> HIDE DEF B
        <3> QED
            BY <3>1, <3>2
    <2> QED
        BY <2>1, <2>2 DEF SeenCounted
<1>3. /\ DOMAIN seen_events \subseteq DOMAIN seen_events'
      /\ \A n \in DOMAIN seen_events :
            /\ seen_events'[n] >= seen_events[n]
            /\ seen_events'[n] \in Nat /\ seen_events[n] \in Nat
    <2>1. CASE seen_events' = seen_events
        BY <2>1 DEF SeenCounted
    <2>2. ASSUME NEW m, seen_events' = seen_events (+) One(m)
          PROVE  /\ DOMAIN seen_events \subseteq DOMAIN seen_events'
                 /\ \A n \in DOMAIN seen_events :
                       seen_events'[n] >= seen_events[n] /\ seen_events'[n] \in Nat
        <3> DEFINE B == seen_events (+) One(m)
        <3>1. /\ DOMAIN B = DOMAIN seen_events \cup {m}
              /\ \A n \in DOMAIN B : B[n] \in Nat \ {0}
              /\ \A n \in DOMAIN seen_events : B[n] >= seen_events[n]
            BY BagCounts DEF SeenCounted
        <3>2. seen_events' = B
            BY <2>2
        <3> HIDE DEF B
        <3> QED
            BY <3>1, <3>2
    <2> QED
        BY <2>1, <2>2 DEF SeenCounted
<1>4. ASSUME NEW a \in DOMAIN seen,
             seen[a] > 1 \/ a # Answer(a.txn_id, issued[a.txn_id].response)
      PROVE  Disturbed'
    <2>1. seen'[a] > 1 \/ a # Answer(a.txn_id, issued'[a.txn_id].response)
        BY <1>2, <1>4 DEF SeenCounted
    <2> QED
        BY <1>2, <2>1 DEF Disturbed, Answer
<1>5. ASSUME NEW e \in DOMAIN seen_events,
             seen_events[e] > 1 \/ e # WritebackEvent(e.txn_id, issued[e.txn_id].response)
      PROVE  Disturbed'
    <2>1. seen_events'[e] > 1 \/ e # WritebackEvent(e.txn_id, issued'[e.txn_id].response)
        BY <1>3, <1>5 DEF SeenCounted
    <2> QED
        BY <1>3, <2>1 DEF Disturbed, WritebackEvent
<1> QED
    BY <1>1, <1>4, <1>5 DEF Disturbed

\* What a step may do to the messages and to what was seen of them.
LEMMA MessagesMove ==
    ASSUME [BenchNext]_benchVars, ~(\E id \in TxnIds, x \in Requests, f \in Faults : Issue(id, x, f))
    PROVE  /\ issued' = issued
           /\ DOMAIN answers' \subseteq DOMAIN answers
           /\ DOMAIN events' \subseteq DOMAIN events
<1>1. ASSUME NEW B, NEW m, m \in DOMAIN B
      PROVE  /\ DOMAIN (B (+) One(m)) \subseteq DOMAIN B
             /\ DOMAIN (B (-) One(m)) \subseteq DOMAIN B
    <2>1. DOMAIN (B (+) One(m)) = DOMAIN B \cup {m}
        BY BagAddOne
    <2> QED
        BY <1>1, <2>1, BagRemoveOne
<1>2. ASSUME NEW a, Deliver(a) PROVE DOMAIN answers' \subseteq DOMAIN answers
    BY <1>2, BagRemoveOne DEF Deliver
<1>3. ASSUME NEW e, DeliverEvent(e) PROVE DOMAIN events' \subseteq DOMAIN events
    BY <1>3, BagRemoveOne DEF DeliverEvent
<1>4. ASSUME Lose PROVE /\ DOMAIN answers' \subseteq DOMAIN answers
                        /\ DOMAIN events' \subseteq DOMAIN events
    BY <1>1, <1>4 DEF Lose
<1>5. ASSUME Duplicate PROVE /\ DOMAIN answers' \subseteq DOMAIN answers
                             /\ DOMAIN events' \subseteq DOMAIN events
    BY <1>1, <1>5 DEF Duplicate
<1>6. issued' = issued
    BY DEF BenchNext, Deliver, DeliverEvent, Lose, Duplicate, GiveUp, IssueTwice, benchVars
<1>7. CASE UNCHANGED benchVars
    BY <1>7 DEF benchVars, transit
<1>8. CASE GiveUp \/ \E id \in TxnIds : IssueTwice(id)
    BY <1>8 DEF GiveUp, IssueTwice, transit
<1> QED
    BY <1>2, <1>3, <1>4, <1>5, <1>6, <1>7, <1>8 DEF BenchNext, Deliver, DeliverEvent

LEMMA IssueIsNew ==
    ASSUME OooTypes, ~ReuseIds, NEW id \in TxnIds, NEW x \in Requests, NEW f \in Faults,
           Issue(id, x, f)
    PROVE  /\ id \notin Issued /\ Issued' = Issued \cup {id} /\ issued'[id] = x
           /\ \A i \in Issued : issued'[i] = issued[i]
           /\ Evicting \subseteq Evicting'
           /\ \A i \in Evicting' : i # id => i \in Evicting
           /\ id \in Evicting' <=> RegistersWriteback(x.response)
<1>1. /\ issued' = [issued EXCEPT ![id] = x] /\ id \notin Issued /\ x # None
    BY IssueTables, RegistersNotNone
<1>2. \A i \in TxnIds : issued'[i] = IF i = id THEN x ELSE issued[i]
    BY <1>1 DEF OooTypes
<1> QED
    BY <1>1, <1>2 DEF Issued, Evicting

LEMMA TransitStep ==
    ASSUME OooTypes, TransitIssued, ~ReuseIds, [BenchNext]_benchVars
    PROVE  TransitIssued'
<1>1. ASSUME NEW id \in TxnIds, NEW x \in Requests, NEW f \in Faults, Issue(id, x, f)
      PROVE  TransitIssued'
    <2> DEFINE actual == Inject(x.response, f)
               a == Answer(id, actual)
               e == WritebackEvent(id, actual)
    <2>1. a.txn_id = id /\ e.txn_id = id
        BY DEF Answer, WritebackEvent
    <2>2. actual.evicted_dirty => RegistersWriteback(x.response)
        BY InjectKeepsEviction, RequestsAssumption DEF RegistersWriteback
    <2>3. /\ answers' = answers (+) One(a)
          /\ events' = IF actual.evicted_dirty THEN events (+) One(e) ELSE events
        BY <1>1 DEF Issue
    <2> HIDE DEF a, e, actual
    <2>4. /\ DOMAIN answers' = DOMAIN answers \cup {a}
          /\ DOMAIN (events (+) One(e)) = DOMAIN events \cup {e}
        BY <2>3, BagAddOne
    <2>5. \A m \in DOMAIN answers' : m.txn_id \in Issued'
        BY <1>1, <2>1, <2>4, IssueIsNew DEF TransitIssued
    <2>6. \A m \in DOMAIN events' : m.txn_id \in Evicting'
        BY <1>1, <2>1, <2>2, <2>3, <2>4, IssueIsNew DEF TransitIssued
    <2> QED
        BY <2>5, <2>6 DEF TransitIssued
<1>2. ASSUME ~(\E id \in TxnIds, x \in Requests, f \in Faults : Issue(id, x, f))
      PROVE  TransitIssued'
    BY <1>2, MessagesMove DEF TransitIssued, Issued, Evicting
<1> QED
    BY <1>1, <1>2

\* What is seen only grows, by messages that were in transit.
SeenGrows ==
    /\ seen' = seen \/ \E m \in DOMAIN answers : seen' = seen (+) One(m)
    /\ seen_events' = seen_events \/ \E m \in DOMAIN events : seen_events' = seen_events (+) One(m)
    /\ timed_out' >= timed_out
    /\ \A id \in Issued : issued'[id] = issued[id]

LEMMA SeenMoves ==
    ASSUME OooTypes, ~ReuseIds, [BenchNext]_benchVars
    PROVE  SeenGrows
<1>1. ASSUME NEW id \in TxnIds, NEW x \in Requests, NEW f \in Faults, Issue(id, x, f)
      PROVE  SeenGrows
    BY <1>1, IssueTables, IssueIsNew DEF SeenGrows, OooTypes
<1>2. ASSUME NEW a \in DOMAIN answers, Deliver(a) PROVE SeenGrows
    BY <1>2 DEF Deliver, CompareActual, OrphanResponse, AnswerPending, SeenGrows, OooTypes
<1>3. ASSUME NEW e \in DOMAIN events, DeliverEvent(e) PROVE SeenGrows
    BY <1>3, DeliverEventTables DEF DeliverEvent, responseVars, SeenGrows, OooTypes
<1>4. ASSUME GiveUp PROVE SeenGrows
    BY <1>4, PendingFinite DEF GiveUp, DrainPending, transit, SeenGrows, OooTypes
<1>5. ASSUME (\E id \in TxnIds : IssueTwice(id)) \/ Lose \/ Duplicate \/ UNCHANGED benchVars
      PROVE  SeenGrows
    BY <1>5, OtherTables DEF responseVars, SeenGrows, OooTypes
<1> QED
    BY <1>1, <1>2, <1>3, <1>4, <1>5 DEF BenchNext

LEMMA SeenStep ==
    ASSUME OooTypes, TransitIssued, SeenCounted, ~ReuseIds, [BenchNext]_benchVars
    PROVE  SeenCounted'
<1>1. SeenGrows
    BY SeenMoves
<1>2. \A id \in Issued : id \in Issued'
    BY <1>1 DEF SeenGrows, Issued
<1>3. \A a \in DOMAIN seen' : seen'[a] \in Nat \ {0} /\ a.txn_id \in Issued'
    <2>1. ASSUME NEW m \in DOMAIN answers, seen' = seen (+) One(m)
          PROVE  \A a \in DOMAIN seen' : seen'[a] \in Nat \ {0} /\ a.txn_id \in Issued'
        <3> DEFINE B == seen (+) One(m)
        <3>1. /\ DOMAIN B = DOMAIN seen \cup {m}
              /\ \A n \in DOMAIN B : B[n] \in Nat \ {0}
            BY BagCounts DEF SeenCounted
        <3>2. seen' = B
            BY <2>1
        <3> HIDE DEF B
        <3> QED
            BY <1>2, <3>1, <3>2 DEF SeenCounted, TransitIssued
    <2> QED
        BY <1>1, <1>2, <2>1 DEF SeenGrows, SeenCounted
<1>4. \A e \in DOMAIN seen_events' : seen_events'[e] \in Nat \ {0} /\ e.txn_id \in Issued'
    <2>1. ASSUME NEW m \in DOMAIN events, seen_events' = seen_events (+) One(m)
          PROVE  \A e \in DOMAIN seen_events' :
                    seen_events'[e] \in Nat \ {0} /\ e.txn_id \in Issued'
        <3> DEFINE B == seen_events (+) One(m)
        <3>1. /\ DOMAIN B = DOMAIN seen_events \cup {m}
              /\ \A n \in DOMAIN B : B[n] \in Nat \ {0}
            BY BagCounts DEF SeenCounted
        <3>2. seen_events' = B
            BY <2>1
        <3>3. m.txn_id \in Issued
            BY DEF TransitIssued, Evicting
        <3> HIDE DEF B
        <3> QED
            BY <1>2, <3>1, <3>2, <3>3 DEF SeenCounted
    <2> QED
        BY <1>1, <1>2, <2>1 DEF SeenGrows, SeenCounted
<1> QED
    BY <1>3, <1>4 DEF SeenCounted

LEMMA QuietBefore ==
    ASSUME OooTypes, SeenCounted, ~ReuseIds, [BenchNext]_benchVars, ~Disturbed'
    PROVE  ~Disturbed
<1>1. SeenGrows
    BY SeenMoves
<1>2. timed_out' \in Nat
    BY StepTypes DEF OooTypes
<1> QED
    BY <1>1, <1>2, DisturbedStays DEF SeenGrows

(***************************************************************************)
(* A comparison of the right answer raises only the second time.           *)
(***************************************************************************)
LEMMA ResponseInOrder ==
    ASSUME OrderInv, ~ReuseIds, ~Disturbed, ~Disturbed',
           NEW a \in DOMAIN answers, Deliver(a)
    PROVE  NothingRaised'
<1> DEFINE i == a.txn_id
           expected == Answer(i, issued[i].response)
<1>1. /\ OooTypes /\ TablesFollowIssued /\ SeenCounted /\ NothingRaised /\ i \in Issued
    BY DEF OrderInv, TransitIssued
<1>2. /\ seen' = seen (+) One(a) /\ issued' = issued /\ seen_events' = seen_events
      /\ UNCHANGED writebackVars /\ timed_out' = timed_out
    BY DEF Deliver, CompareActual, OrphanResponse, AnswerPending
<1>3. /\ DOMAIN seen' = DOMAIN seen \cup {a}
      /\ a \in DOMAIN seen => seen'[a] > 1
    <2> DEFINE B == seen (+) One(a)
    <2>1. DOMAIN B = DOMAIN seen \cup {a} /\ (a \in DOMAIN seen => B[a] > 1)
        BY <1>1, BagCounts DEF SeenCounted
    <2>2. seen' = B
        BY <1>2
    <2> HIDE DEF B
    <2> QED
        BY <2>1, <2>2
<1>4. a = expected /\ a \notin DOMAIN seen
    BY <1>2, <1>3 DEF Disturbed
<1>5. i \in Pending
    BY <1>1, <1>4 DEF NothingRaised
<1>6. AnswerPending(a)
    BY <1>5 DEF Deliver, CompareActual, OrphanResponse
<1>7. pending[i] = issued[i] /\ i \in TxnIds
    BY <1>1, <1>5 DEF TablesFollowIssued, Pending
<1>8. ~Diverges(pending[i].op, pending[i].response, a)
    BY <1>4, <1>7 DEF Diverges, Observed, CheckedFields, Answer
<1>9. UNCHANGED raised
    BY <1>6, <1>8 DEF AnswerPending
<1>10. Pending' = Pending \ {i}
    BY <1>1, <1>6, AnswerPendingSet
<1>11. /\ Issued' = Issued /\ Evicting' = Evicting /\ ExpectedWritebacks' = ExpectedWritebacks
    BY <1>2 DEF Issued, Evicting, ExpectedWritebacks, writebackVars
<1>12. \A id \in Issued' \ Pending' : Answer(id, issued'[id].response) \in DOMAIN seen'
    <2> SUFFICES ASSUME NEW id \in Issued, id \notin Pending'
                 PROVE  Answer(id, issued[id].response) \in DOMAIN seen'
        BY <1>2, <1>11
    <2>1. CASE id = i
        BY <1>3, <1>4, <2>1
    <2>2. CASE id # i
        BY <1>1, <1>3, <1>10, <2>2 DEF NothingRaised
    <2> QED
        BY <2>1, <2>2
<1> QED
    BY <1>1, <1>2, <1>9, <1>11, <1>12 DEF NothingRaised

LEMMA EventInOrder ==
    ASSUME OrderInv, ~ReuseIds, ~Disturbed, ~Disturbed',
           NEW e \in DOMAIN events, DeliverEvent(e)
    PROVE  NothingRaised'
<1> DEFINE i == e.txn_id
           expected == WritebackEvent(i, issued[i].response)
<1>1. /\ OooTypes /\ TablesFollowIssued /\ SeenCounted /\ NothingRaised
      /\ i \in Evicting /\ i \in Issued /\ i \in TxnIds
    BY DEF OrderInv, TransitIssued, Evicting, Issued
<1>2. /\ seen_events' = seen_events (+) One(e)
      /\ UNCHANGED <<issued, responseVars, seen>>
    BY <1>1, DeliverEventTables DEF DeliverEvent
<1>3. /\ DOMAIN seen_events' = DOMAIN seen_events \cup {e}
      /\ e \in DOMAIN seen_events => seen_events'[e] > 1
    <2> DEFINE B == seen_events (+) One(e)
    <2>1. DOMAIN B = DOMAIN seen_events \cup {e} /\ (e \in DOMAIN seen_events => B[e] > 1)
        BY <1>1, BagCounts DEF SeenCounted
    <2>2. seen_events' = B
        BY <1>2
    <2> HIDE DEF B
    <2> QED
        BY <2>1, <2>2
<1>4. e = expected /\ e \notin DOMAIN seen_events
    BY <1>2, <1>3 DEF Disturbed
<1>5. i \in ExpectedWritebacks
    BY <1>1, <1>4 DEF NothingRaised
<1>6. MatchWriteback(e)
    BY <1>5 DEF DeliverEvent, CompareWriteback, OrphanWriteback
<1>7. expected_writebacks[i] = expected
    BY <1>1, <1>5 DEF TablesFollowIssued, ExpectedWritebacks
<1>8. /\ UNCHANGED raised
      /\ expected_writebacks' = [expected_writebacks EXCEPT ![i] = None]
    BY <1>4, <1>6, <1>7 DEF MatchWriteback
<1>9. \A id \in TxnIds : id # i => (id \in ExpectedWritebacks' <=> id \in ExpectedWritebacks)
    BY <1>1, <1>8 DEF ExpectedWritebacks, OooTypes
<1>10. Issued' = Issued /\ Evicting' = Evicting /\ Pending' = Pending
    BY <1>2 DEF Issued, Evicting, Pending, responseVars
<1>11. \A id \in Evicting' \ ExpectedWritebacks' :
          WritebackEvent(id, issued'[id].response) \in DOMAIN seen_events'
    <2> SUFFICES ASSUME NEW id \in Evicting, id \notin ExpectedWritebacks'
                 PROVE  WritebackEvent(id, issued[id].response) \in DOMAIN seen_events'
        BY <1>2, <1>10
    <2>1. CASE id = i
        BY <1>3, <1>4, <2>1
    <2>2. CASE id # i
        BY <1>1, <1>3, <1>9, <2>2 DEF NothingRaised, Evicting, Issued
    <2> QED
        BY <2>1, <2>2
<1> QED
    BY <1>1, <1>2, <1>8, <1>10, <1>11 DEF NothingRaised

LEMMA NothingRaisedStep ==
    ASSUME OrderInv, ~ReuseIds, ~Disturbed', [BenchNext]_benchVars
    PROVE  NothingRaised'
<1>1. OooTypes /\ TablesFollowIssued /\ ~Disturbed /\ NothingRaised
    BY QuietBefore DEF OrderInv
<1>2. ASSUME NEW id \in TxnIds, NEW x \in Requests, NEW f \in Faults, Issue(id, x, f)
      PROVE  NothingRaised'
    <2>1. /\ id \notin Issued /\ Issued' = Issued \cup {id}
          /\ \A i \in Issued : issued'[i] = issued[i]
          /\ \A i \in Evicting' : i # id => i \in Evicting
          /\ id \in Evicting' <=> RegistersWriteback(x.response)
        BY <1>1, <1>2, IssueIsNew
    <2>2. /\ UNCHANGED <<raised, seen, seen_events>>
          /\ pending' = [pending EXCEPT ![id] = x]
          /\ expected_writebacks' =
                 IF RegistersWriteback(x.response)
                 THEN [expected_writebacks EXCEPT ![id] = WritebackEvent(id, x.response)]
                 ELSE expected_writebacks
        BY <1>1, <1>2, IssueTables
    <2>3. Pending' = Pending \cup {id}
        BY <1>1, <2>2, RegistersNotNone DEF Pending, OooTypes
    <2>4. /\ ExpectedWritebacks \subseteq ExpectedWritebacks'
          /\ id \in Evicting' => id \in ExpectedWritebacks'
        BY <1>1, <2>1, <2>2, RegistersNotNone DEF ExpectedWritebacks, OooTypes
    <2>5. \A i \in Issued' \ Pending' : Answer(i, issued'[i].response) \in DOMAIN seen'
        BY <1>1, <2>1, <2>2, <2>3 DEF NothingRaised
    <2>6. \A i \in Evicting' \ ExpectedWritebacks' :
             WritebackEvent(i, issued'[i].response) \in DOMAIN seen_events'
        BY <1>1, <2>1, <2>2, <2>4 DEF NothingRaised, Evicting
    <2> QED
        BY <1>1, <2>2, <2>5, <2>6 DEF NothingRaised
<1>3. ASSUME NEW a \in DOMAIN answers, Deliver(a) PROVE NothingRaised'
    BY <1>1, <1>3, ResponseInOrder
<1>4. ASSUME NEW e \in DOMAIN events, DeliverEvent(e) PROVE NothingRaised'
    BY <1>1, <1>4, EventInOrder
<1>5. ~GiveUp
    <2> SUFFICES ASSUME GiveUp PROVE FALSE
        OBVIOUS
    <2>1. Cardinality(Pending) # 0
        BY PendingFinite, FS_EmptySet DEF GiveUp
    <2>2. timed_out' > 0
        BY <1>1, <2>1, PendingFinite DEF GiveUp, DrainPending, OooTypes
    <2> QED
        BY <2>2 DEF Disturbed
<1>6. ASSUME (\E id \in TxnIds : IssueTwice(id)) \/ Lose \/ Duplicate \/ UNCHANGED benchVars
      PROVE  NothingRaised'
    <2>1. UNCHANGED <<issued, pending, expected_writebacks, seen, seen_events>>
        BY <1>6, OtherTables DEF responseVars, writebackVars
    <2>2. /\ raised'["compare_actual"] = raised["compare_actual"]
          /\ raised'["compare_writeback"] = raised["compare_writeback"]
        BY <1>1, <1>6 DEF IssueTwice, RejectPush, Raise, Lose, Duplicate, benchVars, oooVars,
                          OooTypes, Methods
    <2> QED
        BY <1>1, <2>1, <2>2
        DEF NothingRaised, Issued, Pending, Evicting, ExpectedWritebacks
<1> QED
    BY <1>2, <1>3, <1>4, <1>5, <1>6 DEF BenchNext

(***************************************************************************)
(* The scoreboard refuses or orphans nothing on account of the order in    *)
(* which answers and events arrive, or because one of them was lost: when  *)
(* ids are not reused, something came twice, or wrong, or after a drain.   *)
(***************************************************************************)
THEOREM OrderAloneIsNoFault == BenchSpec => []OrderIsNoFault
<1>1. BenchInit => OrderInv
    <2> SUFFICES ASSUME BenchInit PROVE OrderInv
        OBVIOUS
    <2>1. /\ Issued = {} /\ TablesFollowIssued
          /\ DOMAIN answers = {} /\ DOMAIN events = {}
          /\ DOMAIN seen = {} /\ DOMAIN seen_events = {}
        BY DEF BenchInit, OooInit, Issued, TablesFollowIssued, EmptyBag, SetToBag
    <2>2. raised["compare_actual"] = 0 /\ raised["compare_writeback"] = 0
        BY DEF BenchInit, OooInit
    <2> QED
        BY <2>1, <2>2, TypesInit
        DEF OrderInv, TransitIssued, SeenCounted, NothingRaised, Evicting
<1>2. OrderInv /\ [BenchNext]_benchVars => OrderInv'
    <2> SUFFICES ASSUME OrderInv, [BenchNext]_benchVars PROVE OrderInv'
        OBVIOUS
    <2>1. OooTypes' /\ TablesFollowIssued'
        BY StepTypes, TablesStep DEF OrderInv
    <2>2. ~ReuseIds => TransitIssued' /\ SeenCounted'
        BY TransitStep, SeenStep DEF OrderInv
    <2>3. ~ReuseIds /\ ~Disturbed' => NothingRaised'
        BY NothingRaisedStep
    <2> QED
        BY <2>1, <2>2, <2>3 DEF OrderInv
<1>3. OrderInv => OrderIsNoFault
    <2> SUFFICES ASSUME OrderInv, ~ReuseIds, ~Disturbed
                 PROVE  ~(raised["compare_actual"] + raised["compare_writeback"] > 0)
        BY DEF OrderIsNoFault, Disturbed
    <2> QED
        BY DEF OrderInv, NothingRaised
<1> QED
    BY <1>1, <1>2, <1>3, PTL DEF BenchSpec
=============================================================================
