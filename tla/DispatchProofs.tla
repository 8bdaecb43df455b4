--------------------------- MODULE DispatchProofs ---------------------------
(***************************************************************************)
(* The registries are exact and implement the slot pools, for any number   *)
(* of deliveries, commits, tasks and any rulesets.                         *)
(***************************************************************************)
EXTENDS Dispatch, FiniteSetTheorems, TLAPS

\* A delivery nobody has looked at has no runs.
WaitingFresh ==
  \A d \in Deliveries : handler[d] = "waiting" =>
    review[d] = "none" /\ \A t \in Tasks : script[d][t] = "none"

\* A task still to be tried has no run for this delivery.
TodoFresh ==
  \A d \in Deliveries : \A t \in todo[d] : script[d][t] = "none"

\* Whoever dispatches or runs has read a ruleset.
RulesetRead ==
  \A d \in Deliveries :
    \/ handler[d] = "dispatching"
    \/ Live(d)
    \/ \E t \in Tasks : script[d][t] = "running"
    => loaded[d] \in Rulesets

(* The inductive invariant.  RegistryExact is not inductive by itself: a   *)
(* handler that selects must not overwrite a review that is alive.         *)
IInv ==
  /\ TypeOK
  /\ RegistryExact
  /\ PermitsExact
  /\ WaitingFresh
  /\ TodoFresh
  /\ RulesetRead

-----------------------------------------------------------------------------
(* Counting.                                                               *)

LEMMA LimitsAreNat ==
  ASSUME NEW d \in Deliveries, loaded[d] \in Rulesets
  PROVE  /\ ReviewLimit(d) \in RulesetLimits /\ ReviewLimit(d) \in Nat \ {0}
         /\ \A t \in Tasks :
              ScriptLimit(d, t) \in RulesetLimits /\ ScriptLimit(d, t) \in Nat \ {0}
<1>1. loaded[d] \in [ai : BOOLEAN, maxReviews : Nat, tasks : [Tasks -> Nat]]
  BY DispatchAssumption
<1>2. QED
  BY <1>1 DEF ReviewLimit, ScriptLimit, AtLeastOne, RulesetLimits

\* The registry has one entry for each review that is alive.
LEMMA ActiveKeysCount ==
  ASSUME TypeOK, RegistryExact
  PROVE  /\ IsFiniteSet(LiveReviews)
         /\ Cardinality(ActiveKeys) = Cardinality(LiveReviews)
         /\ Cardinality(LiveReviews) \in Nat
<1> DEFINE f == [k \in ActiveKeys |-> registry[k]]
<1>1. IsFiniteSet(ActiveKeys)
  BY DispatchAssumption, FS_Subset DEF ActiveKeys
<1>2. f \in Bijection(ActiveKeys, LiveReviews)
  <2>1. f \in [ActiveKeys -> LiveReviews]
    BY DEF ActiveKeys, LiveReviews, RegistryExact, TypeOK
  <2>2. \A a, b \in ActiveKeys : f[a] = f[b] => a = b
    BY <2>1 DEF ActiveKeys, LiveReviews, RegistryExact, TypeOK
  <2>3. \A d \in LiveReviews : \E k \in ActiveKeys : f[k] = d
    <3> SUFFICES ASSUME NEW d \in LiveReviews
                 PROVE  \E k \in ActiveKeys : f[k] = d
      OBVIOUS
    <3>1. d \in Deliveries /\ key[d] \in Keys /\ registry[key[d]] = d
      BY DEF LiveReviews, RegistryExact, TypeOK
    <3>2. key[d] \in ActiveKeys
      BY <3>1, DispatchAssumption DEF ActiveKeys
    <3>3. QED
      BY <3>1, <3>2
  <2>4. QED
    BY <2>1, <2>2, <2>3 DEF Bijection, Injection, Surjection, IsInjective
<1>3. ExistsBijection(ActiveKeys, LiveReviews)
  BY <1>2 DEF ExistsBijection
<1>4. QED
  BY <1>1, <1>3, FS_Bijection, FS_CardinalityType

LEMMA LiveScriptsFinite ==
  ASSUME NEW t \in Tasks
  PROVE  IsFiniteSet(LiveScripts(t)) /\ Cardinality(LiveScripts(t)) \in Nat
<1>1. LiveScripts(t) \in SUBSET Deliveries
  BY DEF LiveScripts
<1>2. IsFiniteSet(LiveScripts(t))
  BY <1>1, DispatchAssumption, FS_Subset
<1>3. QED
  BY <1>2, FS_CardinalityType

-----------------------------------------------------------------------------
(* The invariant.                                                          *)

LEMMA InitIInv == Init => IInv
<1> SUFFICES ASSUME Init PROVE IInv
  OBVIOUS
<1> USE DEF Init
<1>1. TypeOK
  BY DEF TypeOK, HandlerStates, Answers, ReviewStates, ScriptStates
<1>2. RegistryExact
  BY DispatchAssumption DEF RegistryExact, Live
<1>3. PermitsExact
  <2>1. \A t \in Tasks : LiveScripts(t) = {}
    BY DEF LiveScripts
  <2>2. QED
    BY <2>1, FS_EmptySet DEF PermitsExact
<1>4. WaitingFresh /\ TodoFresh /\ RulesetRead
  BY DEF WaitingFresh, TodoFresh, RulesetRead, Live
<1>5. QED
  BY <1>1, <1>2, <1>3, <1>4 DEF IInv

\* A step that moves no script run keeps the permit counts exact.
LEMMA SameScriptsSamePermits ==
  ASSUME PermitsExact, UNCHANGED <<script, permits>>
  PROVE  PermitsExact'
BY DEF PermitsExact, LiveScripts

LEMMA AnswerIInv ==
  ASSUME IInv, NEW d \in Deliveries, Decline(d) \/ Respond(d)
  PROVE  IInv'
<1>1. /\ handler' = [handler EXCEPT ![d] = "answered"]
      /\ \E a \in Answers : answer' = [answer EXCEPT ![d] = a]
      /\ UNCHANGED <<loaded, key, asked, todo, registry, permits, review, script>>
  BY DEF Decline, Respond, Answer, Answers
<1>2. TypeOK'
  BY <1>1 DEF IInv, TypeOK, HandlerStates
<1>3. RegistryExact'
  BY <1>1 DEF IInv, RegistryExact, Live
<1>4. PermitsExact'
  BY <1>1, SameScriptsSamePermits DEF IInv
<1>5. WaitingFresh' /\ TodoFresh' /\ RulesetRead'
  BY <1>1 DEF IInv, TypeOK, WaitingFresh, TodoFresh, RulesetRead, Live
<1>6. QED
  BY <1>2, <1>3, <1>4, <1>5 DEF IInv

LEMMA SelectIInv ==
  ASSUME IInv, NEW d \in Deliveries, Select(d)
  PROVE  IInv'
<1> PICK r \in Rulesets, ai \in BOOLEAN, ts \in SUBSET Tasks :
      /\ loaded' = [loaded EXCEPT ![d] = r]
      /\ review' = [review EXCEPT ![d] = IF ai THEN "requested" ELSE "none"]
      /\ asked' = [asked EXCEPT ![d] = ts]
      /\ todo' = [todo EXCEPT ![d] = ts]
  BY DispatchAssumption DEF Select, Enabled
<1>1. /\ handler[d] = "waiting"
      /\ handler' = [handler EXCEPT ![d] = "dispatching"]
      /\ UNCHANGED <<key, answer, registry, permits, script>>
  BY DEF Select
<1>2. TypeOK'
  BY <1>1 DEF IInv, TypeOK, HandlerStates, ReviewStates, Enabled
<1>3. RegistryExact'
  BY <1>1 DEF IInv, TypeOK, RegistryExact, WaitingFresh, Live
<1>4. PermitsExact'
  BY <1>1, SameScriptsSamePermits DEF IInv
<1>5. WaitingFresh'
  BY <1>1 DEF IInv, TypeOK, WaitingFresh
<1>6. TodoFresh'
  BY <1>1 DEF IInv, TypeOK, WaitingFresh, TodoFresh, Enabled
<1>7. RulesetRead'
  BY <1>1 DEF IInv, TypeOK, WaitingFresh, RulesetRead, Live
<1>8. QED
  BY <1>2, <1>3, <1>4, <1>5, <1>6, <1>7 DEF IInv

LEMMA StartReviewIInv ==
  ASSUME IInv, NEW d \in Deliveries, StartReview(d)
  PROVE  IInv'
<1>1. /\ handler[d] = "dispatching" /\ review[d] = "requested"
      /\ UNCHANGED <<handler, loaded, key, asked, todo, answer, permits, script>>
  BY DEF StartReview
<1>2. PermitsExact'
  BY <1>1, SameScriptsSamePermits DEF IInv
<1>3. loaded[d] \in Rulesets
  BY <1>1 DEF IInv, RulesetRead
<1>4. CASE \E s \in {"duplicate", "busy"} :
             review' = [review EXCEPT ![d] = s] /\ UNCHANGED registry
  <2>1. TypeOK'
    BY <1>1, <1>4 DEF IInv, TypeOK, ReviewStates
  <2>2. RegistryExact'
    BY <1>1, <1>4 DEF IInv, TypeOK, RegistryExact, Live
  <2>3. WaitingFresh' /\ TodoFresh' /\ RulesetRead'
    BY <1>1, <1>3, <1>4 DEF IInv, TypeOK, WaitingFresh, TodoFresh, RulesetRead, Live
  <2>4. QED
    BY <1>2, <2>1, <2>2, <2>3 DEF IInv
<1>5. CASE /\ registry[key[d]] = NoRun
           /\ registry' = [registry EXCEPT ![key[d]] = d]
           /\ review' = [review EXCEPT ![d] = "reviewing"]
  <2>1. TypeOK'
    BY <1>1, <1>5 DEF IInv, TypeOK, ReviewStates
  <2>2. RegistryExact'
    BY <1>1, <1>5, DispatchAssumption DEF IInv, TypeOK, RegistryExact, Live
  <2>3. WaitingFresh' /\ TodoFresh' /\ RulesetRead'
    BY <1>1, <1>3, <1>5 DEF IInv, TypeOK, WaitingFresh, TodoFresh, RulesetRead, Live
  <2>4. QED
    BY <1>2, <2>1, <2>2, <2>3 DEF IInv
<1>6. QED
  BY <1>4, <1>5 DEF StartReview

LEMMA StartScriptIInv ==
  ASSUME IInv, NEW d \in Deliveries, NEW t \in Tasks, StartScript(d, t)
  PROVE  IInv'
<1>1. /\ handler[d] = "dispatching" /\ t \in todo[d]
      /\ todo' = [todo EXCEPT ![d] = @ \ {t}]
      /\ UNCHANGED <<handler, loaded, key, asked, answer, registry, review>>
  BY DEF StartScript
<1>2. script[d][t] = "none" /\ loaded[d] \in Rulesets
  BY <1>1 DEF IInv, TodoFresh, RulesetRead
<1>3. RegistryExact'
  BY <1>1 DEF IInv, RegistryExact, Live
<1>4. CASE script' = [script EXCEPT ![d][t] = "busy"] /\ UNCHANGED permits
  <2>1. TypeOK'
    BY <1>1, <1>4 DEF IInv, TypeOK, ScriptStates
  <2>2. PermitsExact'
    <3>1. \A u \in Tasks : LiveScripts(u)' = LiveScripts(u)
      BY <1>2, <1>4 DEF IInv, TypeOK, LiveScripts
    <3>2. QED
      BY <3>1, <1>4 DEF IInv, PermitsExact
  <2>3. WaitingFresh' /\ TodoFresh' /\ RulesetRead'
    BY <1>1, <1>2, <1>4 DEF IInv, TypeOK, WaitingFresh, TodoFresh, RulesetRead, Live
  <2>4. QED
    BY <1>3, <2>1, <2>2, <2>3 DEF IInv
<1>5. CASE /\ permits' = [permits EXCEPT ![t] = @ + 1]
           /\ script' = [script EXCEPT ![d][t] = "running"]
  <2>1. TypeOK'
    BY <1>1, <1>5 DEF IInv, TypeOK, ScriptStates
  <2>2. PermitsExact'
    <3> SUFFICES ASSUME NEW u \in Tasks
                 PROVE  permits'[u] = Cardinality(LiveScripts(u)')
      BY DEF PermitsExact
    <3>1. CASE u # t
      <4>1. LiveScripts(u)' = LiveScripts(u)
        BY <1>5, <3>1 DEF IInv, TypeOK, LiveScripts
      <4>2. QED
        BY <1>5, <3>1, <4>1 DEF IInv, TypeOK, PermitsExact
    <3>2. CASE u = t
      <4>1. LiveScripts(t)' = LiveScripts(t) \cup {d} /\ d \notin LiveScripts(t)
        BY <1>2, <1>5 DEF IInv, TypeOK, LiveScripts
      <4>2. Cardinality(LiveScripts(t)') = Cardinality(LiveScripts(t)) + 1
        BY <4>1, LiveScriptsFinite, FS_AddElement
      <4>3. QED
        BY <1>5, <3>2, <4>2 DEF IInv, TypeOK, PermitsExact
    <3>3. QED
      BY <3>1, <3>2
  <2>3. WaitingFresh' /\ TodoFresh' /\ RulesetRead'
    BY <1>1, <1>2, <1>5 DEF IInv, TypeOK, WaitingFresh, TodoFresh, RulesetRead, Live
  <2>4. QED
    BY <1>3, <2>1, <2>2, <2>3 DEF IInv
<1>6. QED
  BY <1>4, <1>5 DEF StartScript

LEMMA ReviewStepIInv ==
  ASSUME IInv, NEW d \in Deliveries, ReviewEnds(d) \/ ReviewFails(d)
  PROVE  IInv'
<1>1. /\ Live(d)
      /\ UNCHANGED <<handler, loaded, key, asked, todo, answer, permits, script>>
      /\ \/ review' = [review EXCEPT ![d] = "notifying"] /\ UNCHANGED registry
         \/ /\ review' = [review EXCEPT ![d] = "finished"]
            /\ registry' = Released(d)
  BY DEF ReviewEnds, ReviewFails, Live
<1>2. TypeOK'
  BY <1>1 DEF IInv, TypeOK, ReviewStates, Released
<1>3. RegistryExact'
  BY <1>1, DispatchAssumption DEF IInv, TypeOK, RegistryExact, Live, Released
<1>4. PermitsExact'
  BY <1>1, SameScriptsSamePermits DEF IInv
<1>5. WaitingFresh' /\ TodoFresh' /\ RulesetRead'
  BY <1>1 DEF IInv, TypeOK, WaitingFresh, TodoFresh, RulesetRead, Live
<1>6. QED
  BY <1>2, <1>3, <1>4, <1>5 DEF IInv

LEMMA ScriptEndsIInv ==
  ASSUME IInv, NEW d \in Deliveries, NEW t \in Tasks, ScriptEnds(d, t)
  PROVE  IInv'
<1>1. /\ script[d][t] = "running"
      /\ script' = [script EXCEPT ![d][t] = "finished"]
      /\ permits' = [permits EXCEPT ![t] = @ - 1]
      /\ UNCHANGED <<handler, loaded, key, asked, todo, answer, registry, review>>
  BY DEF ScriptEnds
<1>2. /\ LiveScripts(t)' = LiveScripts(t) \ {d} /\ d \in LiveScripts(t)
      /\ \A u \in Tasks : u # t => LiveScripts(u)' = LiveScripts(u)
  BY <1>1 DEF IInv, TypeOK, LiveScripts
<1>3. /\ Cardinality(LiveScripts(t)') = Cardinality(LiveScripts(t)) - 1
      /\ Cardinality(LiveScripts(t)') \in Nat
  <2>1. /\ IsFiniteSet(LiveScripts(t)')
        /\ Cardinality(LiveScripts(t)') = Cardinality(LiveScripts(t)) - 1
    BY <1>2, LiveScriptsFinite, FS_RemoveElement
  <2>2. QED
    BY <2>1, FS_CardinalityType
<1>4. TypeOK'
  BY <1>1, <1>3 DEF IInv, TypeOK, ScriptStates, PermitsExact
<1>5. PermitsExact'
  BY <1>1, <1>2, <1>3 DEF IInv, TypeOK, PermitsExact
<1>6. RegistryExact'
  BY <1>1 DEF IInv, RegistryExact, Live
<1>7. WaitingFresh' /\ TodoFresh' /\ RulesetRead'
  BY <1>1 DEF IInv, TypeOK, WaitingFresh, TodoFresh, RulesetRead, Live
<1>8. QED
  BY <1>4, <1>5, <1>6, <1>7 DEF IInv

LEMMA RestartIInv ==
  ASSUME IInv, Restart
  PROVE  IInv'
<1>1. TypeOK'
  BY DEF Restart, IInv, TypeOK, HandlerStates, ReviewStates, ScriptStates
<1>2. RegistryExact'
  BY DispatchAssumption DEF Restart, IInv, TypeOK, RegistryExact, Live
<1>3. PermitsExact'
  <2>1. \A t \in Tasks : LiveScripts(t)' = {}
    BY DEF Restart, LiveScripts
  <2>2. QED
    BY <2>1, FS_EmptySet DEF Restart, PermitsExact
<1>4. WaitingFresh' /\ TodoFresh' /\ RulesetRead'
  BY DEF Restart, IInv, TypeOK, WaitingFresh, TodoFresh, RulesetRead, Live
<1>5. QED
  BY <1>1, <1>2, <1>3, <1>4 DEF IInv

LEMMA NextIInv == IInv /\ [Next]_vars => IInv'
<1> SUFFICES ASSUME IInv, [Next]_vars PROVE IInv'
  OBVIOUS
<1>1. CASE UNCHANGED vars
  BY <1>1 DEF vars, IInv, TypeOK, RegistryExact, PermitsExact, LiveScripts,
              WaitingFresh, TodoFresh, RulesetRead, Live
<1>2. QED
  BY <1>1, AnswerIInv, SelectIInv, StartReviewIInv, StartScriptIInv, ReviewStepIInv,
     ScriptEndsIInv, RestartIInv DEF Next

(* The registries always tell the truth about the runs: no commit is under *)
(* two reviews, none stays blocked after its review, and a task's permit   *)
(* count is the number of its live runs (active_reviews.rs,                *)
(* script_scheduler.rs).                                                   *)
THEOREM RegistriesExact == Safe => [](TypeOK /\ RegistryExact /\ PermitsExact)
<1>1. IInv => TypeOK /\ RegistryExact /\ PermitsExact
  BY DEF IInv
<1>2. QED
  BY InitIInv, NextIInv, <1>1, PTL DEF Safe

-----------------------------------------------------------------------------
(* Refinement of the slot pools.                                           *)

Pools == Tasks \cup {ReviewPool}

\* The pools count with the same cardinality.
LEMMA SameCardinality == ASSUME NEW S PROVE Pool!Cardinality(S) = Cardinality(S)
BY DEF Pool!Cardinality, Cardinality

LEMMA SlotsShape ==
  /\ \A d \in Deliveries :
       Slots[ReviewPool][d] = IF Live(d) THEN ReviewLimit(d) ELSE 0
  /\ \A t \in Tasks, d \in Deliveries :
       Slots[t][d] = IF script[d][t] = "running" THEN ScriptLimit(d, t) ELSE 0
BY DispatchAssumption DEF Slots, Pools

\* The slots taken are those of the runs that are alive.
LEMMA SlotHolders ==
  ASSUME RulesetRead
  PROVE  /\ Pool!Holders(ReviewPool) = LiveReviews
         /\ \A t \in Tasks : Pool!Holders(t) = LiveScripts(t)
<1>1. ASSUME NEW d \in Deliveries
      PROVE  /\ Slots[ReviewPool][d] # 0 <=> Live(d)
             /\ \A t \in Tasks : Slots[t][d] # 0 <=> script[d][t] = "running"
  <2>1. CASE loaded[d] \in Rulesets
    BY <2>1, SlotsShape, LimitsAreNat
  <2>2. CASE loaded[d] \notin Rulesets
    BY <2>2, SlotsShape DEF RulesetRead
  <2>3. QED
    BY <2>1, <2>2
<1>2. QED
  BY <1>1 DEF Pool!Holders, LiveReviews, LiveScripts

\* Slots follow review, script and the rulesets read, and nothing else.
LEMMA SlotsUnmoved ==
  ASSUME \A d \in Deliveries :
           /\ Live(d)' <=> Live(d)
           /\ \A t \in Tasks : script'[d][t] = "running" <=> script[d][t] = "running"
           /\ Live(d) \/ (\E t \in Tasks : script[d][t] = "running") =>
                loaded'[d] = loaded[d]
  PROVE  Slots' = Slots
BY DispatchAssumption DEF Slots, ReviewLimit, ScriptLimit

LEMMA StartReviewRefines ==
  ASSUME IInv, NEW d \in Deliveries, StartReview(d)
  PROVE  [Pool!Next]_Slots
<1>1. /\ handler[d] = "dispatching" /\ review[d] = "requested"
      /\ UNCHANGED <<loaded, key, script>>
  BY DEF StartReview
<1>2. loaded[d] \in Rulesets
  BY <1>1 DEF IInv, RulesetRead
<1>3. CASE \E s \in {"duplicate", "busy"} : review' = [review EXCEPT ![d] = s]
  <2>1. Slots' = Slots
    BY <1>1, <1>3, SlotsUnmoved DEF IInv, TypeOK, Live
  <2>2. QED
    BY <2>1
<1>4. CASE /\ Room(Cardinality(ActiveKeys), ReviewLimit(d))
           /\ review' = [review EXCEPT ![d] = "reviewing"]
  <2>1. Slots' = [Slots EXCEPT ![ReviewPool][d] = ReviewLimit(d)]
    BY <1>1, <1>4, DispatchAssumption
    DEF Slots, ReviewLimit, ScriptLimit, Live, IInv, TypeOK
  <2>2. d \notin Pool!Holders(ReviewPool)
    BY <1>1, SlotHolders DEF IInv, LiveReviews, Live
  <2>3. Pool!Cardinality(Pool!Holders(ReviewPool)) < ReviewLimit(d)
    BY <1>4, SlotHolders, ActiveKeysCount, SameCardinality DEF IInv, Room
  <2>4. Pool!Admit(ReviewPool, d, ReviewLimit(d))
    BY <2>1, <2>2, <2>3 DEF Pool!Admit
  <2>5. QED
    BY <1>2, <2>4, LimitsAreNat DEF Pool!Next
<1>5. QED
  BY <1>3, <1>4 DEF StartReview

LEMMA StartScriptRefines ==
  ASSUME IInv, NEW d \in Deliveries, NEW t \in Tasks, StartScript(d, t)
  PROVE  [Pool!Next]_Slots
<1>1. /\ handler[d] = "dispatching" /\ t \in todo[d] /\ script[d][t] = "none"
      /\ UNCHANGED <<loaded, key, review>>
  BY DEF StartScript, IInv, TodoFresh
<1>2. loaded[d] \in Rulesets
  BY <1>1 DEF IInv, RulesetRead
<1>3. CASE script' = [script EXCEPT ![d][t] = "busy"]
  <2>1. Slots' = Slots
    BY <1>1, <1>3, SlotsUnmoved DEF IInv, TypeOK, Live
  <2>2. QED
    BY <2>1
<1>4. CASE /\ Room(permits[t], ScriptLimit(d, t))
           /\ script' = [script EXCEPT ![d][t] = "running"]
  <2>1. Slots' = [Slots EXCEPT ![t][d] = ScriptLimit(d, t)]
    BY <1>1, <1>4, DispatchAssumption, ZenonT(40)
    DEF Slots, ReviewLimit, ScriptLimit, Live, IInv, TypeOK
  <2>2. d \notin Pool!Holders(t)
    BY <1>1, SlotHolders DEF IInv, LiveScripts
  <2>3. Pool!Cardinality(Pool!Holders(t)) < ScriptLimit(d, t)
    BY <1>4, SlotHolders, SameCardinality DEF IInv, PermitsExact, Room
  <2>4. Pool!Admit(t, d, ScriptLimit(d, t))
    BY <2>1, <2>2, <2>3 DEF Pool!Admit
  <2>5. QED
    BY <1>2, <2>4, LimitsAreNat DEF Pool!Next
<1>5. QED
  BY <1>3, <1>4 DEF StartScript

LEMMA ReviewStepRefines ==
  ASSUME IInv, NEW d \in Deliveries, ReviewEnds(d) \/ ReviewFails(d)
  PROVE  [Pool!Next]_Slots
<1>1. Live(d) /\ UNCHANGED <<loaded, key, script>>
  BY DEF ReviewEnds, ReviewFails, Live
<1>2. CASE ReviewFails(d)
  <2>1. Slots' = Slots
    BY <1>1, <1>2, SlotsUnmoved DEF ReviewFails, IInv, TypeOK, Live
  <2>2. QED
    BY <2>1
<1>3. CASE ReviewEnds(d)
  <2>1. Slots' = [Slots EXCEPT ![ReviewPool][d] = 0]
    BY <1>1, <1>3, DispatchAssumption
    DEF ReviewEnds, Slots, ReviewLimit, ScriptLimit, Live, IInv, TypeOK
  <2>2. d \in Pool!Holders(ReviewPool)
    BY <1>1, SlotHolders DEF IInv, LiveReviews
  <2>3. QED
    BY <2>1, <2>2 DEF Pool!Release, Pool!Next
<1>4. QED
  BY <1>2, <1>3

LEMMA ScriptEndsRefines ==
  ASSUME IInv, NEW d \in Deliveries, NEW t \in Tasks, ScriptEnds(d, t)
  PROVE  [Pool!Next]_Slots
<1>1. Slots' = [Slots EXCEPT ![t][d] = 0]
  BY DispatchAssumption
  DEF ScriptEnds, Slots, ReviewLimit, ScriptLimit, Live, IInv, TypeOK
<1>2. d \in Pool!Holders(t)
  BY SlotHolders DEF IInv, LiveScripts, ScriptEnds
<1>3. QED
  BY <1>1, <1>2 DEF Pool!Release, Pool!Next

LEMMA RestartRefines ==
  ASSUME IInv, Restart
  PROVE  [Pool!Next]_Slots
<1>1. \A d \in Deliveries : ~Live(d)' /\ \A t \in Tasks : script'[d][t] # "running"
  BY DEF Restart, Live, IInv, TypeOK
<1>2. Slots' = [p \in Pools |-> [d \in Deliveries |-> 0]]
  BY <1>1 DEF Slots, Pools
<1>3. QED
  BY <1>2 DEF Pool!Reset, Pool!Next, Pools

LEMMA StepRefines == IInv /\ [Next]_vars => [Pool!Next]_Slots
<1> SUFFICES ASSUME IInv, [Next]_vars PROVE [Pool!Next]_Slots
  OBVIOUS
<1>1. ASSUME NEW d \in Deliveries, Decline(d) \/ Select(d) \/ Respond(d)
      PROVE  Slots' = Slots
  BY <1>1, SlotsUnmoved
  DEF Decline, Select, Respond, Answer, IInv, TypeOK, WaitingFresh, Live
<1>2. CASE UNCHANGED vars
  BY <1>2, SlotsUnmoved DEF vars, Live
<1>3. QED
  BY <1>1, <1>2, StartReviewRefines, StartScriptRefines, ReviewStepRefines,
     ScriptEndsRefines, RestartRefines DEF Next

LEMMA InitRefines == Init => Pool!Init
<1> SUFFICES ASSUME Init PROVE Slots = [p \in Pools |-> [d \in Deliveries |-> 0]]
  BY DEF Pool!Init, Pools
<1>1. \A d \in Deliveries : ~Live(d) /\ \A t \in Tasks : script[d][t] # "running"
  BY DEF Init, Live
<1>2. QED
  BY <1>1 DEF Slots, Pools

(* The map of active reviews and the counters of script runs implement the *)
(* slot pools: every admission finds room among the runs that are alive,   *)
(* every end gives back exactly one slot.                                  *)
THEOREM DispatchImplementsSlotPool == Safe => ImplementsSlotPool
<1>1. IInv /\ [Next]_vars => [Pool!Next]_Slots
  BY StepRefines
<1>2. QED
  BY InitIInv, NextIInv, InitRefines, <1>1, PTL DEF Safe, Pool!Spec, ImplementsSlotPool

-----------------------------------------------------------------------------
(* What follows from it.                                                   *)

LEMMA AdmitKeepsCapacity ==
  ASSUME Pool!TypeOK, Pool!CapacityHonoured,
         NEW p \in Pools, NEW r \in Deliveries, NEW c \in RulesetLimits, Pool!Admit(p, r, c)
  PROVE  Pool!CapacityHonoured'
<1> USE DEF Pools
<1> SUFFICES ASSUME NEW q \in Pools, NEW S \in SUBSET Pool!Holders(q)', S # {}
             PROVE  \E x \in S : Cardinality(S) <= Slots'[q][x]
  BY SameCardinality DEF Pool!CapacityHonoured
<1>0. c \in Nat
  BY DispatchAssumption DEF RulesetLimits, AtLeastOne
<1>1. CASE q # p \/ r \notin S
  <2>1. \A x \in S : Slots'[q][x] = Slots[q][x] /\ x \in Pool!Holders(q)
    BY <1>1 DEF Pool!Admit, Pool!Holders, Pool!TypeOK
  <2> QED BY <2>1, SameCardinality DEF Pool!CapacityHonoured
<1>2. CASE q = p /\ r \in S
  <2>1. Slots'[p][r] = c
    BY DEF Pool!Admit, Pool!TypeOK
  <2>2. S \subseteq Pool!Holders(p) \cup {r}
    BY <1>2 DEF Pool!Admit, Pool!Holders, Pool!TypeOK
  <2>3. IsFiniteSet(Pool!Holders(p))
    BY FS_Subset, DispatchAssumption DEF Pool!Holders
  <2>4. /\ IsFiniteSet(Pool!Holders(p) \cup {r})
        /\ Cardinality(Pool!Holders(p) \cup {r}) = Cardinality(Pool!Holders(p)) + 1
    BY <2>3, FS_AddElement DEF Pool!Admit
  <2>5. Cardinality(S) <= Cardinality(Pool!Holders(p)) + 1
    BY <2>2, <2>4, FS_Subset
  <2>6. Cardinality(Pool!Holders(p)) < c
    BY SameCardinality DEF Pool!Admit
  <2>7. Cardinality(Pool!Holders(p)) \in Nat /\ Cardinality(S) \in Nat
    BY <2>2, <2>3, <2>4, FS_Subset, FS_CardinalityType
  <2>8. Cardinality(S) <= c
    BY <1>0, <2>5, <2>6, <2>7
  <2> QED BY <1>2, <2>1, <2>8
<1> QED BY <1>1, <1>2

LEMMA ReleaseKeepsCapacity ==
  ASSUME Pool!TypeOK, Pool!CapacityHonoured,
         NEW p \in Pools, NEW r \in Deliveries, Pool!Release(p, r)
  PROVE  Pool!CapacityHonoured'
<1> USE DEF Pools
<1> SUFFICES ASSUME NEW q \in Pools, NEW S \in SUBSET Pool!Holders(q)', S # {}
             PROVE  \E x \in S : Pool!Cardinality(S) <= Slots'[q][x]
  BY DEF Pool!CapacityHonoured
<1>1. \A x \in S : Slots'[q][x] = Slots[q][x] /\ x \in Pool!Holders(q)
  BY DEF Pool!Release, Pool!Holders, Pool!TypeOK
<1> QED BY <1>1 DEF Pool!CapacityHonoured

(* What admission control promises: whatever runs come and go, and         *)
(* whatever capacities they are admitted under, the runs that hold slots   *)
(* together fit under the capacity of one of them (active_reviews.rs:      *)
(* try_start; script_scheduler.rs: try_acquire).                           *)
THEOREM SlotPoolSafe == Pool!Spec => [](Pool!TypeOK /\ Pool!CapacityHonoured)
<1> USE DEF Pools
<1>1. Pool!Init => Pool!TypeOK /\ Pool!CapacityHonoured
  BY DEF Pool!Init, Pool!TypeOK, Pool!CapacityHonoured, Pool!Holders
<1>2. Pool!TypeOK /\ Pool!CapacityHonoured /\ [Pool!Next]_Slots
        => (Pool!TypeOK /\ Pool!CapacityHonoured)'
  <2> SUFFICES ASSUME Pool!TypeOK, Pool!CapacityHonoured, [Pool!Next]_Slots
               PROVE  Pool!TypeOK' /\ Pool!CapacityHonoured'
    OBVIOUS
  <2>1. ASSUME NEW p \in Pools, NEW r \in Deliveries, NEW c \in RulesetLimits, Pool!Admit(p, r, c)
        PROVE  Pool!TypeOK' /\ Pool!CapacityHonoured'
    <3>1. Pool!TypeOK'
      BY <2>1, DispatchAssumption DEF Pool!Admit, Pool!TypeOK, RulesetLimits, AtLeastOne
    <3> QED BY <2>1, <3>1, AdmitKeepsCapacity
  <2>2. ASSUME NEW p \in Pools, NEW r \in Deliveries, Pool!Release(p, r)
        PROVE  Pool!TypeOK' /\ Pool!CapacityHonoured'
    <3>1. Pool!TypeOK'
      BY <2>2 DEF Pool!Release, Pool!TypeOK
    <3> QED BY <2>2, <3>1, ReleaseKeepsCapacity
  <2>3. CASE Pool!Reset
    BY <2>3 DEF Pool!Reset, Pool!TypeOK, Pool!CapacityHonoured, Pool!Holders
  <2>4. CASE UNCHANGED Slots
    BY <2>4 DEF Pool!TypeOK, Pool!CapacityHonoured, Pool!Holders
  <2> QED BY <2>1, <2>2, <2>3, <2>4 DEF Pool!Next
<1> QED BY <1>1, <1>2, PTL DEF Pool!Spec

(* Live reviews, and live runs of a task, never exceed the limit that one  *)
(* of them was admitted under, however the rules file was edited.          *)
THEOREM DispatchHonoursLimits == Safe => []LimitsHonoured
<1> QED BY DispatchImplementsSlotPool, SlotPoolSafe, PTL DEF ImplementsSlotPool, LimitsHonoured

-----------------------------------------------------------------------------
(* Refusals.                                                               *)

LEMMA StartReviewJustified ==
  ASSUME IInv, NEW c \in Deliveries, StartReview(c), NEW d \in Deliveries
  PROVE  Justified(d)
<1>1. c # d => review'[d] = review[d]
  BY DEF StartReview, IInv, TypeOK
<1>2. \A t \in Tasks : script'[d][t] = script[d][t]
  BY DEF StartReview
<1>3. loaded[c] \in Rulesets
  BY DEF StartReview, IInv, RulesetRead
<1>4. ASSUME review[c] = "requested", review'[c] = "duplicate"
      PROVE  \E e \in LiveReviews \ {c} : key[e] = key[c]
  <2>1. registry[key[c]] # NoRun
    BY <1>4 DEF StartReview, IInv, TypeOK
  <2>2. registry[key[c]] \in Deliveries /\ key[c] \in Keys
    BY <2>1 DEF IInv, TypeOK
  <2>3. Live(registry[key[c]]) /\ key[registry[key[c]]] = key[c]
    BY <2>2 DEF IInv, RegistryExact
  <2>4. registry[key[c]] # c
    BY <1>4, <2>3 DEF Live
  <2>5. QED
    BY <2>2, <2>3, <2>4 DEF LiveReviews
<1>5. ASSUME review[c] = "requested", review'[c] = "busy"
      PROVE  /\ Cardinality(LiveReviews) >= ReviewLimit(c)
             /\ \A e \in LiveReviews : key[e] # key[c]
  <2>1. registry[key[c]] = NoRun /\ ~Room(Cardinality(ActiveKeys), ReviewLimit(c))
    BY <1>5 DEF StartReview, IInv, TypeOK
  <2>2. \A e \in LiveReviews : key[e] # key[c]
    BY <2>1, DispatchAssumption DEF IInv, TypeOK, RegistryExact, LiveReviews
  <2>3. Cardinality(LiveReviews) >= ReviewLimit(c)
    BY <1>3, <2>1, ActiveKeysCount, LimitsAreNat DEF IInv, Room
  <2>4. QED
    BY <2>2, <2>3
<1>6. QED
  BY <1>1, <1>2, <1>4, <1>5 DEF Justified

LEMMA StartScriptJustified ==
  ASSUME IInv, NEW c \in Deliveries, NEW u \in Tasks, StartScript(c, u),
         NEW d \in Deliveries
  PROVE  Justified(d)
<1>1. review' = review
  BY DEF StartScript
<1>2. ASSUME NEW t \in Tasks, script[d][t] = "none", script'[d][t] = "busy"
      PROVE  Cardinality(LiveScripts(t)) >= ScriptLimit(d, t)
  <2>1. d = c /\ t = u
    BY <1>2 DEF StartScript, IInv, TypeOK
  <2>2. loaded[c] \in Rulesets
    BY DEF StartScript, IInv, RulesetRead
  <2>3. ~Room(permits[u], ScriptLimit(c, u))
    BY <1>2, <2>1 DEF StartScript, IInv, TypeOK
  <2>4. QED
    BY <2>1, <2>2, <2>3, LimitsAreNat, LiveScriptsFinite DEF IInv, PermitsExact, Room
<1>3. QED
  BY <1>1, <1>2 DEF Justified

(* A refusal is never the fault of the books: whoever is told "duplicate"  *)
(* or "busy" is told so while the live runs themselves justify it.         *)
THEOREM RefusalsAreJustified == Safe => RefusalJustified
<1>1. IInv /\ [Next]_vars => [\A d \in Deliveries : Justified(d)]_vars
  <2> SUFFICES ASSUME IInv, Next, NEW d \in Deliveries PROVE Justified(d)
    OBVIOUS
  <2>1. ASSUME NEW c \in Deliveries, Decline(c) \/ Select(c) \/ Respond(c)
        PROVE  Justified(d)
    BY <2>1 DEF Decline, Select, Respond, Answer, Justified, IInv, TypeOK
  <2>2. ASSUME NEW c \in Deliveries, ReviewEnds(c) \/ ReviewFails(c)
        PROVE  Justified(d)
    BY <2>2 DEF ReviewEnds, ReviewFails, Justified, IInv, TypeOK
  <2>3. ASSUME NEW c \in Deliveries, NEW u \in Tasks, ScriptEnds(c, u)
        PROVE  Justified(d)
    BY <2>3 DEF ScriptEnds, Justified, IInv, TypeOK
  <2>4. CASE Restart
    BY <2>4 DEF Restart, Justified, IInv, TypeOK
  <2>5. QED
    BY <2>1, <2>2, <2>3, <2>4, StartReviewJustified, StartScriptJustified DEF Next
<1>2. QED
  BY InitIInv, NextIInv, <1>1, PTL DEF Safe, RefusalJustified
=============================================================================
