------------------------------ MODULE Dispatch ------------------------------
(***************************************************************************)
(* The webhook handler and the two in-memory registries that decide which  *)
(* of the requested runs start: the map of active AI reviews and the       *)
(* counts of active script tasks.  Handlers run concurrently on the        *)
(* server's threads; each lock is held for one registry operation only, so *)
(* one operation is one action.  Runs are tasks of their own that hold     *)
(* their guard or permit until they end.  The detached tasks that tell a   *)
(* requester of a refusal touch none of this state and are left out.       *)
(***************************************************************************)
EXTENDS Naturals, FiniteSets

CONSTANTS Deliveries,  \* webhook deliveries; each has a run id of its own
          Keys,        \* <project, merge request, commit>
          Tasks,       \* script task ids
          Rulesets,    \* what a readable rules file may say
          NoRuleset,   \* what a handler holds before it has read the file
          NoRun,
          ReviewPool   \* names the AI review registry beside the script tasks

ASSUME DispatchAssumption ==
  /\ IsFiniteSet(Deliveries) /\ IsFiniteSet(Keys) /\ IsFiniteSet(Tasks)
  /\ Rulesets \subseteq [ai : BOOLEAN, maxReviews : Nat, tasks : [Tasks -> Nat]]
  /\ NoRuleset \notin Rulesets /\ NoRun \notin Deliveries /\ ReviewPool \notin Tasks

VARIABLES
  handler,    \* where each delivery's handler stands
  loaded,     \* the ruleset a handler has read
  key,        \* the commit a delivery is about
  asked,      \* the script tasks a delivery selects
  todo,       \* those its handler has not yet tried to start
  answer,     \* the HTTP answer
  registry,   \* ActiveReviews.running
  permits,    \* ScriptTaskScheduler.active
  review,     \* the AI review of each delivery
  script      \* the script runs of each delivery

vars == <<handler, loaded, key, asked, todo, answer, registry, permits,
          review, script>>

HandlerStates == {"waiting", "dispatching", "answered", "dropped"}
ReviewStates == {"none", "requested", "reviewing", "notifying", "finished",
                 "duplicate", "busy"}
ScriptStates == {"none", "running", "finished", "busy"}
Answers == {"none", "declined",
            "review_already_running", "review_queue_busy", "script_task_busy",
            "accepted", "accepted_runs"}

\* A review holds its guard while it works and while it reports its failure.
Live(d) == review[d] \in {"reviewing", "notifying"}
LiveReviews == {d \in Deliveries : Live(d)}
LiveScripts(t) == {d \in Deliveries : script[d][t] = "running"}
Enabled(r) == {t \in Tasks : r.tasks[t] # 0}
\* A configured limit of 0 counts as 1.
AtLeastOne(n) == IF n = 0 THEN 1 ELSE n
ReviewLimit(d) == AtLeastOne(loaded[d].maxReviews)
ScriptLimit(d, t) == AtLeastOne(loaded[d].tasks[t])
\* Faulty variant: one run too many.
RoomOffByOne(n, limit) == n <= limit
Room(n, limit) == n < limit
ActiveKeys == {k \in Keys : registry[k] # NoRun}

Init ==
  /\ handler = [d \in Deliveries |-> "waiting"]
  /\ loaded = [d \in Deliveries |-> NoRuleset]
  /\ key \in [Deliveries -> Keys]
  /\ asked = [d \in Deliveries |-> {}]
  /\ todo = [d \in Deliveries |-> {}]
  /\ answer = [d \in Deliveries |-> "none"]
  /\ registry = [k \in Keys |-> NoRun]
  /\ permits = [t \in Tasks |-> 0]
  /\ review = [d \in Deliveries |-> "none"]
  /\ script = [d \in Deliveries |-> [t \in Tasks |-> "none"]]

-----------------------------------------------------------------------------
(* The handler.                                                            *)

Answer(d, a) ==
  /\ handler' = [handler EXCEPT ![d] = "answered"]
  /\ answer' = [answer EXCEPT ![d] = a]

\* Bad token, unreadable or unsupported payload, an event other than a new
\* note, no usable GitLab token or rules file, or a note that names nothing
\* enabled: answered before any dispatch.
Decline(d) ==
  /\ handler[d] = "waiting"
  /\ Answer(d, "declined")
  /\ UNCHANGED <<loaded, key, asked, todo, registry, permits, review,
                 script>>

\* The rules file is read, as it is at this moment: it may be edited between any
\* two webhooks.  The note selects among what is enabled in it.
Select(d) ==
  /\ handler[d] = "waiting"
  /\ \E r \in Rulesets :
       /\ loaded' = [loaded EXCEPT ![d] = r]
       /\ \E ai \in {r.ai, FALSE}, ts \in SUBSET Enabled(r) :
            /\ ai \/ ts # {}
            /\ review' = [review EXCEPT ![d] = IF ai THEN "requested" ELSE "none"]
            /\ asked' = [asked EXCEPT ![d] = ts]
            /\ todo' = [todo EXCEPT ![d] = ts]
  /\ handler' = [handler EXCEPT ![d] = "dispatching"]
  /\ UNCHANGED <<key, answer, registry, permits, script>>

\* Faulty variant: the commit is not looked up before it is inserted.
StartReviewBlindly(d) ==
  /\ handler[d] = "dispatching" /\ review[d] = "requested"
  /\ Room(Cardinality(ActiveKeys), ReviewLimit(d))
  /\ registry' = [registry EXCEPT ![key[d]] = d]
  /\ review' = [review EXCEPT ![d] = "reviewing"]
  /\ UNCHANGED <<handler, loaded, key, asked, todo, answer, permits, script>>

\* try_start and what the handler does with its result.
StartReview(d) ==
  /\ handler[d] = "dispatching" /\ review[d] = "requested"
  /\ \/ /\ registry[key[d]] # NoRun
        /\ review' = [review EXCEPT ![d] = "duplicate"]
        /\ UNCHANGED registry
     \/ /\ registry[key[d]] = NoRun
        /\ ~Room(Cardinality(ActiveKeys), ReviewLimit(d))
        /\ review' = [review EXCEPT ![d] = "busy"]
        /\ UNCHANGED registry
     \/ /\ registry[key[d]] = NoRun
        /\ Room(Cardinality(ActiveKeys), ReviewLimit(d))
        /\ registry' = [registry EXCEPT ![key[d]] = d]
        /\ review' = [review EXCEPT ![d] = "reviewing"]
  /\ UNCHANGED <<handler, loaded, key, asked, todo, answer, permits, script>>

\* try_acquire and what the handler does with its result, one task at a time.
StartScript(d, t) ==
  /\ handler[d] = "dispatching" /\ review[d] # "requested" /\ t \in todo[d]
  /\ todo' = [todo EXCEPT ![d] = @ \ {t}]
  /\ \/ /\ ~Room(permits[t], ScriptLimit(d, t))
        /\ script' = [script EXCEPT ![d][t] = "busy"]
        /\ UNCHANGED permits
     \/ /\ Room(permits[t], ScriptLimit(d, t))
        /\ permits' = [permits EXCEPT ![t] = @ + 1]
        /\ script' = [script EXCEPT ![d][t] = "running"]
  /\ UNCHANGED <<handler, loaded, key, asked, answer, registry, review>>

ReviewStarted(d) == review[d] \notin {"none", "requested", "duplicate", "busy"}
ScriptStarted(d) == \E t \in Tasks : script[d][t] \notin {"none", "busy"}

Respond(d) ==
  /\ handler[d] = "dispatching" /\ review[d] # "requested" /\ todo[d] = {}
  /\ \/ /\ ReviewStarted(d) \/ ScriptStarted(d)
        /\ Answer(d, IF asked[d] = {} THEN "accepted" ELSE "accepted_runs")
     \/ /\ ~ReviewStarted(d) /\ ~ScriptStarted(d)
        /\ \/ asked[d] # {} /\ Answer(d, "script_task_busy")
           \/ /\ asked[d] = {} /\ review[d] = "duplicate"
              /\ Answer(d, "review_already_running")
           \/ /\ asked[d] = {} /\ review[d] = "busy"
              /\ Answer(d, "review_queue_busy")
  /\ UNCHANGED <<loaded, key, asked, todo, registry, permits, review,
                 script>>

-----------------------------------------------------------------------------
(* The tasks the handler spawned.                                          *)

\* Faulty variant: the guard is forgotten.
ReleasedNever(d) == registry

\* ActiveReviews::finish, from the guard's drop.
Released(d) ==
  IF registry[key[d]] = d THEN [registry EXCEPT ![key[d]] = NoRun] ELSE registry

\* Faulty variant: the guard is dropped on success only.
ReviewEndsIfOk(d) ==
  /\ Live(d)
  /\ review' = [review EXCEPT ![d] = "finished"]
  /\ registry' = IF review[d] = "reviewing" THEN Released(d) ELSE registry
  /\ UNCHANGED <<handler, loaded, key, asked, todo, answer, permits, script>>

\* The review returns its summary, its failure has been reported, or the task
\* panics: the guard is dropped.
ReviewEnds(d) ==
  /\ Live(d)
  /\ review' = [review EXCEPT ![d] = "finished"]
  /\ registry' = Released(d)
  /\ UNCHANGED <<handler, loaded, key, asked, todo, answer, permits, script>>

\* Faulty variant: the guard goes before the failure is reported.
ReviewFailsEarly(d) ==
  /\ review[d] = "reviewing"
  /\ review' = [review EXCEPT ![d] = "notifying"]
  /\ registry' = Released(d)
  /\ UNCHANGED <<handler, loaded, key, asked, todo, answer, permits, script>>

\* The review fails: the failure is reported while the guard is still held.
ReviewFails(d) ==
  /\ review[d] = "reviewing"
  /\ review' = [review EXCEPT ![d] = "notifying"]
  /\ UNCHANGED <<handler, loaded, key, asked, todo, answer, registry, permits,
                 script>>

\* The permit's drop.
ScriptEnds(d, t) ==
  /\ script[d][t] = "running"
  /\ script' = [script EXCEPT ![d][t] = "finished"]
  /\ permits' = [permits EXCEPT ![t] = @ - 1]
  /\ UNCHANGED <<handler, loaded, key, asked, todo, answer, registry, review>>

-----------------------------------------------------------------------------
(* The environment.                                                        *)

\* The process is stopped and started again: nothing of this is persistent.
Restart ==
  /\ handler' = [d \in Deliveries |->
                   IF handler[d] = "dispatching" THEN "dropped" ELSE handler[d]]
  /\ registry' = [k \in Keys |-> NoRun]
  /\ permits' = [t \in Tasks |-> 0]
  /\ review' = [d \in Deliveries |-> IF Live(d) THEN "finished" ELSE review[d]]
  /\ script' = [d \in Deliveries |-> [t \in Tasks |->
                  IF script[d][t] = "running" THEN "finished" ELSE script[d][t]]]
  /\ UNCHANGED <<loaded, key, asked, todo, answer>>

-----------------------------------------------------------------------------
Handle(d) == StartReview(d) \/ (\E t \in Tasks : StartScript(d, t)) \/ Respond(d)

Next ==
  \/ \E d \in Deliveries : Decline(d) \/ Select(d)
  \/ \E d \in Deliveries : StartReview(d)
  \/ \E d \in Deliveries, t \in Tasks : StartScript(d, t)
  \/ \E d \in Deliveries : Respond(d)
  \/ \E d \in Deliveries : ReviewEnds(d) \/ ReviewFails(d)
  \/ \E d \in Deliveries, t \in Tasks : ScriptEnds(d, t)
  \/ Restart

(* A handler has no await after its body is read, so it runs to its end;   *)
(* every call a review or a script run awaits has a timeout, so it ends.   *)
Fairness ==
  \A d \in Deliveries :
    /\ WF_vars(Handle(d))
    /\ WF_vars(ReviewEnds(d))
    /\ \A t \in Tasks : WF_vars(ScriptEnds(d, t))

Safe == Init /\ [][Next]_vars
Spec == Safe /\ Fairness
-----------------------------------------------------------------------------
(* Properties.                                                             *)

\* Type invariant.
TypeOK ==
  /\ handler \in [Deliveries -> HandlerStates]
  /\ loaded \in [Deliveries -> Rulesets \cup {NoRuleset}]
  /\ key \in [Deliveries -> Keys]
  /\ asked \in [Deliveries -> SUBSET Tasks]
  /\ todo \in [Deliveries -> SUBSET Tasks]
  /\ answer \in [Deliveries -> Answers]
  /\ registry \in [Keys -> Deliveries \cup {NoRun}]
  /\ permits \in [Tasks -> Nat]
  /\ review \in [Deliveries -> ReviewStates]
  /\ script \in [Deliveries -> [Tasks -> ScriptStates]]

(* The registry holds exactly the reviews that are alive, each under its   *)
(* own commit: no commit stays blocked after its review, none is freed     *)
(* while its review still works or reports, and so no commit is ever under *)
(* two reviews (active_reviews.rs: try_start, finish, the guard's drop).   *)
RegistryExact ==
  \A k \in Keys, d \in Deliveries : registry[k] = d <=> Live(d) /\ key[d] = k

(* The permit count of a task is the number of its runs that are alive     *)
(* (script_scheduler.rs: try_acquire, the permit's drop).                  *)
PermitsExact == \A t \in Tasks : permits[t] = Cardinality(LiveScripts(t))

\* Whether a step that refuses delivery d has a reason among the live runs.
Justified(d) ==
  /\ review[d] = "requested" /\ review'[d] = "duplicate" =>
       \E e \in LiveReviews \ {d} : key[e] = key[d]
  /\ review[d] = "requested" /\ review'[d] = "busy" =>
       /\ Cardinality(LiveReviews) >= ReviewLimit(d)
       /\ \A e \in LiveReviews : key[e] # key[d]
  /\ \A t \in Tasks : script[d][t] = "none" /\ script'[d][t] = "busy" =>
       Cardinality(LiveScripts(t)) >= ScriptLimit(d, t)

(* Nobody is refused without a reason that holds at that moment among the  *)
(* runs themselves: "duplicate" only while the same commit is under        *)
(* review, "busy" only while as many runs are alive as the ruleset this    *)
(* handler has read allows (server.rs: the three results of try_start and  *)
(* the two of try_acquire).                                                *)
RefusalJustified == [][\A d \in Deliveries : Justified(d)]_vars

\* The slots the live runs hold, each under the limit its handler has read.
Slots ==
  [p \in Tasks \cup {ReviewPool} |->
    [d \in Deliveries |->
      IF p = ReviewPool THEN IF Live(d) THEN ReviewLimit(d) ELSE 0
      ELSE IF script[d][p] = "running" THEN ScriptLimit(d, p) ELSE 0]]

RulesetLimits ==
  {AtLeastOne(r.maxReviews) : r \in Rulesets}
    \cup {AtLeastOne(r.tasks[t]) : r \in Rulesets, t \in Tasks}

Pool == INSTANCE SlotPool WITH
          Pools <- Tasks \cup {ReviewPool}, Runs <- Deliveries,
          Capacities <- RulesetLimits, slots <- Slots

(* The map and the counters implement the abstract slot pools: every       *)
(* admission is into a pool with room, every end frees one slot.           *)
ImplementsSlotPool == Pool!Spec

(* Reviews over all commits, and runs of each script task, never exceed    *)
(* what the last admitted of them was promised, whatever the rules file    *)
(* has said since.                                                         *)
LimitsHonoured == Pool!CapacityHonoured

(* A commit under review does not stay blocked: its key is freed, also     *)
(* when the review fails (server.rs: run_webhook_review keeps the guard    *)
(* until the failure is reported).                                         *)
KeyFreed == \A k \in Keys : registry[k] # NoRun ~> registry[k] = NoRun
=============================================================================
