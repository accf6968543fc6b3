# COLIN-TRH in TLA+

COLIN-TRH is a forward-search temporal planner (COLIN, with a heuristic that
relaxes time windows). This directory holds TLA+ models of its search core, the
TLC configurations that check them on small planning problems, and proofs that
the TLA+ proof system checks. Paths below are relative to the repository's
`src/src/colin`.

## 1. The system

One process, one thread. `colinMain.cpp` parses and grounds the problem, runs
static analyses, then calls `FF::search`, which grows a space of states until it
meets the goals. The temporal heuristic starts another planner as a child
process for each state it evaluates.

| component | state it keeps | operations | interacts with |
|---|---|---|---|
| grounded problem and analyses (`RPGBuilder*`, `temporalanalysis`) | tables of conditions and effects, `startEndSkip`, `uninterestingnessCriteria`, TIL list | computed once, read everywhere | all |
| state transformer (`colintotalordertransformer`, `minimalstate`, `temporalconstraints`) | facts, annotations, invariant counters, started actions, ordering constraints | `applyAction`: TIL, instantaneous, compression-safe start, other start, end | applicability tests guard it; schedulers read its constraints |
| applicability (`RPGBuilderEvaluation`, `RPGBuilder::stepNeedsToHaveFinished`) | none | `findApplicableActions`, `testApplicability` | reads the state |
| search node (`FFSolver`, `ExtendedMinimalState`, `FFEvent`) | state + start event queue + plan | `applyActionToState`, `checkTemporalSoundness`, `evaluateStateAndUpdatePlan` | calls transformer, scheduler, heuristic |
| compression-safe scheduler | timestamps in the plan's events | `assignTimestamps` | called per evaluated state |
| STP and LP scheduler (`lpscheduler`, `solver*`) | earliest and latest times of the steps, per node | the child's edges are added to the network of its parent; a linear program only when something numeric takes part | called per evaluated state, for the verdict and the times |
| search control (`FF::search`) | open lists, visited states | EHC, switch to best-first search | search nodes |
| temporal heuristic (`TRH`) | temporary files, a working solution | `getHeuristic`, `reprocessPlan` | child planner, KK, STN, executor |
| deordering (`kk`) | none | `getOrderingConstratints` | TRH |
| temporal networks (`stn`, `itc`, `hRelax`) | weighted graph | SPFA, conflict extraction, relaxation loop | TRH |
| plan executor (`executor`) | a copy of a state | timing by Floyd-Warshall, replay | TRH |

What makes it hard is *order*. Snap-actions are applied in one order, but the
plan is only a partial order with times. A compression-safe action's end is
never applied: its effects count from the start, and annotations on the facts
say which later steps must wait for the real end. The same facts (which
instances run, which step is whose end) are kept in three places that are
updated at different moments. Nothing is persisted and there are no threads, so
crashes and interleavings of threads do not arise; the child process is the only
other actor.

Correctness, per component:

- analyses: moving an end effect to the start must not change what is executable;
- transformer: every execution that the recorded orderings allow must work;
- node: the three records agree; scheduler: earliest consistent times, always;
- search: a goal state is found, or its absence is real; every loop ends;
- TRH and its helpers: evaluation always ends, its value is what must be relaxed and
  no more, a plan kept as a solution executes, and so does every order of steps
  that deordering leaves open.

## 2. The modules

| module | models |
|---|---|
| `TemporalDomain` | the problem as search sees it; `CanSkipToEnd` (compression safety), `HoldThroughoutDeleteAtEnd`, `HasCriterion`/`Criterion` |
| `Annotations` | closed forms of what the helpers do to `firstAnnotations` and which ends they order |
| `AnnotationUpdate`, `AnnotationLoop` | the same update as one step, and as the loops of the code; the second implements the first |
| `TotalOrderTransformer` | `applyAction` with the applicability tests as guards |
| `PlanExecution` | the transformer and an executor with PDDL semantics that runs its steps in any permitted order |
| `SearchNode` | the transformer inside `applyActionToState` / `evaluateStateAndUpdatePlan` |
| `TemporalSoundness` | `checkTemporalSoundness`: what a child is tested for before it is scheduled, and the orderings among ends that this adds |
| `SimpleTemporalProblem` | `Propagation` and `propagateNewEdges`: an edge more in a solved network |
| `NodeScheduling` | a node from child to open: tested, its plan written, its edges collected (`prime`, `spawnChildData`) and propagated |
| `ScheduledExecution` | nodes that are scheduled, and `PlanExecution` of the plan of an open one |
| `CompressionSafeScheduler` | the transformer followed by a sweep, a visit per step |
| `VisitedStates` | `StateHash` in its normal and its dominance form: what is new, what is inserted, what is flagged as dominated |
| `Search` | `FF::search`: hill climbing, the switch, best-first search, over an abstract graph of states, with the store of `VisitedStates` |
| `Deordering` | `KK`: conditions and effects of steps, the validation structure as its set keeps it, the orderings |
| `DeorderedExecution` | a plan performed in any order that KK leaves open, under PDDL semantics |
| `RelaxedPlanReader` | the child's answer line by line, the backlog of ends, joining the header |
| `TimedPlans` | when a plan with times is valid, by PDDL semantics |
| `TemporalNetwork` | the network of a plan, the search for a negative cycle, conflict extraction, Floyd-Warshall times |
| `TemporalHeuristic` | `TRH::getHeuristic` and `HRelax::getHeuristic`: the modules above composed, phase by phase |
| `MCDomains`, `MC*` | small problems and constants for TLC |
| `*_proofs`, `*Theorems` | proofs |

**Correspondence.** The variables of `TotalOrderTransformer` have the names of the
fields of `MinimalState` and `TemporalConstraints`; the maps of the code are total
functions here, a missing key being the empty set or 0. A `map<int,bool>` of
predecessors is the set `stepsBefore` with its subset `epsilonBefore`; the bool
only ever becomes true, as in `addOrdering`. Actions: `ApplyTIL`, `ApplyInstant`,
`StartAction`, `StartSkippable`, `EndAction` are the five branches of
`applyAction`, each with its applicability test, the numbering of new steps, the
helpers, and the chain ordering at the end. `steps` and `applied` are history
variables: they are read by properties only, never by a guard.

`SearchNode` splits an edge of the search space in two, because the code does:
the child is made, with its start event pushed, and later evaluated, which pops
the event and writes the plan. `NodeScheduling` puts the other two stages of the
code between and after them: `open` → `child` → `sound` or `unsound`, `sound` → `open` or
`unschedulable`; only an open node is expanded. Its times count in `EPSILON`, `stamps`
are `lpMinTimestamp` and `lpMaxTimestamp` of the plan's steps, `edges` the
`temporaryEdges` that `ParentData` hands to `ChildData`. An entry of the start event
queue has one set `endComesAfter` for the code's `endComesAfter`, `endComesBefore` and
`endComesBeforePair`, which record the same relation from both sides. `missed` is a
history variable. The options are the default ones (`colinMain.cpp` lines 117 and 127);
the bounds that a state puts on the times of ends are 0 and infinity, as they are
without a derived window. `CompressionSafeScheduler` splits a sweep into its
visits. A timestamp is kept in the event across sweeps as in the code.

`Search` sees a state as a member of `Bases` (facts, values, running actions, next
literal) and a time, and a problem as a set of moves between them. A move carries
what the code computes for it: its duration and deadline (`checkTemporalSoundness`),
the heuristic value of the state it leads to *by that plan*, the makespan estimate,
whether it is a helpful action. `Pop` takes a node, `Drop` and `Try` treat one
successor each, in any order; `Try` is everything from the insertion in the store to
the open list. One model serves both loops: they differ in which states are visited
(`Visits`), in rank (`Rank`) and in what is done with an improvement (`Commit`,
`Enqueue`). `sightings` is a history variable.

`TemporalHeuristic` follows one evaluation. Its `pc` names the places between the
statements of `getHeuristic`: `child` (the external planner composes an answer),
`reading` (its lines, and the ends that are due before each, one at a time), `order`,
`ordered`, `making` (the network grows constraint by constraint: durations in the order
of the plan, then causal links), then `initial`, `tightened`, `relaxed`, in each of
which a search for a negative cycle runs on the current network (`VisitNext` takes a
vertex off the queue, `VisitEdge` follows one of its edges), `timing` (a round of
Floyd-Warshall per vertex), and `done` or `aborted`. From `ordered` the plan may instead
be `performing`: executed in some order that KK left open. Each loop of the code is thus
a loop of the model, which is what its proofs go by. An edge is a record in a list, as in the code, because the first of two
edges between the same steps wins and because the order of edges is the order in
which the search follows them; the code takes orderings from a set of pairs of
pointers, and `MakeNetwork` may take them in ascending or descending order of
position. Headers are plans of events whose pairs match (`HeuristicAssumption`), which
is what `PlansMatchStates` and `ScheduledNodesMatch` prove of the plans of search. Times are integers in units of `ColinSTNImpl::ACCURACY`, a tenth of
epsilon. The verdict is computed once by `isConsistent` and once more by
`checkTemporalConsistencySPFA`, with the same loop: the model searches once and uses
the result for both. The linear program is any cheapest growth of the durations in
the conflicts found so far that removes these; if there is none, the model changes
nothing, which is a loop for ever, and `RelaxationEnds` says that this is not met.
`relaxHist` holds the first weight of each relaxed edge, which is also the lower
bound of its decision variable.

**Abstractions.** Facts and actions are strings of small sets. Numeric variables,
duration-dependent conditions and linear effects are left out; what they decide
about compression safety and interest is given by the constants `SkipCandidates`
and `NoNumericBenefit`. The time windows `okayToStart`/`okayToEnd`, and the
discarding of a child whose numeric invariant fails, are left out: the model keeps
more states than the code. Durations do not depend on the state. End conditions that
can never be achieved again are a constant, `EndOneShots`, empty in the run. Rogue (statically
useless) actions are not in `Actions`. TILs are applied one at a time, as
`findApplicableActions` offers them. Times are counted in epsilons (0.001).

**External.** `PlanExecution`, `DeorderedExecution` and `TimedPlans` are not code of the
repository: they are the semantics of PDDL 2.1 that plans are for. So are the child
planner (`ChildAdds`: any applicable action, any time; `ValidAnswer`: its plan is valid
for the problem it was given, in which timed literals are actions that happen once and
in order) and the linear program. They are marked external in the map.

Definitions commented `broken` are variants of the definition after them, of the
kind a slip in the code would produce (a missing condition, the wrong end of a
queue). No action uses them; they are there to see that each property notices.

## 3. The runs

All runs set `CHECK_DEADLOCK FALSE`: behaviours stop when the plan has
`MaxPlanLength` steps and nothing can be ended, or when the plan has been
executed; the code has no such limit.

| run | bounds | states | shows |
|---|---|---|---|
| `execution` | six actions, five facts, two literals, 8 steps | 23 000 | all executions of scheduled nodes succeed, keep over-all conditions, never stick and end in the search's facts; the soundness test discards nothing that has a schedule; the incremental verdict and the earliest times are those of the whole network |
| `search_node` | the same actions, one literal, 11 steps | 687 000 | types; orderings acyclic and a chain; pending ends ordered before the steps they concern; counters and annotations accurate; queue, plan and state agree; durations and rank are right |
| `scheduler` | four compression-safe actions and the TIL, 11 steps | 12 000 | consistent, earliest, stable times; every sweep completes |
| `search` | all problems made of some of 11 moves over 6 states, 5 command lines, at most 18 states created | 843 000 | search ends; "unsolvable" is right; no needless second visit; nothing is lost from the open lists; undominated states stand for all |
| `heuristic` | four actions, two literals, two headers, answers of up to 3 lines at 6 times, every set of links that `KK` may keep | 482 000 | pairing; deordering succeeds unless the reader reordered; certified verdicts; least relaxation; solutions keep durations and earliest times, and execute if `KK` protects all their conditions; 0 means solved unless it is rounded; every permitted order finds the conditions of the links; evaluation ends |
| `annotation_loop` | all annotations of 2 facts by 2 ends, all lists of up to 3 conditions, 3 effect lists | 571 000 | the loops end and equal the closed forms |

**Why the bounds suffice.** The workshop problem has an action of each kind: two
compression-safe actions of which one uses what the other adds at its end, one by
the delete-at-end idiom, two that are not compression safe, of which one may
overlap itself and one deletes its own invariant, an instantaneous action and a
timed literal that changes facts others depend on. Eight steps hold three durative
starts and more, so that an end meets the annotations of two earlier starts, two
instances of an action overlap, and a fact is pending by two ends at once. In
eleven steps five starts are possible. `MaxPlanLength` is the only bound on the
behaviours.

In `execution` durations are a few epsilons, so that the literals at 8 and 16 cut
actions off and one action may be too short to contain another. Every reason for which
`checkTemporalSoundness` rejects a child occurs, and every case in which
`spawnChildData` finds an inconsistency before it propagates, but one: an end that has
to wait for another open end has been rejected by the soundness test before. Nine steps
pass as well (49 000 states). The orderings among ends of running actions may form a
cycle, since the soundness test adds them before anything is solved; no end is part of
the plan before it is applied, and none is applied while it waits for another, which is
what `NeverStuck` is about (theorem `ScheduledPlansGoOn`). `MaxVisits` bounds the visits
of one propagation; 14 are enough in these runs, 40 are allowed. `VerdictIsExact` and
`StampsAreExact` are about nodes none of whose ancestors lost an edge, for the reason
given below under `ordering_not_propagated`; the gate closes on 8% of the states. They compare with
`EarliestTimes`, which is computed from scratch out of all orderings, durations and
literals.

`search_node` leaves the soundness test and the STP out: its properties are checked on
all states that the transformer can make, those that search discards included.
`annotation_loop` starts from *every* annotation rather than reachable ones, with
repetitions in the list of conditions, since `Retained` depends on them.

In `search`, the initial state chooses the moves, so a run covers 2048 problems per
command line. Among the moves are three ways to `a` that can be tried in an order
where an earlier arrival comes between two later ones, a cycle without deadline, a
dead end for a state that another plan reaches alive, two timed literals of which the
first may be leapt over, and a compression-safe start. `MaxStates` does not hide
anything: a behaviour that needs more states would be stuck there and violate
`SearchEnds`; none does, if no move is compression safe.

In `heuristic`, a forge has power between two literals that are 90 apart and an
action that needs power for 72: with what comes before and after it, networks are
inconsistent once, twice, or not at all, and what is lacking may be less than half a
thousandth, which rounding makes a 0. One action spans both literals, so ends overtake
starts in the reader's backlog; one is instantaneous and asks a fact to be false, which
`KK` does not see. Power and light are facts of one name and two arguments that
`Proposition::operator<` cannot tell apart: an event that needs both may lose one of its
links. Solutions with all their links and solutions that lost one both occur, and among the
latter some that cannot be executed: that `SolutionIsExecutable` asks for all links is
needed. `MaxIterations` only stops counters that modes 1 to 3 return; `Slacks` holds what
the cheapest relaxations use, and `MaxSeparation` is larger than any distance. The
network of the largest plan has nine vertices.

**Fairness.** Safety properties need none. Four specifications assume weak fairness:
of a scheduler sweep once begun (`VisitStep`, `EndSweep`), of the helper loops, of
the search loop, and of an evaluation by the heuristic once the child has answered
(`EvaluationGoesOn`, written out because TLC's `ENABLED` is slow on it; a step is
possible in each of the phases it names). That the child answers is not assumed. All are loops of a single-threaded program that nothing can
suspend. In the models of the transformer, whether search applies another action is
never assumed.

**What the search properties presuppose.** `VerdictJustified` is about searches without
dominance whose dead ends are dead whatever the plan: a dead end is stored, and an
equal state that another plan reaches later is pruned with it. `SearchEnds` and
`VisitedOnce` leave out compression-safe starts: evaluating a state takes the start
off the event queue of the state that the store holds by reference (`FFSolver.cpp`
line 2267), so the same state reached by such a start is new each time, and
best-first search can go round for ever.

### Where the code departs from its comments

Six runs end in a counterexample; each checks one statement of the code's own
comments or messages on a problem of a few actions.

| run | statement | what happens |
|---|---|---|
| `idiom_readded` | end deletes moved to the start are equivalent (`temporalanalysis.cpp:584`) | a fact added again by another action is deleted by the pending end before the step that relies on it |
| `idiom_breaks_invariant` | nothing skips past invariants of running actions (`RPGBuilder.cpp:3450`) | the start of a compression-safe action applies its end deletes untested |
| `ordering_not_propagated` | the network of a node has all the recorded orderings: `assert(!cd \|\| cd->checkItContainsAllTheseEdges(...))` (`lpscheduler.cpp:2164`) | `checkTemporalSoundness` orders two earlier steps, `spawnChildData` collects edges at the new step only |
| `dominated_child` | a state is flagged when "New state dominates this one" (`FFSolver.cpp:4373`), and "Problem Unsolvable" (`:6299`) | children made after their parent was flagged inherit the flag, occupy the store and are never expanded: a solvable problem is called unsolvable |
| `goal_unprotected` | "The relaxed plan is a solution to the original problem" (`HRelax.cpp:70`) | no step stands for the goals in the deordering, and the step that deletes a goal is timed after the one that achieves it |
| `running_action_unordered` | a plan always has an ordering, or there were "logical issues" (`HRelax.cpp:40`) | the plan of a node lists the end of a running action right after its start, and the end's conditions find no support there |

Read but not run: an action is rejected as "definitely not useful" (`RPGBuilder.h:1562`)
once one fact that it adds holds, the last in the list, if nothing deletes what it adds
(`RPGBuilderAnalysis.cpp:68`, `:82`), whether or not the others hold; the temporal heuristic is given the time of the
highest-numbered step, which need not be the latest (`FFSolver.cpp:1586`); when the
child planner cannot be started, its files are left behind (`TRH/TRH.cpp:178`); `latestTimePointOfActionsStartedHere` returns no bound for any literal
that exists, its test being inverted (`colintotalordertransformer.cpp:63` against the
header's line 68). The next two were found by the proof of
`SolutionsExecute`, and do not happen in the run: KK protects a condition that has to
hold throughout an action only where the condition is linked, at its ends
(`pddl/PDDLUtils.cpp`), so a step that the list has between the two and that threatens
it is not ordered; and of several supporters of one condition it orders the one it
links, so the executor may time another at the very moment of the consumer, which is
then not executable under the separation that PDDL asks for.

Three more limits of the heuristic are in the model and happen in the run:

- `getConditionLiterals` (`pddl/PDDLUtils.cpp:325`) knows conjunctions, timed goals and
  simple goals. A negative condition is a goal of another class (`neg_goal`,
  `VALfiles/parsing/pddl+.yacc:1052`) and yields no literal: `KK` neither links nor
  protects it, nor gives up for the lack of a support. `Conditions` and `Invariants` of
  `Deordering` have positive literals only, while `TimedPlans`, the semantics, has both.
- The links are elements of a `std::set` (`kk/KK.cpp:30`), compared by
  `Proposition::operator<` (`pddl/Proposition.cpp:134`). For two facts of one name and
  arity that asks *every* argument to be smaller, so `(at p1 l1)` and `(at p1 l2)` are
  the same to the set, and of two links of them with one supporter and one consumer it may
  drop the later. The threats to the other are not ordered. The comparison is no
  strict weak order, so which links are compared depends on the shape of the tree:
  `ValidationStructures` has every set in which a dropped link has one left that it was
  taken for. `ComparableFactsKeepEveryLink` says when nothing is dropped.
- A value below half a thousandth is rounded to 0 (`TRH/TRH.cpp:138`), a goal to search,
  although no solution was kept for it (`LostInRounding`, an exception of
  `ZeroMeansSolved`). With durations in whole epsilons that cannot be.

`running_action_unordered` limits what `heuristic` says to headers that KK can order.
`idiom_readded` and `idiom_breaks_invariant` limit what the passing runs say: `execution` is checked on a problem
where the delete-at-end fact is not added again and is no invariant of another
action. `PendingEndsRespected` excludes, for the same reason, the facts in
`Scrubbed`, whose annotations a compression-safe start erases.

## 4. The proofs

The theorems hold for every problem, plan length and graph of states that satisfies
the named assumptions.

| theorem | states |
|---|---|
| *transformer* (`TotalOrderTransformer_proofs`, `AnnotationLoop_proofs`) | |
| `StatesAreWellTyped` | `Spec => []TypeOK` |
| `SnapActionMeetsWhatItTouches` | a snap-action meets each pending end that concerns what it uses, deletes or adds, and erases no other annotation |
| `LoopsImplementTheUpdate` | the loops of the two helpers implement the closed forms: `Spec => ImplementsUpdate` |
| `OrderingsHaveNoCycle` | `Spec => []OrderingsFollowApplication` |
| `AppliedStepsAreOrdered` | `Spec => []AppliedStepsAreAChain` |
| `ConcernedStepsAwaitPendingEnds` | `Spec => []PendingEndsRespected` |
| `SchedulesRespectPendingEnds` | in any assignment of times that satisfies the orderings, the step is strictly after the pending end |
| `CountersAreRight` | `Spec => []CountersMatchRunningActions` |
| `AnnotatedFactsHold` | `Spec => []AnnotationsAreAccurate` |
| *scheduler* (`SchedulerTheorems`) | |
| `SchedulesAreConsistent`, `SchedulesAreEarliest` | what a sweep leaves satisfies orderings and durations, and nothing is late without reason |
| `HeadersAreNeverMoved` | `SchedSpec => HeaderKeepsItsTimes` |
| `SweepsMissNoStep` | when a sweep returns, every step has a timestamp |
| `SweptSchedulesRespectPendingEnds` | `SchedSpec => []ScheduleRespectsPendingEnds` |
| `SweepsLeaveTheSearchAlone` | `SchedSpec => Spec` |
| *search* (`SearchTheorems`) | |
| `SearchIsTyped` | `SearchSpec => []SearchTypes` |
| `NothingBetterIsLost` | `SearchSpec => LosesNothingBetter`, an action property |
| `UndominatedStatesCover` | `SearchSpec => []UndominatedCoverStored` |
| `StatesAreVisitedOnce` | `SearchSpec => []VisitedOnce` |
| `NoSolutionIsMissed` | "unsolvable" is said only if no sequence of moves of any length solves the problem |
| `VerdictsAreJustified` | `SearchSpec => []VerdictJustified`, for finitely many states |
| *node* (`SearchNodeTheorems`) | |
| `NodesAreStates` | `NodeSpec => Spec` |
| `QueuesMatchStates`, `PlansMatchStates` | the event queue and the plan say what the state says |
| `PairsKeepTheirDuration`, `RanksCountSteps` | durations are attached to the right steps; the rank counts what has been applied |
| *execution* (`ExecutionTheorems`) | |
| `ExecutorIsNeverStuck` | `ExecSpec => []NeverStuck` |
| `EveryOrderIsApplicable`, `NoOrderBreaksAnInvariant`, `EveryOrderEndsAlike` | every order that the recorded orderings allow can be executed, keeps over-all conditions, and ends in the facts of the search |
| *scheduled nodes* (`ScheduledExecution_proofs`) | |
| `ScheduledPlansGoOn` | `ScheduledSpec => []NeverStuck`, with the orderings that `checkTemporalSoundness` adds |
| `ScheduledPlansAreApplicable`, `ScheduledPlansKeepInvariants`, `ScheduledPlansEndAlike` | the same three for the plans of nodes that have been tested and scheduled: the properties that `execution` checks, under the specification it runs |
| `ScheduledNodesMatch` | queue, plan and state of such nodes agree, and durations are attached to the right steps |
| *temporal heuristic* (`HeuristicTheorems`) | |
| `DeorderedPlansExecute` | `DeorderedSpec => []ReadyStepsFindTheirConditions`, for plans of any length and any set of links that `KK` may keep: conditions whose links are kept |
| `DeorderedInvariantsKept` | `DeorderedSpec => []RunningActionsKeepTheirInvariants`, likewise |
| `ComparableFactsKeepEveryLink` | if of any two facts `Proposition::operator<` puts one before the other, the set drops no link |
| `EvaluatedPlansExecute`, `EvaluatedInvariantsKept` | the same two for the plans that `HeuristicSpec` puts together and orders |
| `TotalPlansPairTheirSteps` | `HeuristicSpec => []PairsPointBack`, whatever the child planner answers |
| `ConsistentNetworksHaveTimes` | when the search for a negative cycle ends without one, its distances fit every edge (one half of `VerdictsAreCertified`) |
| `DispatchesAreEarliest` | `HeuristicSpec => []DispatchTimesAreEarliest`: the times of a solution fit the network exactly and none could be earlier |
| `ExecutorNeverExits` | the exit at `executor/PlanExecutor.cpp:61` is unreachable |
| `SolutionsKeepTheirTimes` | in a kept solution durations are between their bounds and timed literals at their times |
| `SolutionsFindTheirConditions` | each step of a kept solution finds the conditions whose links are kept at its time, threatened by no other step at that moment |
| `SolutionsExecute` | `HeuristicSpec => [](NothingLeftToChance => SolutionIsExecutable)`: a solution without negative conditions that lost no link executes |

### Assumptions

`DomainAssumption`: types of the operators; a non-durative action has only start
parts; an action lists each over-all condition once, without which the counter theorem
is false. `BoundAssumption`, `LoopAssumption`, `DurationAssumption`, `StoreAssumption`,
`SeparationAssumption` and `SearchAssumption` say what kind of value a constant is.
`HeuristicAssumption` also says that headers are plans whose starts and ends are paired,
and that timed literals lie before `MAX_ACTION_SEPARATION`, the distance that stands for
"not reached yet". Durations are positive
for the scheduler, where a duration of 0 would let an end share the time of its start.
All these are evaluated by TLC in the runs.

Some theorems need more of the problem, and say so in their statement:

- `EvenTimes` (`DispatchesAreEarliest`, `ExecutorNeverExits`, `Solutions*`): durations,
  times of literals and half of `MAX_ACTION_SEPARATION` are multiples of two units, a
  fifth of epsilon. The search compares with a tolerance (`ACCURACY`, one unit),
  Floyd-Warshall without. With finer durations the first may accept a network that the
  second does not, and the times then violate an edge, or the program exits. With
  multiples of two units the tolerance hides nothing.
- `FactsAreComparable` (`ComparableFactsKeepEveryLink`): no two facts are equivalent for
  `Proposition::operator<`, as when no two facts of one name have more than one argument.
- `DurationsArePositive` (`SolutionsFindTheirConditions`, `SolutionsExecute`): of two
  constraints between the same steps the network keeps the first, so if the end of an
  action relies on its start only the duration separates them.
- `NothingLeftToChance`, inside the statement of `SolutionsExecute`: what KK does not
  order (section 3, read but not run) does not happen in this solution. Added to the
  `heuristic` run as an invariant, it holds in every state.
- `InvariantsSurviveStarts` (`AnnotatedFactsHold`): no compression-safe action takes
  away at its start what it needs throughout, unless its end takes it anyway. The code
  annotates such a fact with the end although the fact is gone.
- `DeadEndsAreStates` and `GoalsAreStates` (inside `VerdictJustified` and
  `NoSolutionIsMissed`): whether a state is a dead end, or a goal, does not depend on
  the plan that reaches it. Without the
  second a move could be a solution or not according to the plan, which no goal test of
  the code makes it.
- four hypotheses in `ExecutionTheorems` and `ScheduledExecution_proofs`, which together say that no condition can tell
  that a compression-safe end was applied early. `StartsKeepInvariants`: as above, for
  all actions. `TokensAreSpentOnce`: a condition that such an end deletes is not
  added again and whoever deletes it has it as a condition; `idiom_readded` is a
  problem where this fails. `NegativesIgnoreEarlyDeletes`: no negative condition
  mentions such a fact. `EndNegativesStayFalse`: what such an end needs to be false is
  not added by anyone. The last two were found by the proof: `canSkipToEnd`
  (`temporalanalysis.cpp`, lines 855 to 1060) accepts actions with negative end
  conditions, and `colintotalordertransformer.cpp` orders no step with respect to a
  negative condition of a pending end, so a step between start and end may add the fact.
- `EarlyDeletesStayDeleted` (`EveryOrderEndsAlike`, `ScheduledPlansEndAlike`): as the name says. A fact that is
  added after the early deletion and before the late one is in one set of facts only.

`ProblemAssumption` of `MCHeuristic` states that its problem satisfies `EvenTimes` and
`DurationsArePositive`; `FactsAreComparable` it does not satisfy, so that links are dropped.
`ProblemAssumption` of `MCExecution` states that the problem of the run satisfies all
five, and that it has a fact deleted early (`Scrubbed = {"token"}`): the hypotheses
hold where the idiom is used.

### Argument

**Transformer.** All five actions have one shape, `Applies(k, pre, dels, adds, ...)`: a
step `k` is appended, ordered after the ends it meets and the most recent step, and
annotations only shrink except for those of one new end. The proofs show once that
each action has this shape, then reason about the shape.

`TypeOK` is not inductive: that an end being applied has a number below
`planLength` needs that the ends in `startedActions` are recorded end steps
(`TypeInv`). `PendingEndsRespected` is not inductive either: an ordering is added only
if the annotation is still there. `PendingEndsAreTracked`, the heart of `OrderInv`,
says that a pending end either still annotates every fact it is about, or has been
ordered before an applied step; the chain carries the second case to all later steps.
`SchedulesRespectPendingEnds` adds that times strictly increase along the chain.
`CounterInv` adds finiteness of the set of running instances, from which the
cardinality lemmas count one more or one less.

`LoopInv` says that before each literal the annotations are what the closed form of the
literals handled so far leaves. The step from one literal to the next is the content of
`MeetingOneMore`, `DeletingOneMore` and `AddingOneMore`; the difficult case is a fact that
occurs twice in the list of conditions, whose second occurrence meets what the first has
left.

**Scheduler.** `SchedInv`: the fan-in of a step is the number of its predecessors not
yet visited, the steps on the list are those without any, and what has been visited
is consistent and held back by something visited. That no step is left out follows
because orderings lead to higher steps when every action is compression safe: the least
step not visited has no predecessor outside what was visited. A header is swept to the
same times because its steps get no new predecessors.

**Search.** `BasicInv` types everything a state can come from. The cover of the stored
states by the undominated ones needs only that an entry joins the list when nothing on
it is as good in all respects. `VisitedOnce` needs, besides, that a state which no
compression-safe start leads to has one entry (`SingleEntries`), no later than any live
visit. `AllExpanded`, for best-first search without dominance, says of each entry that
is not a dead end that it is open, or each move from it is untried, unsound, or has
led to an entry at least as early. With an empty list of open states, a shortest sequence
of moves that leaves the entries has no first step.

**Node.** `NodesAreStates` lets `TypeInv` and `OrderInv` be used for the state of a
node. `QueueInv` and `PlanInv` describe both halves of an edge: between them the event
of the step under way is on the queue already and not yet in the plan.
`PairsCarryTheirDuration` depends on the entry under way being the last of the queue.

**Execution.** The applied steps are executed in the order of their application, the
chain sees to that; so what has been executed is a prefix of them, with some pending ends
(`DoneUpTo`). `FactsAt(p)` are the facts the search had after the prefix, `WorldFollows`
says that the executor's differ from them only by what pending ends will still add. A
step that could tell is ordered after the end, by `OrderInv`, hence is not ready. Facts
that ends delete early are tracked apart (`EarlyDeletesRemain`): each is used up by one
applied step. `NeverStuck` needs no more than acyclicity.

**Scheduled nodes.** The soundness test adds orderings of its own, between ends of
actions that run, and not always from what was applied earlier to what was applied later:
a short action may have to end before one that started before it. So a scheduled
node is not a node of `ExecSpec`, and `OrderingsFollowApplication` is false of it.
`OrderingsAreEnforced` says what is true instead: an ordering either follows the
application, or leads into the end of a running action, from a step of the plan or from an
end that the action's queue entry waits for (`endComesAfter`). Every action of
`NodeScheduling` keeps this: `OrderingsOfStart` adds orderings only from ends that some
entry now waits for, `CheckEnd` frees the waiting entries only when the end they wait
for is in the plan, and an end passes the test only when its own entry waits for nothing
(`TestedEndsWaitForNothing`). An entry that is left in an open node is that of an
action that runs, whose end is not in the plan; so the orderings into a step of the plan
follow the application (`OpenPlansFollow`), which is what `NeverStuck` needs
(`OrderedPlansGoOn`). The remaining theorems carry over because
a step of search is one of the execution model or adds orderings only
(`ScheduledMoves`), and more orderings take nothing from what `HistoryInv` says
(`OrderingsKeepHistory`). In between, `Retimed` sums up the test for the three kinds of
step: the entries of the queue keep all but their times and what they wait for. In the
run both alternatives of `OrderingsAreEnforced` occur, and entries that wait.

**Temporal heuristic, deordering.** `LinkInv` says that the condition of a step that
is still to come, if its link is kept, holds as soon as its support is performed, and
the support's predecessors are performed in order. A step that breaks the condition is ordered
before the support or after the consumer: if it is listed between them it would have
ended the walk of `findMinimumSupportingAction`; listed before, it is ordered before
the support by the threat to the producer's link; listed after, behind the consumer.
The least supporter is found by well-founded induction (`WellFoundedInduction`, its
facts on `Nat`). `OrderInv` carries this over to an evaluation.

**Temporal heuristic, reader and network.** `ReadingInv`: of what has been read,
starts and ends point at each other, and each end in the backlog points at a start
that points nowhere yet, different for each. Joining the plans shifts both sides of a
pair by the same amount. `NetworkInv`: in each direction there is at most one edge
between two steps, edges join different steps of the plan, and two steps that are
ordered have an edge each way; so every step has one from and one to the initial
event. `MadeInv` adds what the edges weigh: the duration between the two ends of an
action, for duration edges are made first, epsilon back from a step to one ordered
before it, and the time of a literal once they have returned.

**Temporal heuristic, search.** `SearchInv` is the invariant of a label-correcting
search, with the loop over the edges of one vertex opened: an edge fits up to the
tolerance, or its first vertex is on the queue or not reached, or it is still to be
followed in the visit under way. A distance of `MaxSeparation` stands for "not
reached", and is no distance a fit could use; `Begun` says that the visit of the
initial event, the first, reaches every vertex, and that distances stay below from
then on. With an empty queue and no edge to follow, every edge fits. `EvenInv` keeps
distances even, whence the fit is exact.

**Temporal heuristic, executor.** The fit found by the search is the witness that the
network has no negative cycle; `TimingInv` needs no paths. Each entry of the matrix
bounds the difference of its two steps in every schedule that fits (`Bounds`), and
after a round the triangles through the vertices done are closed (`Through`). The
diagonal is 0, because some schedule fits: the exit is unreachable. In the end the
column of the initial event is itself a schedule that fits, and bounds all others from
below. If a chain without slack led back from some steps only, the others could all be
one unit earlier and still fit: hence `Anchored`.

**Temporal heuristic, solutions.** `KeptInv` reads durations, literals and orderings
off the edges. A step ordered after another comes strictly later (`IsOrdered`). So a
supporter is before its consumer, a threat is after the consumer or before the
supporter, and what touches the fact last before the consumer leaves it as the
condition wants it (`ConditionsAreFound`). Where no condition is negative and no link
dropped, these are all the conditions there are (`AllConditionsAreMet`,
`OverAllConditionsAreKept`).

### Only model-checked

- the soundness test and the STP: `SoundnessCheckIsSafe`, `VerdictIsExact`,
  `StampsAreExact`. That propagation ends within `MaxVisits` visits, and then has found
  all there is, is an induction over what it computes;
- of the temporal heuristic: `AbortsOnlyWhenMisread`, for the validity of the child's
  plan in its own problem is a fold over its lines; the other half of
  `VerdictsAreCertified`, that a conflict is a negative cycle, and
  `ValueIsNeededRelaxation` and `ZeroMeansSolved`, which are about sums over
  sets of edges and about what a linear program minimises;
- liveness, which is out of the prover's reach: `SweepsReachEveryStep`, `SearchEnds`,
  `LoopsTerminate`, `RelaxationEnds`.

## 5. What is not modelled, and the plan

Not modelled by intent: the vendored VAL parser and validator, PDDL text output, the
command line, the LP over reals (the orderings it must respect and the STP that replaces it
for propositional problems are), code
excluded from the build (`partialordertransformer`, `totalordertransformer`,
stochastic durations).

Next, in order:

1. **Search, continued**: searching on for better plans, an abstract specification
   (reachability) that a best-first search implements.
2. **Negative conditions** in the `execution` run, and TIL times in the compression-safe
   scheduler's.
3. **Proofs**: one half of `VerdictIsExact`: that the times the STP leaves satisfy every
   edge it has stored.

`PROJECT.json` lists, per component, what is modelled; the map from each definition to
the lines it stands for; and the hazards, with the properties that cover them.
