# maplan in TLA+

maplan is a domain-independent planner, single-agent and multi-agent, written
in C. This directory holds a formal model of it: TLA+ modules translated from
the source, TLC configurations that model-check them on small instances, and
theorems with proofs checked by TLAPS. Paths below are relative to the
repository, so the planner's own sources are under `src/src`, `src/plan` and
`src/bin`.

## 1. The system

A *problem* (variables, operators, initial state, goal) is read from a file,
simplified, and divided among the agents if there are several. It is searched by
a *search algorithm* (A*, lazy best-first, enforced hill climbing) that draws
states from a *state pool*, keeps *search nodes* in a *state space*, *open
lists* of the states to expand, and asks a *heuristic* for estimates. In the
multi-agent mode every agent runs such a search with its own operators in its
own thread (or process), and `ma_search.c` is wrapped around it: it reads
messages between two steps, publishes states, verifies solutions by distributed
snapshots, traces plans across agents, and ends the search of all agents by a
protocol on a ring. Some heuristics are computed by all the agents together.

| component | source | state it keeps | operations | correct when |
|---|---|---|---|---|
| Multi-agent run | `ma_search.c`, `search.c` | `terminate`, `blocked`, `res`, `path` | step, post-step, reading, blocking, waiting inside a heuristic | every agent returns, all with one result |
| Termination protocol | `ma_search.c` 523-700 | `term_t` | request, forward or drop it, FINAL, FINAL_ACK, FINAL_FIN | one winner; nothing but FINAL_FIN left in a channel |
| Communication | `ma_comm_nanomsg.c` | sockets and their queues | send to one, to all, around the ring; receive with and without waiting | per-sender order, no loss |
| Distributed snapshots | `ma_snapshot.c` | registry, per object the marks and answers counted | start, join, mark, respond, update | each snapshot is a consistent cut, and ends |
| Verification of solutions | `ma_search.c` 824-1027 | `lowest_cost`, `ack`, `init_msg`, `goal`, `goal_cost` | start, join, acknowledge or refuse, conclude, re-insert | what is accepted is optimal; what is refused is kept |
| Tracing of plans | `ma_search.c` 703-822 | (in messages) | own part, pass on, complete | a plan is complete and as cheap as its goal |
| Verification of dead ends | `ma_search.c` 1029-1139 | `blocked`, `ack` | start on a timeout, join, conclude | terminates exactly at a global dead end |
| A*, lazy search, EHC | `search.c`, `search_*.c`, `pref_op_selector.c` | open list, best value, result, abort flag | init, step, insert, extract the plan | plans can be executed; A* is optimal; an empty list means no plan |
| State space | `state_space.c` | nodes: new, open, closed | open, reopen, close | transitions are legal |
| Open lists | `list*.c`, `prio_queue.c` | buckets, heaps, trees | push, pop, top, clear | pops a least element, first in first out among equals |
| Distributed h^max | `heur_ma_max.c`, `op_id_tr.c` | relaxation of the projection, agents to ask, fake values of the private part | start, answer, take an answer | the value arrives, is never too high, and equals the sequential one |
| Distributed LM-Cut | `heur_ma_lm_cut.c` | phase, h^max, cut, who is to be asked; the same for the private part of every agent | start, seven kinds of questions and answers | agents agree on the graph, cuts are landmarks, the value arrives |
| Distributed FF | `heur_ma_ff.c` | relaxed plan, outstanding questions | start, answer, take an answer | the relaxed plan is closed, no question twice, the value arrives |
| Distributed DTG heuristic | `heur_ma_dtg.c` | the context of the evaluation, slots for the questions that are out, numbered by tokens | start, answer or pass on, take an answer, go on | an answer finds its question, the estimate does not depend on the order of messages, the value arrives |
| Domain transition graphs | `dtg.c`, `heur_dtg.c` | operators between values, paths, reached values, open goals | build, find paths, take the farthest goal, go to it | distances are up to date, no goal is forgotten |
| Relaxation heuristics | `heur_relax*.c`, `heur_lm_cut.c`, `landmark.c`, `heur_goalcount.c` | fact and operator values, cuts, the cache of landmarks | explore, repair, find cuts, take landmarks over | values equal the definition, or are admissible |
| States | `state_pool.c`, `state_packer.c`, `ma_state.c`, `ma_private_state.c` | tables of packed states | insert, look up, pack, unpack, send, receive | a state has one identifier |
| Successor generator | `succ_gen.c`, `search_applicable_ops.c`, `op.c` | decision tree | build, query | finds exactly the applicable operators |
| Causal graph | `causal_graph.c` | weights, components, order | build, prune, order | what is pruned does not matter |
| Problem definitions | `problem.cc`, `problem.c` | problems of the agents | load, prune, divide, project | plans are kept; projections are optimistic |
| Messages | `ma_msg.c`, `msg_schema.c` | fields and a header of those set | set, add, encode, decode, forward | decode inverts encode between any hosts |
| Front end | `bin/search.c`, `bin/options.c` | limit monitor, registry, mutex, threads | load, run, register, abort, join | a limit ends the process |
| Not modelled | `heur_*pot*.c`, `pot.c`, `lp.c`, `heur_flow.c`, `search_stat.c` | | | see section 6 |

How they interact: threads share nothing but the channels of the communication
layer and, at the front end, the abort flags and the limit monitor. Inside an
agent everything is called from its one loop, with two re-entries: the post-step
callback of the search (`searchPostStep`), and `searchMAHeur`, which reads and
processes messages *in the middle of a step* while the other agents' parts of a
heuristic value are awaited.

What is hard here is therefore the order of messages between agents (initiators
of the termination, overlapping snapshots, states in transit, questions about
heuristics that cross), reading them inside an expansion, state that is read
before such a re-entry and used after it, the exits that the protocol may or may
not reach, and the monitor and the signal handlers, which reach into searches
that come and go. In the sequential parts it is data that are kept for later:
nodes that are reopened, operators in a list whose state was reached in between,
values repaired instead of computed, landmarks of another state, bits of a buffer
left from the message before. Nothing is persisted, so no agent restarts;
messages are not lost, so there are no retries but the one of the blocked agent.
The full list, each with its line and the properties that guard it, is `hazards`
in `PROJECT.json`.

## 2. Modules

| module | models | composes |
|---|---|---|
| `Channels` | the communication layer: `chan[a][b]`, send, consume | |
| `AgreeToStop` | abstract: the agents stop with one common outcome | |
| `MATerminate` | the run of an agent and the termination protocol | `Channels`; implements `AgreeToStop` |
| `MATerminateProofs` | theorems about `MATerminate`: the election, then the flush | `MATerminate`, TLAPS |
| `SnapshotObject` | one `plan_ma_snapshot_t`: counting, completion | |
| `MASnapshot` | overlapping snapshots while work moves about | `Channels`, `SnapshotObject` |
| `MASnapshotProofs` | theorems about `MASnapshot` | `MASnapshot`, TLAPS |
| `MADeadEnd` | blocking and the verification of dead ends | `Channels`, `SnapshotObject` |
| `MASearch` | distributed A*, verification of solutions, tracing | `Channels`, `SnapshotObject` |
| `SnapshotRounds` | lemmas about one snapshot in any channels | `Channels`, TLAPS |
| `MASearchProofs` | theorems about `MASearch`: what agents know of each other's states | `MASearch`, `SnapshotRounds`, TLAPS |
| `MATraceProofs` | theorems about `MASearch`: tracing a plan | `MASearchProofs` |
| `LocalSearch` | the search of one agent: A*, lazy, hill climbing, the loop around them, abort | |
| `LocalSearchProofs` | theorems about `LocalSearch`: plans, optimality, exhaustion | `LocalSearch`, `ListsProofs` |
| `PriorityQueue` | abstract: a (stable) priority queue | |
| `Lists` | every open list and the adaptive priority queue | implements `PriorityQueue` |
| `ListsProofs` | theorem about `Lists`: the refinement | `Lists`, TLAPS |
| `StatePacker`, `MAState` | packed states; the numbers that agents give to states, private parts, states in messages | |
| `CausalGraph`, `SuccGen`, `Loader` | from the parsed file to the problem of every agent | `Loader` uses both |
| `MsgSchema`, `Messages` | encoding; messages and their ways between hosts | `Messages` uses `MsgSchema` |
| `HeurRelax` | the delete relaxation: exploration, repair, relaxed plans | |
| `Projections` | what an agent knows of a problem in a distributed heuristic | `HeurRelax` |
| `MAHeurMax` | distributed h^max | `Channels`, `Projections` |
| `Cuts`, `MALmCut` | an agent's part of the justification graph; distributed LM-Cut | `Channels`, `Projections` |
| `MAHeurFF` | distributed FF | `Channels`, `Projections` |
| `DTG` | domain transition graphs and a step of the heuristic on them | `HeurRelax` |
| `MADTG` | the distributed heuristic on domain transition graphs | `Channels`, `Projections`, `DTG` |
| `Heuristics` | the heuristics of a single agent, with the cache of landmarks | `HeurRelax`, `DTG` |
| `Planner` | the process: options, threads, limit monitor, signals | |
| `PlannerProofs` | theorems about `Planner` | `Planner`, TLAPS |
| `MC...` | values for TLC; `MCSearches` and `MCHeuristics` run several modules side by side, one at a time | |

`MCSearches` and `MCHeuristics` put modules that have no step in common into one
instance: `which` chooses one, and the variables of the others are idle. A
behaviour of the instance is one of one module.

### MATerminate

`pc[a]` says where the thread of agent `a` is: in a `step` of the search, inside
`searchMAHeur` (`heur`), `blocked` on an empty open list, in the polling loop of
`searchPostStep` (`post`), or `left`. `terminate`, `res`, `path` and `term` are
the fields of `plan_ma_search_t`. All that the agents do before the termination
is a step that may send a `WORK` message, reach a goal, fail to trace a plan or
find nothing, and a `WORK` message may have any of those effects on its reader;
the protocol must stand all of them. `Step*`, `Process*`, `Discard`, `PostEnds`
and `Leave` are the branches of `searchPostStep` and `processMsg`; the six
actions below `Settle` are the branches of `terminateMsg`, and `Settle` is its
common end. `res` starts as NOT_FOUND where the code has -1, which the end of
`searchPostStep` turns into the same. `ABORT` keeps a name of its own up to the
end of `searchPostStep`, which turns it into NOT_FOUND too. `TargetsOfFirst` and
`TargetsBehind` write the arithmetic of `terminatePrepareTargets` as a distance
on the ring.

### MASnapshot

Work is a set of items, at agents or in channels. In the code an object keeps a
lower bound on the cost of the work it knows of; the model keeps the set itself,
so a check can tell what was missed or counted twice. `Token` is what
`planMAMsgInit` makes of a counter and the agent's identifier: unique.

### MASearch

A planning problem is a set of abstract states and operators between them, each
owned by one agent and public or private to it. The state pool, packing, and the
agents' projections are reduced to the state's identity. The open list is a
sequence in insertion order from which a least element is taken, the first
inserted of the equal ones, as `list_tiebreaking.c` does. `Step` is
`planSearchAStarStep`. When the heuristic is the agent's own (`MAHeur` FALSE)
the successors are generated in one action, since no message can come in
between; otherwise `StepGoesOn` and `HeurKnown` generate them one at a time, and
`Receive` may come while a value is awaited. How long an answer takes is left
open; the messages of the heuristics are the subject of their own modules.
`RecvSnapshot` with its four callbacks is `planMASnapshotRegMsg` on a
`solution_verify_t`. An agent that completes a plan stops there: what follows is
`MATerminate`. Operators that apply in a state reached by another agent's private
operator must have applied before it, since its effects are not visible to them;
the problem families in `MCMASearch` keep to that. Goals are the same for all
agents.

### MADeadEnd

The search is reduced to the number of states in each open list. `blocked` is
reset after the first message that unblocks an agent, as in `searchPostStep`.
Nothing bounds how often agent 0 asks; `MaxVerify` bounds the open
verifications, whose tokens are reused when they are gone.

### LocalSearch and Lists

A problem is a graph whose edges are operators in the order of the problem, and
the heuristic is any function on its states, with the operators it prefers.
`nodes`, `openList`, `best`, `abort`, `res` and `goalState` are the fields of the
searches and of their nodes. `InitStep` and `Step` are `init_step_fn` and
`step_fn` of whichever algorithm `alg` names, `Select` is
`planPrefOpSelectorSelect` with its swaps, `Way` is `extractPath`. The flag is
set by another thread at any time and looked at after a step, `StepAborted`.
Lazy search may be given a list that is no stable queue, so `MayPop` lets it pop
any entry of the least key.

`Lists` has one action per operation and kind of list, on the data the list
keeps. The bucket list's `lowest_key` is only a bound until the next pop;
the priority queue is stacks until a key does not fit, then a heap, and `Moved`
is the change from one to the other. `QueueStep` says that every step is a step
of `PriorityQueue` on the contents, for the stable lists of its stable form; a key
that is too high for a bucket list ends the program and leaves the content alone.

### StatePacker, MAState

A word is the set of its one bits. `Layout` places the variables as
`planStatePackerNew` does, public ones first, so that the public part is a
prefix. An agent numbers the states it meets (`pool`), the private parts of its
own states, and the combinations of the numbers of the others (`others`);
`Publish` sends the packed public part with one number per agent, and
`Insert` puts a state together on top of what is left in `buf`. `seen` is a
history variable: the state of the whole problem that each number was given to.

### CausalGraph, SuccGen, Loader

`LoadProblem` is `loadProblem` of `problem.cc` after parsing: variables that do
not matter for the goal are dropped (`CausalGraph`), conditional effects
simplified, duplicate operators pruned, and variables ordered for the decision
tree of `SuccGen`. `LoadAgents` divides the operators by the names they mention,
decides which values and operators are private, and makes the projections.
`heapLT` leaves the order of equal weights to Boruvka's heap: the model takes one.

### MsgSchema, Messages

A structure is a function of its fields' names with the set of those that were
set as header. Numbers are sequences of bytes. `Messages` lets two agents on
hosts of equal or different byte order make a message with the calls that the
senders of its type make, send it, extend it, answer it, or forward it; `said` is
a history variable of what the calls were given.

### HeurRelax, Projections, MAHeurMax

A planning problem is a set of facts and a sequence of operators, each owned by
one agent and without conditional effects. What `problem.cc` makes of it for an
agent is computed: which facts are public (`Users`, `PublicFact`), the agent's
projection of all operators (`ProjectedOps`), and the private part of its own
(`PrivateProjOps`), with the artificial facts and operators of
`fact_op_cross_ref.c`. `HeurRelax` is `heur_relax.c`: a relaxation is a record
of the values and supporters of facts and operators. `RelaxFull` and `Relax`
explore from a state, `UpdateMaxFull` repairs the values after some operators
were raised, `IncMaxFull` after some became cheaper, `PlanFacts` marks a relaxed
plan. The queue pops the last inserted of the least keys, as the bucket queue does
up to keys of 1024, so that ties are broken as in the code. Loops are recursive
functions or folds, so that the modules stay open to proofs.

In `MAHeurMax`, `Evaluate` is `heurMAMax`, `RecvRequest` is `heurMAMaxRequest`
and `RecvResponse` is `heurMAMaxUpdate`; `changed` and `cur` are `agent_changed`
and `cur_agent_id`, and `waiting` says that the agent is in the loop of
`searchMAHeur`. Requests are answered there and in `searchPostStep` alike.
`fake` is all that an answer leaves behind in the private part. Packing a state
and its private parts for the other agents is reduced to the state's identity.
`FactCosts` defines h^max of the whole problem, in rounds. `ExactWhenTame` says
when the distributed value equals it: all operators can be reached and cost
something, and the first operator of the agent's projection is its own. Each
condition is needed: see section 5.

### Cuts, MALmCut

`main[a]` is the part of `plan_heur_ma_lm_cut_t` that an evaluation uses and
`priv[a][b]` what agent `a` keeps for the evaluation of agent `b`. `state` walks
through `stepInit`, `stepHMax`, `stepHMaxUpdate`, `stepGoalZone`,
`stepGoalZoneUpdate`, `stepFindCut`, `stepFindCutUpdate`, `stepCut` and
`stepCutUpdate`, each an operator of its own; `MainLoop` goes on until one of
them waits. `Answer` is `heurMARequest`. `Cuts` has what both sides do with a
graph: mark the goal zone, look for the cut, apply it.

### MAHeurFF

`plan[a]` is the relaxed plan with the questions that are out. `Evaluate`
explores the projection, `AddPeerOp` and `AddOp` put operators of others and
own ones into the plan, `UpdateLocalOp` finds what an own operator of another
agent's answer needs, `RecvRequest` explores the private part on behalf of the
one who asks.

### DTG and MADTG

`DTG` has the graphs (`Transitions`), the paths to every value (`PathTo`) and the
context of an evaluation: `values`, the open `goals` with their distances, and
the estimate. `CtxStep` takes the goal `Farthest` away and goes to it
(`UpdatePath`), which adds values and goals. The cache of paths is filled on
demand in the code; the model has all paths from the start, as a path depends on
the graph alone.

In `MADTG` every variable has a value '?' that the operators of others lead to and
from. `Evaluate` is `hdtgHeur`: it steps until a way passes '?'. Then
`SendRequest` takes a slot of `slots[a]`, whose number goes with the question, and
`RecvResponse` is `hdtgUpdate`, which goes on when the slot has all its answers.
`RecvRequest` is `hdtgRequest`: who is asked answers, or takes a slot of its own
and asks those that have not been asked before. `asked` in a message is that
list, and its length decides whether the answer goes to an evaluation or to
another slot (`Respond`).

### Heuristics

The search makes a node for a state (`Visit...`) and evaluates it. Goal count,
h^add, h^max, FF and the one on domain transition graphs are one step
(`EvaluateAtOnce`); LM-Cut is a job of a step
per cut, from scratch (`StartLmCut`), from the landmarks that were just computed
for the parent (`StartLocal`), or from the cache (`StartCached`), whose sets
share landmarks by counters (`Refer`, `Release`) and are pruned at any time.

### Planner

`pc[t]` says where a thread is: the main thread, one per agent, the monitor.
`abort[f]` says where `limitMonitorAbort` is in the frame `f`: the monitor's own
or that of a signal handler, which interrupts whatever its thread does. A search
ends by itself, by its flag, or blocks. `told[f]` is the loop variable of
`limitMonitorAbort`: taking the mutex (`AbortLocks`), each search of the registry
(`AbortFlags`), the end of the loop (`AbortDone`) and giving the mutex back
(`AbortEnds`) are steps between which the other threads go on. What is loaded and
what runs are chosen by two functions of the options, `Loads` and `Dispatch`; if
they do not go together the process crashes (`StartSearch`).

The array `ma_search[]` has 64 entries; the model's registry has no limit. A
search that is over stays in it, as in the code, where its memory is gone by
then; the model has no memory. `AbortFlags` may flag such a search, which changes
nothing there.

## 3. Runs

| run | bounds | shows |
|---|---|---|
| `terminate_three` | 3 agents, 2 plans (symmetric), 1 work message, `term_t` filled with -1 and set flags, fairness | `TypeOK`, `LeastInitiatorWins`, `Agreement`, `FlushComplete`, `CountersReady`, the refinement `ImplementsAgreeToStop`, and `EveryoneLeaves` |
| `snapshot_three` | 3 agents, 2 overlapping snapshots, 1 item, fairness | `ConsistentCut`, `NoStrayMessage`, `SnapshotsEnd` |
| `deadend_three` | 3 agents, 1 new state, 1 verification at a time, any number in sequence, fairness | `VerificationsEnd` |
| `search_three` | 3 agents; 3 problems with 1 verification per agent, and 24 with heuristic values awaited in the middle of steps | `VerifiedIsOptimal`, `OpenIsListed`, `ParentsKnown`, `TraceComplete`, `TracedWithinGoal` |
| `searches` | 2 agents, 60 problems with one goal, 3 verifications per agent; 16 graphs of 4 states with 18 heuristics, every algorithm of a single agent; every kind of list, 4 pushes of 2 values, 5 keys, arrays of 2 buckets, 3 the highest key of a bucket list; 3 agents that number 3 states from 2 messages; 3000 files of 3 operators; messages of 2 calls and 2 hops | of the cluster `ClusterOptimal`, `ClusterKeeps`; of one agent `PlanIsValid`, `CheapestPlan`, `ExhaustedMeansUnsolvable`; the refinement `ListsAreQueues`; `OneNumberPerState`; `PruningKeepsPlans`, `GeneratorFindsApplicable`, `PrivateOpsCommute`, `ProjectionIsOptimistic`; `SaysWhatWasSaid` |
| `heuristics` | 3 agents on 21 problems, all of which evaluate h^max or the DTG heuristic at the same time, one LM-Cut, two FF; 3 problems of a single agent with 8 heuristics and 4 states; fairness for the cluster | `AllAdmissible`, `EstimatesExact`, `AskedOnce`, `SameGraph`, `PlansAreClosed`, `RepairIsExact`, `RefcountsExact`, `EvaluationsAllEnd` |
| `planner` | 2 agents, every command line, 2 signals, fairness | `RunningIsRegistered`, `AbortTellsAll`, `MutexIdleWhenDestroyed`, `LimitEnds` |
| `deadend_early` | 2 agents | finding: `TerminatesAtDeadEndOnly` is violated |
| `search_lost` | 2 agents, two goals | finding: `SolutionKept` is violated |
| `search_suboptimal` | 2 agents, heuristic values awaited | finding: `VerifiedIsOptimal` is violated |
| `heur_low` | 3 agents, 1 problem | finding: `AnswersSequential` is violated |
| `planner_abort` | 2 agents, no signal, fairness | finding: `AbortAborts` is violated |

What the properties say. Those with a name of their own are commented where they
are defined. The ones of the two composed instances gather those of their
modules: `AllAdmissible` is that the distributed h^max is never above the
sequential one, that the cuts of the distributed LM-Cut never cost more than a
cheapest relaxed plan, that a dead end of the distributed FF is
one, and that what an agent computes alone with h^max or LM-Cut is at most the
true cost of the state. `AskedOnce` is that there are as many questions and
answers under way as the agent waits for, for the DTG heuristic slot by slot.
`EstimatesExact` is that the distributed h^max equals the sequential one where
costs are positive, and that the DTG estimate is the one that is found if every
question is answered before anything else happens. `EvaluationsAllEnd` is that every
evaluation that needs the others gets its value.

Why the bounds are enough. Three agents are the least ring with an agent that is
neither first nor last, so all three roles of the flush occur, as do up to three
initiators at once; larger rings are the subject of the proofs. One work
message is enough for an agent to be in each of its places when the termination
reaches it, and for a message of the search to be in a channel that is flushed.
Two snapshots suffice for one agent to be initiator and participant at once. An
item that is in transit when the marks pass is the only interesting kind, and
one item can be in any channel. Problems of four to six states contain the
situations in which verification matters: a cheaper joint plan still in
somebody's list, in a channel, or hidden behind a private operator. `MaxCost`
plays PLAN_COST_MAX, above every cost. Where a bound stops an agent from
starting another verification (`Bounded`) the model stops too, which is why
deadlocks can be checked there.

The graphs of the single agent have two ways to a state, the longer one cheaper
or not, an operator back, and heuristics that are consistent, only admissible, or
neither, so that nodes are reopened, and that call states dead ends rightly and
wrongly. A list sees keys below, at and above its initial size and its maximum.
Words of three bits hold one variable or two. The operators a
file is made of contain duplicates, chains, conditional effects of all forms that
`planOpCondEffSimplify` treats, and joint and private ones.

Of the h^max problems, the chains contain every way four steps can be spread over
three agents from agent 0 on, with a short cut that makes some values irrelevant;
the relays are the least problems in which an agent must be asked twice; the
others hold an operator that `initOpByOwner` skips, a private precondition that
is never reached, a cycle without cost, and, for FF, answers that lead to each
other. Of the four problems of the DTG heuristic, one makes an agent pass a
question on, one has two agents who need each other, one lets two agents answer
the same question differently, and one has a goal that comes nearer on the way to
another. One evaluation per agent is enough for evaluations to overlap; an
evaluation of h^max leaves nothing but `fake` to the next one, and there the
evaluations of different agents follow each other already. LM-Cut keeps what it
needs for each agent that evaluates apart, so one that evaluates is enough. Of
the tasks of a single agent, one is of a truck and a package, one has goals in
each other's way, one has dead ends.

Two agents and the main thread and the monitor make every race of the registry;
with two signals, handlers of two threads and the monitor contend for the mutex.

Fairness. `FairSpec` of `MATerminate` says that a thread that can go on does
(`WF` on leaving a step, a poll, the loop), and that a message which is there
whenever the agent reads is read in the end (`SF`, since an agent is now and
then inside a step and does not read; the operating system and nanomsg's fair
queueing over the sending sockets give that). It does *not* say that an agent
ever reaches a goal, gives up, or asks for a heuristic value. `MADeadEnd` has
the same, and that agent 0's timeout is not for ever beaten by a message. The
distributed heuristics ask only that the cluster as a whole goes on: some agent
that has a message to read or an evaluation to start does so. `Planner` says that
threads run: the monitor, who has the mutex, a search that looks at its flag. It
does not say that a search finds anything, nor that anybody wakes a blocked
agent before the termination.

Deadlock is checked in `terminate_three`, `snapshot_three`, `deadend_three`,
`search_three` and `planner`; there the only states without a step of the system
are those in which all agents left, everything is quiet, or a bound was reached,
and each of these is an explicit stuttering disjunct (`AllLeft`, `Quiet`,
`Finish`, `Terminated`, `Stop`). `searches`, `heuristics` and
`heur_low` really stop, when a search, a list, an evaluation is done.

## 4. Proofs

Every theorem holds for all values of the constants that the assumptions below
allow. Each rests on one inductive invariant of its module; TLC looked for
counterexamples to each of these invariants on small instances (three agents; the
termination with and without a distributed heuristic, the snapshots also with two
agents and two items, the search with two agents and with the problems of
`MASearch_three`, the search of a single agent with all graphs and heuristics of
`MCSearches`).

| module | theorem | what holds |
|---|---|---|
| `MATerminateProofs` | `TypeCorrect` | `[]TypeOK` |
| | `LeastInitiatorWinsAlways` | `[]LeastInitiatorWins` |
| | `CountersReadyAlways` | `[]CountersReady` |
| | `FlushCompleteAlways` | `[]FlushComplete` |
| | `AgreementAlways` | `[]Agreement` |
| | `AgreesToStop` | `ImplementsAgreeToStop`: the refinement of `AgreeToStop` |
| `MASnapshotProofs` | `SnapshotTypeCorrect` | `[]TypeOK` |
| | `NoStrayMessageAlways` | `[]NoStrayMessage` |
| | `SnapshotsEndAlways` | `[]SnapshotsEnd` |
| | `ConsistentCutAlways` | `[]ConsistentCut` |
| `MASearchProofs` | `ParentsKnownAlways` | `[]ParentsKnown` |
| | `OpenIsListedAlways` | `[]OpenIsListed` |
| `MATraceProofs` | `TraceCompleteAlways` | `[]TraceComplete`: `ReferencesEnd` and `TraceNeverFails` |
| `LocalSearchProofs` | `SearchInvariant` | `[]SearchInv`, the inductive invariant |
| | `PlansAreValid` | `[]PlanIsValid` |
| | `AStarIsOptimal` | `[]CheapestPlan` |
| | `ExhaustedIsUnsolvable` | `[]ExhaustedMeansUnsolvable` |
| `ListsProofs` | `ListsImplementQueue` | `ListsAreQueues`: the refinement of `PriorityQueue` |
| `PlannerProofs` | `RunningIsRegisteredAlways` | `[]RunningIsRegistered` |
| | `MutexIdle` | `MutexIdleWhenDestroyed`, an action property |
| | `AbortTells` | `AbortTellsAll`, an action property |

### Assumptions

* `SizeAssumption`: N >= 2. `PlanAssumption`, `GarbageAssumption`,
  `MAHeurAssumption` (termination): NoPlan is no plan, uninitialised fields are
  any integers, there is a distributed heuristic or not. Nothing is assumed of
  `MaxWork`, the bound on messages of the search.
* `SnapAssumption`, `ItemAssumption` (snapshots): the bound on the snapshots is a
  natural number, and `NoCut` is no item.
* `CostAssumption`, `ProblemAssumption` (search): costs and estimates are natural
  numbers; the operators that apply in a state start there and belong to the agent
  that applies them; a problem has finitely many states. Nothing is assumed about
  what the estimates have to do with the costs (they need not be admissible), about
  which operators are public or in which order they are tried, or about
  `maxVerify`, the bound on verifications.
* `AgentsAssumption`, `OptionsAssumption` (planner): there is an agent, agents are
  none of the other names, and the command lines are some of those of `readOpts`.

* `StateAssumption`, `DeadEndAssumption`, `AlgorithmAssumption`, `ProblemAssumption`
  (search of a single agent): there are finitely many states, 0 is the initial one
  and `None` is none; operators lead from state to state at costs that are not
  negative; estimates are between 0 and `DeadEnd`; and no path without a repetition
  costs as much as `DeadEnd`, which is `PLAN_HEUR_DEAD_END` (`INT_MAX`) in the code.
  The last one is why a sum of costs cannot be mistaken for a dead end. Goals,
  preferred operators and estimates are otherwise arbitrary; that the heuristic is
  admissible, or right about dead ends, is a premise of the two properties that need
  it (`Admissible`, `SafeHeur`).
* `Sizes` (lists) is a hypothesis of the theorem: the size of the array and the
  highest key are natural numbers. The array may be shorter or longer than the
  range of keys, `BUCKET_MAX_KEY` and the stored values are anything.

TLC evaluates the assumptions in the runs. N is any number, so nothing is said about what
happens at limits of the code's integers.

### Termination: the election

`LeastInitiatorWins` is not inductive. The invariant that is, `Election`, says
where a request can be: an initiator has begun to terminate
(`InitiatorsTerminate`); a request of agent k that is in the channel from a to
its successor has been past every agent from k to a, none of which can still be
or become an initiator smaller than k (`RequestsBeat`); hence the owner of a
request that is back has beaten all others (`WinnerBeatsAll`). Every action's
effect on the fields concerned is stated once in a lemma; the step then splits
into the actions that touch requests and those that do not.

### Termination: the flush

`FlushInv` has two halves. Before a request is back (`Electing`) no message of
the flush exists and every counter is 0, or -1 for `ack_count` of the last agent
of the ring; and requests overtake nobody (`OrderedIn`, `KnownIn`), so that when
a request is back there is none left and all agents know its owner w
(`FlushBegins`). From then on `FlushFrom(w)` says everything about the flush by
one look at each channel. The channel from a to b is `Unflushed` (messages of
the search only) until a has sent b its `FINAL` (to those behind it on the ring)
or `FINAL_ACK` (to those ahead of it); then it is `Flushing`: any messages of the
search, that one mark, and nothing behind it but `FINAL_FIN`; and when b has read
the mark it is `Flushed`. The counters of an agent are functions of this picture:
`finals` is the number of agents ahead whose mark it has read, or -1 once that
number has met the target, and `acks` the same for those behind (`Counts`). The
targets are distances on the ring, and that those distances are the sizes of the
two sets of agents is `Counted`. The winner is the last to complete its count,
so `terminate = 2` anywhere means that all marks were read, which is
`FlushComplete`; every mark of w carries the verdict of w, which is `Agreement`.

`AgreesToStop` maps the outcome of `AgreeToStop` to what w returns from the step
on in which the first agent leaves. Its steps need one thing more than the
invariant: what an agent returns does not change any more when the flush is over
(`OutcomeKept`, `VerdictFixed`).

### Snapshots

`SnapInv` says, besides types: what an object that is still there has heard
(`Objects`: an agent that is not the initiator waits for a mark, the initiator
for an answer, and who was heard takes part or is done); that an agent is done
only when all take part, and the initiator only when all are done (`Progress`);
and what is in each channel because of a snapshot (`Shapes`): from the moment
its sender takes part until it is read there is exactly one mark, from the
moment the sender is done until it is read exactly one answer at the initiator's
end, and no mark behind it. `NoStrayMessage` and `SnapshotsEnd` follow from
these.

`Items` follows each item through the cut. An item is at one place. Seen from a
snapshot, that place is before the cut if it is an agent that takes no part yet,
or a place in a channel with the sender's mark behind it or still to come; else
it is behind the cut. Nobody has recorded an item before the cut, exactly one
agent has recorded one behind it. An item gets across in three ways: its holder
begins to take part (and records what it holds), it is read from a channel
before the mark behind it was (and `planMASnapshotUpdate` records it), or it is
read by an agent that takes no part (and stays before the cut). When the
initiator is done all marks were read, so every item is behind the cut: this is
`ConsistentCut`. Whatever the step, an item that does not move is handled by one
lemma, `ItemStays`, from what the step does to the records (`RecordsOf`) and to
the order of messages in each channel (`Keeps`).

### Distributed A*

`ParentsKnown` and `OpenIsListed` are about two agents each: a node refers to a
node of the agent that published it, and a refused solution is put back into the
list by agents that did not find it. So `SearchInv` follows a state from where it
was reached to everybody who hears of it. What makes it inductive is `Grown`: no
step forgets a node or makes it more expensive. Hence "agent b has state s at cost
c or less" (`Has`), once true, stays true, and it is what is said of every public
state and every INIT message in a channel (`ChansOK`), of every solution that is
being verified (`ObjsOK`), and of the origin of every node (`NodeOK`).

The nodes and lists of an agent satisfy `PartOK`, which is stated of any nodes and
list, so that it can follow an expansion successor by successor: `GenerateAll` is a
recursive function, and that its values satisfy `PartOK` is shown by induction on
the number of successors (`UpTo`, from the well-foundedness of the naturals applied
to sets). An open state that is not listed is the one whose value the agent waits for
(`Awaited`). A node that becomes cheaper while its value is awaited is put into the
list by whoever makes it cheaper, with `OpenIsListed` true by either entry.

A refused solution can be put back only by an agent that knows it: one that answers
has read the INIT message, not only marks of others. That is a fact about the
snapshot, and `RoundsOK` has it: for every token the messages in the channels, the
agents that take part and what they have heard form a `Round`. Reading, joining and
answering lead from round to round (`SnapshotRounds`), and messages of other tokens
do not matter (`Keeps`); `SnapshotRead` combines them for an agent that reads a
message, whichever it is.

### Tracing

`extractPath` follows operators from node to node inside an agent and `tracePath`
hands over to the agent that published the state, and neither would notice a
circle. Costs alone do not exclude one: operators may cost nothing, and a public
state costs its receiver what it cost its sender. `TracingInv` adds to `SearchInv`
that the nodes can be ranked (`Ranked`): what a node refers to is cheaper, or
costs the same and has a smaller rank. No rank is kept in the model; the invariant
says that there is one. A node is `Redirected` only when it gets cheaper, or is
new, so that it may get a rank above all that were given: whoever refers to it has
from then on a node that is cheaper than its own cost, and needs no rank below.
Everybody else keeps the rank it had. A mutant that takes a way of the same cost
as better has a circle of two agents that refer to each other (`NotWorse`).

A path along references that goes down in this order visits no node twice, so it
has ended after as many steps as there are nodes (`Descent`, by counting the nodes
below), which is the bound of the recursions `Ancestor` and `Origin`: that bound
cuts off nothing. It ends at the initial state, since every other node that was
reached refers to something (`Sound`). A trace fails at a node without an operator
that nobody published, and at a state the agent has never reached. `TracesOK`
excludes the second: a message on its way names a state its receiver has reached,
and nodes do not get lost (`Grown`).

### Search of a single agent

`SearchInv` says the following of the nodes and the list together;
one half of `Kept` is for A*, the other for lazy search and hill climbing.

*Plans can be executed.* A node that was reached names an operator that leads to it
from another one, and costs at least as much as this way (`Rooted`). `Way` follows
these operators back for as many steps as there are states, which cuts off nothing
if no way has a circle. Under A* this has to be shown, since nodes are reopened and
get other parents, and operators may cost nothing. `Ancestry` says that the nodes can
be given sets of ancestors, which the model does not keep: the one a node was reached
from and all the ancestors of that one, perhaps also those of former ways, but never
the node itself, and none that costs more. A node that gets cheaper, and all below it,
get the ancestors of the new way besides their own (`Regrown`); the node is not one of
them, since none of them costs more than the new way and the node did (`TreeGrows`).

*The plan costs what its goal says.* A node may cost more than its parent and the
operator: the parent became cheaper and was not expanded again yet. `Exact` says that
this is so only while the parent is open. If A* took a goal below an open
node, its plan would not cost what is reported. That cannot happen: an open ancestor
comes before all open nodes below it (`GoesFirst`). An expansion may reopen a
closed ancestor, so `Overtaken` says what is known of it: what is open now was
open when the ancestor was taken, with a key that is not less, or was reached
since, at a cost that is not less. With a consistent heuristic keys never sink
and there would be nothing to show; here the heuristic is arbitrary. Hence the ancestors of
a node that is taken are all closed (`PopOpen`), and the way to it is exact
(`WayIsPath`).

*A\* is optimal.* All operators of a closed state were used, and none of them leads
to a node that is dearer than it should be (`Done`). So, following a cheapest plan
from the initial state, one comes to a node that is still open and whose cost is right
(`OnTheWay`); `Listed` says that it is in the list under its key, which is no
more than the cost of the plan. Pathmax raises estimates, but none of a node above
what the rest of a plan costs (`BoundedBy`). The goal that is popped has the least key
(`PopGoal`). `Cheapest` is a recursion over the number of operators; that more than
one for each state make no difference is `TrueCostIs`.

*An empty list means that there is no plan.* In A* all that was reached is then closed or
a dead end. In lazy search each operator of an expanded state leads to a state that
was reached or is a dead end, or waits in the list (`LazyDoneBut`). In both, these
states are never left and have no goal (`NeverLeft`).

An expansion is a recursive function of the operators. What one operator does is
`ExpandOne`; while a state p is being expanded, the invariant holds but for what p
may still improve (`During`), and `ExpandAll` concludes by induction on the number of
operators.

### Lists

`IInv` says of the five kinds of lists what their code relies on: `size` is the number
of values in all buckets, and none of them is below `lowest_key` (`Counted`); a tree has no
empty queue (`TreeFilled`); a priority queue has its values either in the buckets, and
then nothing in the heap, or in the heap (`OneStore`). Without the first half of
`Counted` a pop could look for a bucket where none is filled, without the second it
would give a key that is not the least, and the change to a heap, which begins at
`lowest_key`, would lose values.

What a heap holds under a key is the sequence of its nodes of that key, by their age.
`Under` is a recursive function on the length, of which the lemmas say by induction
(`Counting`, on sets of numbers) how it distributes over `\o`, what becomes of it when
a node is added or taken away, and that the rows of the array one after the other
have under k the row of k (`BucketsInOrder`): so `Moved` keeps what is under every
key, and in its order. Each operation of each kind then has a lemma of its own
which shows that it keeps `IInv` and is a step of `PriorityQueue`.

### Planner

`IInv` joins the places of the threads to the mutex: a frame is inside of it only
if its thread holds it; a handler exists only in a thread that lives; the main
thread is past `join` only when all agents are over (`Phases`, `Interrupts`,
`Mutex`); and the slot a thread took in the registry is still the next free one
until it has written it (`Slots`).

`AbortTellsAll` rests on a second invariant, `TInv`, whose steps use the first:
the searches an abort has told are the first `told[f]` ones of the registry, and
all of them once its loop is done (`Told`). This is kept because the registry
grows only in `RegisterUnlocks`, whose thread holds the mutex then, so that no
frame is `Inside` (`RegistersUntold`). Since a search that runs is registered, it
has been told. That only holds where there is a monitor, hence `Monitored`.

### Model-checked only

* Liveness: `EveryoneLeaves`, `LimitEnds` and the other temporal properties under
  fairness; TLAPS has no support for fairness and ENABLED.
* What is computed over sequences, trees and problems by recursion: heuristics,
  packing, messages, loading, causal graphs. That would need induction over data.
* Of the distributed A*, `TypeOK`, `VerifiedIsOptimal`, `SolutionKept` and
  `TracedWithinGoal`. `TypeOK` says of the problems of the runs that no cost reaches
  `MaxCost`. The next two are not true of all problems (section 5).
  `goal_cost` may sink while a trace is under way that began with the goal of
  before; that such a plan never costs more than the last goal depends on estimates
  that do not exceed the costs, as those of the runs.
* `MADeadEnd`: its run is there to show that the verdict is the wrong one (section 5).

## 5. What the checks found

* **Dead ends are judged the wrong way round.** `deadEndVerifyResponseFinalize`
  terminates if the dead end was *not* acknowledged (`ma_search.c:1134-1139`), so
  the cluster stops while an agent has states, and at a true dead end agent 0
  asks for ever.
* **Two solutions of equal cost can both be lost.** Two agents reach different
  goals of the same cost, refuse each other's, put the other's into their own
  lists, and `searchReachedGoal` (line 321) drops it when it is popped.
* **A solution can be accepted although it is not optimal** when the heuristic
  is distributed. For instance agent 0 is inside an expansion, waiting in
  `searchMAHeur` for the value of a successor that is not in its list yet. Agent
  1 has its own values already (agent 0 answers requests while it waits), reaches
  the goal by a dearer way and sends INIT before it answers. Agent 0 reads INIT
  in the loop of `searchMAHeur`, takes the top of its list as the lowest cost,
  and acknowledges; the cheaper way begins with the successor it has in hand.
* **The distributed h^max can be too low.** `initOpByOwner` skips the first
  operator of the projection (`op_id > 0`, `heur_ma_max.c:144`), so its owner is
  not asked again when another answer makes it dearer. `heur_low` shows an
  answer of 3 where the sequential heuristic gives 5, which `heur_ma.c:102` of
  the tests compares. The value stays admissible (`NeverAbove`).
* **An abort need not abort.** `planMASearchAbort` sets a flag that the loop of
  `planSearchRun` looks at after a step; an agent that waits for a message on an
  empty open list does so inside a step and stays there, against
  `ma_search.h:67`. `LimitEnds` shows that this, and a handler that waits for a
  mutex its own thread holds, are the only ways out of a hard limit.

Met while reading, without a run of their own:

* **Two modes at once crash the planner.** `loadProblem` (`bin/search.c:459`) looks at
  `--ma-factor` first and at `--ma-unfactor` last; `main` (line 980) looks at
  `--ma-unfactor` first. With `--ma-unfactor` and one of `--ma-factor` and
  `--ma-factor-dir`, `agent_problem` is searched, which was not loaded. No
  interleaving matters for this, so no property is made of it.
* **Abort is reported as not found.** `searchPostStep` replaces every result but
  FOUND by NOT_FOUND (`ma_search.c:297-302`), also an ABORT that `tracePath` or
  the winner's FINAL message set; `ma_search.h:62` promises the values of the
  underlying search.
* **An acknowledged dead end need not be one.** The dead-end snapshots have no
  update callback and look at `blocked` only when marks arrive, so a public
  state that is in transit is seen by nobody. This would show once the verdict
  is put right. A refused goal, in turn, goes back to the top of the list, and
  is verified again before the states that made the others refuse it.
* **h^max of dead ends and of free operators.** An operator that the private part
  cannot reach is answered with the value 0, so dead ends get finite values and
  values sink, against the assumption of `heur_relax.h:114`. With operators that
  cost nothing, facts can support each other in a cycle, and a raised value does
  not spread. Both only lower the value; the run has a problem of each kind.
* **Evaluations that count up.** If a cycle through private and public facts can
  be entered in the projection but not in truth, its agents raise each other's
  values step by step, up to INT_MAX. The problems of the run have no such
  cycle, so `EvaluationsAllEnd` does not speak of it.
* **The distributed LM-Cut does not hear of unreachable operators.** The comment
  at `heur_ma_lm_cut.c:1334` says that an operator out of reach is marked so that
  it can be propagated, but `sendHMaxResponse` passes such operators over; the
  main agent then follows a loop of operators nobody reaches, and a cut can cost
  -5 (`PLAN_COST_UNREACHABLE`). The value sinks; it is never too high.
* **The distributed DTG heuristic counts ways it means to subtract.** Comments at
  `heur_ma_dtg.c:567` and `584` say that the cost of the transitions to and from
  '?' must be subtracted, but the callers of `hdtgCheckPath` look only at the sign
  of what it returns. The model counts as the code does. `fake_op_size` comes from
  the operators an agent knows, so one that is asked by an agent with a higher
  number would write past `owner[]` (line 436); in the problems of the run all
  know an operator of the last agent.
* **The plans of the distributed FF can be circular.** Every agent answers for its
  own private preconditions, and two answers may rest on each other, so the
  operators that come together need not make a plan; nothing the FF heuristic
  promises depends on it.
* **A dead end ends the program** if lazy search with a bucket list finds the
  initial state to be one: the key is above `BUCKET_MAX_KEY`.

## 6. Not modelled, and the plan

The protocol for a single agent: `planMACommSendInRing` would send to the agent
itself, which `planMACommSendToNode` refuses; the modules assume two agents.
For the same reason agent 0 would wait for ever for an answer of h^max if its
projection showed no operator of another agent; in the problems of
`MCMAHeurMax` it always shows one.

Linear programs and the heuristics built on them (`lp.c`, `pot.c`,
`heur_flow.c`, `heur_potential.c`, `heur_ma_pot.c`) are floating point and
external solvers; only their messages are modelled. `planDTGPath` is called by a
test only. Packing a state for a question of the DTG heuristic is its identity in
`MADTG`, which also assumes that the arrays indexed by agents are long enough.
Statistics, parsing of files and generated code, and the printing of
results stay outside. Conditional effects are modelled from the file to the
successor generator and in the task of `HeurRelax`, but not in the problems of
the distributed heuristics, of which `initOpByOwner` and its like ignore them.
The insertion of nodes of other agents is modelled for A* only.

What could come next, in this order:

1. Proofs: the discipline of questions and answers of the distributed heuristics
   (`AskedOnce`), and, for admissible estimates of a single agent's own, that what is
   verified is optimal.
2. Larger problems for the distributed LM-Cut, with cycles through the private
   parts of two agents.
