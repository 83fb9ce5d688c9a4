---------------------------- MODULE PlannerProofs ----------------------------
(* Proofs about the planner's process, for every number of agents, every    *)
(* set of command lines and any number of signals.                          *)
EXTENDS Planner, TLAPS

-----------------------------------------------------------------------------
(* The inductive invariant: what the mutex, the handlers of signals and the *)
(* registry have to do with the places where the threads are                *)

MainPlaces == {"load", "dispatch", "register", "registering", "run", "blocked",
               "wait", "join", "clean"}
AgentPlaces == {"none", "register", "registering", "run", "blocked", "over"}
MonPlaces == {"none", "check", "sleep", "abort", "over"}
Searching == {"register", "registering", "run", "blocked"}

Types ==
    /\ opts \in OptionSet
    /\ pc \in [Threads -> MainPlaces \cup AgentPlaces \cup MonPlaces]
    /\ lock \in Threads \cup {NoOne, Gone}
    /\ registry \in Seq(Threads)
    /\ slot \in [Threads -> Nat]
    /\ abort \in [Frames -> {"no", "lock", "loop", "leave"}]

\* limitMonitorAbort holds the mutex in this frame.
Inside(f) == abort[f] \in {"loop", "leave"}

\* Which threads are where while the main thread is somewhere.
Phases ==
    /\ pc[Main] \in MainPlaces
    /\ pc[Mon] \in MonPlaces
    /\ \A a \in Agents : pc[a] \in AgentPlaces
    /\ pc[Main] \in {"load", "dispatch"} => \A a \in Agents : pc[a] = "none"
    /\ pc[Main] \in Searching =>
          Searchers = {Main} /\ \A a \in Agents : pc[a] = "none"
    /\ pc[Main] = "wait" => Searchers = Agents
    /\ pc[Main] \in {"join", "clean"} => \A a \in Agents : pc[a] \in {"none", "over"}

\* Handlers run in threads that exist, and the monitor aborts when it says so.
Interrupts ==
    /\ \A t \in Threads : ~Alive(t) => abort[Handler(t)] = "no"
    /\ pc[Mon] # "abort" => abort[Body(Mon)] = "no"

\* One frame at most is inside of the mutex, and it is that of its holder.
Mutex ==
    /\ \A t \in Threads : pc[t] = "registering" => lock = t /\ ~Inside(Handler(t))
    /\ \A f \in Frames : Inside(f) => lock = f[1]
    /\ ~(Inside(Body(Mon)) /\ Inside(Handler(Mon)))
    /\ lock \in Threads => \/ \E t \in Threads : pc[t] = "registering"
                           \/ \E f \in Frames : Inside(f)

\* The place a thread found for its search is still the next free one.
Slots ==
    /\ \A t \in Threads : pc[t] = "registering" => slot[t] = Len(registry)
    /\ Single /\ pc[Main] \in {"load", "dispatch", "register", "registering"}
          => registry = <<>>

IInv == /\ Types
        /\ Phases
        /\ Interrupts
        /\ Mutex
        /\ Slots
        /\ RunningIsRegistered

-----------------------------------------------------------------------------
(* Names of threads, frames and places *)

LEMMA Names ==
    /\ Main # Mon /\ Main # NoOne /\ Main # Gone /\ Mon # NoOne /\ Mon # Gone
    /\ NoOne # Gone
    /\ \A a \in Agents : a # Main /\ a # Mon /\ a # NoOne /\ a # Gone
    /\ Main \in Threads /\ Mon \in Threads /\ Agents \subseteq Threads
    /\ NoOne \notin Threads /\ Gone \notin Threads
    /\ Agents # {}
BY AgentsAssumption DEF Main, Mon, NoOne, Gone, Threads

\* A frame belongs to one thread, and a handler is not the thread itself.
LEMMA FrameNames ==
    /\ Body(Mon) \in Frames
    /\ \A t \in Threads : Handler(t) \in Frames /\ Handler(t) # Body(Mon)
    /\ \A t, u \in Threads : Handler(t) = Handler(u) => t = u
BY Names DEF Frames, Body, Handler

\* Whose thread runs in a frame.
LEMMA FrameThread ==
    /\ \A t \in Threads : Handler(t)[1] = t
    /\ Body(Mon)[1] = Mon
    /\ \A f \in Frames : /\ f[1] \in Threads
                         /\ f = Handler(f[1]) \/ (f = Body(Mon) /\ f[1] = Mon)
BY Names DEF Frames, Body, Handler

\* Either the main thread searches or all agents do.
LEMMA Modes ==
    ASSUME opts \in OptionSet
    PROVE  /\ Searchers = {Main} \/ Searchers = Agents
           /\ Searchers \subseteq Threads
           /\ Single => Searchers = {Main}
BY Names DEF OptionSet, Searchers, Single, Dispatch

\* The command line does not change.
LEMMA SameOptions ==
    ASSUME opts' = opts
    PROVE  Searchers' = Searchers /\ Single' = Single
BY DEF Searchers, Single

-----------------------------------------------------------------------------
(* The initial states *)

LEMMA Initially == Init => IInv
<1> SUFFICES ASSUME Init PROVE IInv
    OBVIOUS
<1>1. Types
  <2>1. opts \in OptionSet
    BY OptionsAssumption DEF Init
  <2>2. pc \in [Threads -> MainPlaces \cup AgentPlaces \cup MonPlaces]
    BY DEF Init, MainPlaces, AgentPlaces, MonPlaces
  <2>3. /\ lock = NoOne /\ registry = <<>> /\ slot = [t \in Threads |-> 0]
        /\ abort = [f \in Frames |-> "no"]
    BY DEF Init
  <2> QED BY <2>1, <2>2, <2>3 DEF Types
<1>2. Phases
    BY Names DEF Init, Phases, MainPlaces, AgentPlaces, MonPlaces, Searching
<1>3. Interrupts
    BY FrameNames DEF Init, Interrupts
<1>4. Mutex
    BY Names, FrameNames DEF Init, Mutex, Inside
<1>5. Slots
    BY Names DEF Init, Slots
<1>6. RunningIsRegistered
    BY <1>1, Modes DEF Init, RunningIsRegistered, Types
<1> QED BY <1>1, <1>2, <1>3, <1>4, <1>5, <1>6 DEF IInv

-----------------------------------------------------------------------------
(* Steps that leave the shared objects alone *)

\* Nothing moves but what only this action knows.
LEMMA QuietStep ==
    ASSUME IInv, UNCHANGED <<opts, pc, lock, registry, slot, abort>>
    PROVE  IInv'
<1>1. Searchers' = Searchers /\ Single' = Single
    BY SameOptions
<1>2. /\ opts' = opts /\ pc' = pc /\ lock' = lock /\ registry' = registry
      /\ slot' = slot /\ abort' = abort
    OBVIOUS
<1>3. Types' /\ Phases'
    BY <1>1, <1>2 DEF IInv, Types, Phases
<1>4. Interrupts' /\ Mutex'
    BY <1>1, <1>2 DEF IInv, Interrupts, Mutex, Inside, Alive
<1>5. Slots' /\ RunningIsRegistered'
    BY <1>1, <1>2 DEF IInv, Slots, RunningIsRegistered
<1> QED BY <1>3, <1>4, <1>5 DEF IInv

\* Thread t goes from one place to another without the mutex.
LEMMA MoveStep ==
    ASSUME IInv, NEW t \in Threads, NEW place, Go(t, place),
           UNCHANGED <<opts, lock, registry, slot, abort>>,
           abort[Handler(t)] = "no", t = Mon => pc[Mon] # "abort",
           pc[t] \notin {"registering", "none", "over"},
           place \in MainPlaces \cup AgentPlaces \cup MonPlaces,
           place \notin {"load", "dispatch", "register", "registering"}
    PROVE  Types' /\ Interrupts' /\ Mutex' /\ Slots'
<1>1. Searchers' = Searchers /\ Single' = Single
    BY SameOptions
<1>2. /\ opts' = opts /\ lock' = lock /\ registry' = registry
      /\ slot' = slot /\ abort' = abort
      /\ pc' = [pc EXCEPT ![t] = place]
    BY DEF Go
<1>3. Types'
    BY <1>2 DEF IInv, Types
<1>4. \A u \in Threads : pc'[u] = IF u = t THEN place ELSE pc[u]
    BY <1>2 DEF IInv, Types
<1>5. Interrupts'
    BY <1>2, <1>4, Names, FrameNames DEF IInv, Interrupts, Alive
<1>6. Mutex'
    BY <1>2, <1>4 DEF IInv, Mutex, Inside
<1>7. Slots'
    BY <1>1, <1>2, <1>4, Names DEF IInv, Slots
<1> QED BY <1>3, <1>5, <1>6, <1>7

-----------------------------------------------------------------------------
(* limitMonitorAbort *)

LEMMA AbortLocksStep ==
    ASSUME IInv, NEW f \in Frames, AbortLocks(f)
    PROVE  IInv'
<1>0. /\ opts' = opts /\ pc' = pc /\ lock' = f[1] /\ slot' = slot
      /\ registry' = registry /\ abort' = [abort EXCEPT ![f] = "loop"]
      /\ lock = NoOne /\ abort[f] = "lock"
    BY DEF AbortLocks, Enters, Unshared, Free
<1>1. Searchers' = Searchers /\ Single' = Single
    BY <1>0, SameOptions
<1>8. f[1] \in Threads
    BY FrameThread
<1>2. /\ \A t \in Threads : pc[t] # "registering"
      /\ \A g \in Frames : ~Inside(g)
    BY <1>0, Names, FrameThread DEF IInv, Mutex, Inside
<1>3. \A g \in Frames : abort'[g] = IF g = f THEN "loop" ELSE abort[g]
    BY <1>0 DEF IInv, Types
<1>4. Types' /\ Phases'
    BY <1>0, <1>1, <1>8 DEF IInv, Types, Phases
<1>5. Interrupts'
    BY <1>0, <1>3, FrameNames DEF IInv, Interrupts, Alive
<1>6. Mutex'
    BY <1>0, <1>2, <1>3, Names, FrameNames DEF Mutex, Inside
<1>7. Slots' /\ RunningIsRegistered'
    BY <1>0, <1>1 DEF IInv, Slots, RunningIsRegistered
<1> QED BY <1>4, <1>5, <1>6, <1>7 DEF IInv

\* limitMonitorAbort sets the flag of a search.
LEMMA AbortFlagsStep ==
    ASSUME IInv, NEW f \in Frames, AbortFlags(f)
    PROVE  IInv'
<1>1. UNCHANGED <<opts, pc, lock, registry, slot, abort>>
    BY DEF AbortFlags, Unshared
<1> QED BY <1>1, QuietStep

\* It has seen the end of the registry.
LEMMA AbortDoneStep ==
    ASSUME IInv, NEW f \in Frames, AbortDone(f)
    PROVE  IInv'
<1>0. /\ opts' = opts /\ pc' = pc /\ lock' = lock /\ slot' = slot
      /\ registry' = registry /\ abort' = [abort EXCEPT ![f] = "leave"]
      /\ abort[f] = "loop"
    BY DEF AbortDone, Unshared
<1>1. Searchers' = Searchers /\ Single' = Single
    BY <1>0, SameOptions
<1>2. \A g \in Frames : abort'[g] = IF g = f THEN "leave" ELSE abort[g]
    BY <1>0 DEF IInv, Types
<1>4. Types' /\ Phases'
    BY <1>0, <1>1 DEF IInv, Types, Phases
<1>5. Interrupts'
    BY <1>0, <1>2, FrameNames DEF IInv, Interrupts, Alive
<1>6. Mutex'
  <2>1. lock \in Threads => \/ \E t \in Threads : pc[t] = "registering"
                            \/ \E g \in Frames : Inside(g)'
    BY <1>0, <1>2 DEF IInv, Mutex, Inside
  <2> QED BY <1>0, <1>2, <2>1, FrameNames DEF IInv, Mutex, Inside
<1>7. Slots' /\ RunningIsRegistered'
    BY <1>0, <1>1 DEF IInv, Slots, RunningIsRegistered
<1> QED BY <1>4, <1>5, <1>6, <1>7 DEF IInv

\* It is done with all searches, and gives the mutex back.
LEMMA AbortEndsStep ==
    ASSUME IInv, NEW f \in Frames, AbortEnds(f)
    PROVE  IInv'
<1>0. /\ opts' = opts /\ lock' = NoOne /\ slot' = slot
      /\ registry' = registry /\ abort' = [abort EXCEPT ![f] = "no"]
      /\ pc' = IF f = Body(Mon) THEN [pc EXCEPT ![Mon] = "over"] ELSE pc
      /\ abort[f] = "leave"
    BY DEF AbortEnds, Unshared, Released
<1>1. Searchers' = Searchers /\ Single' = Single
    BY <1>0, SameOptions
<1>11. lock = f[1]
    BY <1>0 DEF IInv, Mutex, Inside
<1>2. /\ \A t \in Threads : pc[t] # "registering"
      /\ \A g \in Frames \ {f} : ~Inside(g)
  <2>1. ASSUME NEW t \in Threads, pc[t] = "registering"
        PROVE  FALSE
    <3>1. lock = t /\ ~Inside(Handler(t)) /\ t # Mon
      BY <2>1 DEF IInv, Mutex, Inside, Phases, MonPlaces
    <3> QED BY <3>1, <1>0, <1>11, FrameThread DEF Inside
  <2>2. ASSUME NEW g \in Frames \ {f}, Inside(g)
        PROVE  FALSE
    <3>1. g[1] = f[1]
      BY <1>11, <2>2 DEF IInv, Mutex, Inside
    <3> QED BY <3>1, <1>0, <2>2, FrameNames, FrameThread DEF IInv, Mutex, Inside
  <2> QED BY <2>1, <2>2
<1>3. \A g \in Frames : abort'[g] = IF g = f THEN "no" ELSE abort[g]
    BY <1>0 DEF IInv, Types
<1>4. \A t \in Threads : pc'[t] = IF f = Body(Mon) /\ t = Mon THEN "over" ELSE pc[t]
    BY <1>0 DEF IInv, Types
<1>5. Types'
  <2>1. pc' \in [Threads -> MainPlaces \cup AgentPlaces \cup MonPlaces]
    BY <1>0 DEF IInv, Types, MonPlaces
  <2> QED BY <1>0, <2>1 DEF IInv, Types
<1>6. Phases'
    BY <1>0, <1>1, <1>4, Names DEF IInv, Phases, MonPlaces
<1>7. f = Body(Mon) => abort[Handler(Mon)] = "no"
    BY DEF AbortEnds, FrameRuns, Body, Interrupted
<1>8. Interrupts'
    BY <1>0, <1>3, <1>4, <1>7, Names, FrameNames DEF IInv, Interrupts, Alive
<1>9. Mutex'
    BY <1>0, <1>2, <1>3, <1>4, Names, FrameNames DEF Mutex, Inside
<1>10. Slots' /\ RunningIsRegistered'
    BY <1>0, <1>1, <1>4, Names, Modes DEF IInv, Types, Slots, RunningIsRegistered
<1> QED BY <1>5, <1>6, <1>8, <1>9, <1>10 DEF IInv

-----------------------------------------------------------------------------
(* Signals, the monitor, and the limit *)

LEMMA SignalStep ==
    ASSUME IInv, NEW t \in Threads, Signal(t)
    PROVE  IInv'
<1>0. /\ opts' = opts /\ pc' = pc /\ lock' = lock /\ slot' = slot
      /\ registry' = registry /\ abort' = [abort EXCEPT ![Handler(t)] = "lock"]
      /\ abort[Handler(t)] = "no" /\ Alive(t)
    BY DEF Signal, Runs, Interrupted
<1>1. Searchers' = Searchers /\ Single' = Single
    BY <1>0, SameOptions
<1>2. \A g \in Frames : abort'[g] = IF g = Handler(t) THEN "lock" ELSE abort[g]
    BY <1>0, FrameNames DEF IInv, Types
<1>3. Types' /\ Phases'
    BY <1>0, <1>1, FrameNames DEF IInv, Types, Phases
<1>4. Interrupts'
    BY <1>0, <1>2, Names, FrameNames DEF IInv, Interrupts, Alive
<1>5. Mutex'
  <2>1. lock \in Threads => \/ \E u \in Threads : pc'[u] = "registering"
                            \/ \E f \in Frames : Inside(f)'
    BY <1>0, <1>2 DEF IInv, Mutex, Inside
  <2> QED BY <1>0, <1>2, <2>1, Names, FrameNames DEF IInv, Mutex, Inside
<1>6. Slots' /\ RunningIsRegistered'
    BY <1>0, <1>1 DEF IInv, Slots, RunningIsRegistered
<1> QED BY <1>3, <1>4, <1>5, <1>6 DEF IInv

\* A limit is exceeded.
LEMMA LimitExceededStep ==
    ASSUME IInv, LimitExceeded
    PROVE  IInv'
<1>1. UNCHANGED <<opts, pc, lock, registry, slot, abort>>
    BY DEF LimitExceeded
<1> QED BY <1>1, QuietStep

\* A monitor that only sleeps and wakes.
LEMMA MonitorMoves ==
    ASSUME IInv, NEW place \in {"check", "sleep"}, pc[Mon] \in {"check", "sleep"},
           Runs(Mon), Go(Mon, place),
           UNCHANGED <<Unshared, lock, registry, flagged, abort, told, exit>>
    PROVE  IInv'
<1>0. /\ UNCHANGED <<opts, lock, registry, slot, abort>>
      /\ opts' = opts /\ registry' = registry /\ pc' = [pc EXCEPT ![Mon] = place]
    BY DEF Unshared, Go
<1>1. Searchers' = Searchers
    BY <1>0, SameOptions
<1>2. Types' /\ Interrupts' /\ Mutex' /\ Slots'
    BY <1>0, MoveStep, Names DEF MonPlaces, Runs, Interrupted
<1>3. \A t \in Threads : pc'[t] = IF t = Mon THEN place ELSE pc[t]
    BY <1>0 DEF IInv, Types
<1>4. Phases'
    BY <1>1, <1>3, Names DEF IInv, Phases, MonPlaces
<1>5. RunningIsRegistered'
    BY <1>0, <1>1, <1>3, Names, Modes DEF IInv, Types, RunningIsRegistered
<1> QED BY <1>2, <1>4, <1>5 DEF IInv

\* The monitor looks, and sleeps.
LEMMA MonitorStep ==
    ASSUME IInv, MonitorChecks \/ MonitorWakes
    PROVE  IInv'
<1>1. Runs(Mon) /\ pc[Mon] \in {"check", "sleep"}
    BY DEF MonitorChecks, MonitorWakes, At
<1>2. CASE MonitorWakes \/ (MonitorChecks /\ ~exceeded)
    BY <1>1, <1>2, MonitorMoves DEF MonitorChecks, MonitorWakes
<1>3. CASE MonitorChecks /\ exceeded
  <2>0. /\ opts' = opts /\ lock' = lock /\ slot' = slot
        /\ registry' = registry /\ abort' = [abort EXCEPT ![Body(Mon)] = "lock"]
        /\ pc' = [pc EXCEPT ![Mon] = "abort"] /\ pc[Mon] = "check"
        /\ abort[Handler(Mon)] = "no"
    BY <1>3 DEF MonitorChecks, At, Go, Runs, Interrupted, Unshared
  <2>1. Searchers' = Searchers /\ Single' = Single
    BY <2>0, SameOptions
  <2>2. abort[Body(Mon)] = "no"
    BY <2>0 DEF IInv, Interrupts
  <2>3. \A f \in Frames : abort'[f] = IF f = Body(Mon) THEN "lock" ELSE abort[f]
    BY <2>0 DEF IInv, Types
  <2>4. \A t \in Threads : pc'[t] = IF t = Mon THEN "abort" ELSE pc[t]
    BY <2>0 DEF IInv, Types
  <2>5. Types'
    <3>1. pc' \in [Threads -> MainPlaces \cup AgentPlaces \cup MonPlaces]
      BY <2>0 DEF IInv, Types, MonPlaces
    <3> QED BY <2>0, <3>1, FrameNames DEF IInv, Types
  <2>6. Phases'
    BY <2>1, <2>4, Names DEF IInv, Phases, MonPlaces
  <2>7. Interrupts'
    BY <2>0, <2>3, <2>4, Names, FrameNames DEF IInv, Interrupts, Alive
  <2>8. Mutex'
    <3>1. lock \in Threads => \/ \E t \in Threads : pc'[t] = "registering"
                              \/ \E f \in Frames : Inside(f)'
      BY <2>0, <2>2, <2>3, <2>4 DEF IInv, Mutex, Inside
    <3> QED BY <2>0, <2>3, <2>4, <3>1, Names, FrameNames DEF IInv, Mutex, Inside
  <2>9. Slots' /\ RunningIsRegistered'
    BY <2>0, <2>1, <2>4, Names, Modes DEF IInv, Types, Slots, RunningIsRegistered
  <2> QED BY <2>5, <2>6, <2>7, <2>8, <2>9 DEF IInv
<1> QED BY <1>2, <1>3

-----------------------------------------------------------------------------
(* The main thread outside of a search *)

\* The process ends, or what was loaded is deleted.
LEMMA EndStep ==
    ASSUME IInv, LoadFails \/ StartFails \/ Clean
    PROVE  IInv'
<1>1. UNCHANGED <<opts, pc, lock, registry, slot, abort>>
    BY DEF LoadFails, StartFails, Clean, Rest
<1> QED BY <1>1, QuietStep

\* The problem is loaded.
LEMMA LoadProblemStep ==
    ASSUME IInv, LoadProblem
    PROVE  IInv'
<1>0. /\ opts' = opts /\ lock' = lock /\ slot' = slot
      /\ registry' = registry /\ abort' = abort
      /\ pc' = [pc EXCEPT ![Main] = "dispatch"] /\ pc[Main] = "load"
    BY DEF LoadProblem, Rest, At, Go
<1>1. Searchers' = Searchers /\ Single' = Single
    BY <1>0, SameOptions
<1>2. \A t \in Threads : pc'[t] = IF t = Main THEN "dispatch" ELSE pc[t]
    BY <1>0 DEF IInv, Types
<1>3. Types'
  <2>1. pc' \in [Threads -> MainPlaces \cup AgentPlaces \cup MonPlaces]
    BY <1>0 DEF IInv, Types, MainPlaces
  <2> QED BY <1>0, <2>1 DEF IInv, Types
<1>4. Phases'
    BY <1>0, <1>1, <1>2, Names DEF IInv, Phases, MainPlaces, Searching
<1>5. Interrupts'
    BY <1>0, <1>2, Names DEF IInv, Interrupts, Alive
<1>6. Mutex'
    BY <1>0, <1>2, Names DEF IInv, Mutex, Inside
<1>7. Slots' /\ RunningIsRegistered'
    BY <1>0, <1>1, <1>2, Names, Modes DEF IInv, Types, Slots, RunningIsRegistered
<1> QED BY <1>3, <1>4, <1>5, <1>6, <1>7 DEF IInv

\* The search, or the agents' threads, start.
LEMMA StartSearchStep ==
    ASSUME IInv, StartSearch
    PROVE  IInv'
<1>0. /\ opts' = opts /\ lock' = lock /\ slot' = slot
      /\ registry' = registry /\ abort' = abort /\ pc[Main] = "dispatch"
    BY DEF StartSearch, Rest, At
<1>1. Searchers' = Searchers /\ Single' = Single
    BY <1>0, SameOptions
<1>2. CASE pc' = pc
    BY <1>0, <1>2, QuietStep
<1>3. CASE pc' = [t \in Threads |-> IF t \in Searchers THEN "register"
                                       ELSE IF t = Main THEN "wait" ELSE pc[t]]
  <2>1. \A t \in Threads :
           pc'[t] = IF t \in Searchers THEN "register"
                    ELSE IF t = Main THEN "wait" ELSE pc[t]
    BY <1>3
  <2>2. pc' \in [Threads -> MainPlaces \cup AgentPlaces \cup MonPlaces]
    BY <1>3 DEF IInv, Types, MainPlaces
  <2>3. Types'
    BY <1>0, <2>2 DEF IInv, Types
  <2>4. Searchers = {Main} \/ Searchers = Agents
    BY Modes DEF IInv, Types
  <2>5. Phases'
    BY <1>0, <1>1, <2>1, <2>4, Names
       DEF IInv, Phases, MainPlaces, AgentPlaces, MonPlaces, Searching
  <2>6. Interrupts'
    BY <1>0, <2>1, <2>4, Names DEF IInv, Interrupts, Alive
  <2>7. Mutex'
    <3>1. \A t \in Threads : pc[t] # "registering" /\ pc'[t] # "registering"
      BY <1>0, <2>1, <2>4, Names DEF IInv, Phases, MonPlaces, Threads
    <3> QED BY <1>0, <3>1 DEF IInv, Mutex, Inside
  <2>8. Slots' /\ RunningIsRegistered'
    <3>1. \A t \in Threads : pc'[t] \notin {"registering", "run", "blocked"}
      BY <1>0, <2>1, <2>4, Names DEF IInv, Phases, MonPlaces, Threads
    <3>2. Searchers \subseteq Threads /\ pc'[Main] # "dispatch"
      BY <2>1, <2>4, Names
    <3> QED BY <1>0, <1>1, <1>3, <3>1, <3>2 DEF IInv, Slots, RunningIsRegistered
  <2> QED BY <2>3, <2>5, <2>6, <2>7, <2>8 DEF IInv
<1> QED BY <1>2, <1>3 DEF StartSearch

\* All agents are done.
LEMMA TasksDoneStep ==
    ASSUME IInv, TasksDone
    PROVE  IInv'
<1>0. /\ UNCHANGED <<opts, lock, registry, slot, abort>>
      /\ opts' = opts /\ registry' = registry /\ pc' = [pc EXCEPT ![Main] = "join"]
      /\ Go(Main, "join") /\ abort[Handler(Main)] = "no" /\ pc[Main] = "wait"
    BY DEF TasksDone, Rest, At, Runs, Interrupted, Go
<1>1. Searchers' = Searchers /\ Searchers = Agents
    BY <1>0, SameOptions DEF IInv, Phases
<1>2. Types' /\ Interrupts' /\ Mutex' /\ Slots'
    BY <1>0, MoveStep, Names DEF MainPlaces
<1>3. \A t \in Threads : pc'[t] = IF t = Main THEN "join" ELSE pc[t]
    BY <1>0 DEF IInv, Types
<1>4. Phases'
  <2>1. \A a \in Agents : pc'[a] = "over" /\ pc'[a] \in AgentPlaces
    BY <1>1, <1>3, Names DEF TasksDone, IInv, Phases
  <2>2. pc'[Main] = "join" /\ pc'[Mon] = pc[Mon]
    BY <1>3, Names
  <2> QED BY <2>1, <2>2 DEF IInv, Phases, MainPlaces, Searching
<1>5. RunningIsRegistered'
    BY <1>0, <1>1, <1>3, Names DEF IInv, RunningIsRegistered
<1> QED BY <1>2, <1>4, <1>5 DEF IInv

\* When the main thread destroys the mutex nobody is inside of it or waits
\* for it.
LEMMA JoinIdle ==
    ASSUME IInv, Join, opts.monitor
    PROVE  /\ \A t \in Threads : pc[t] # "registering"
           /\ \A f \in Frames : abort[f] = "no"
           /\ lock # Gone => Free
<1>1. /\ pc[Main] = "join" /\ abort[Handler(Main)] = "no"
      /\ pc[Mon] = "over" \/ (pc[Mon] \in {"check", "sleep"} /\ abort[Handler(Mon)] = "no")
    BY DEF Join, MonitorJoined, At, Runs, Interrupted
<1>2. \A t \in Threads : pc[t] # "registering"
    BY <1>1, Names DEF IInv, Phases, MonPlaces, Threads
<1>3. ASSUME NEW t \in Threads
      PROVE  abort[Handler(t)] = "no"
  <2>1. CASE t \in Agents
    BY <1>1, <2>1 DEF IInv, Phases, Interrupts, Alive
  <2>2. CASE t = Mon
    BY <1>1, <2>2, Names DEF IInv, Interrupts, Alive
  <2> QED BY <1>1, <2>1, <2>2 DEF Threads
<1>4. abort[Body(Mon)] = "no"
    BY <1>1 DEF IInv, Interrupts
<1>5. \A f \in Frames : abort[f] = "no"
    BY <1>3, <1>4, FrameThread
<1>6. lock \notin Threads
    BY <1>2, <1>5 DEF IInv, Mutex, Inside
<1> QED BY <1>2, <1>5, <1>6 DEF IInv, Types, Free

\* The main thread joins the monitor and destroys the mutex.
LEMMA JoinStep ==
    ASSUME IInv, Join
    PROVE  IInv'
<1>0. /\ opts' = opts /\ slot' = slot
      /\ registry' = registry /\ abort' = abort /\ pc[Main] = "join"
      /\ opts.monitor \in BOOLEAN
    BY DEF Join, At, IInv, Types, OptionSet
<1>1. Searchers' = Searchers /\ Single' = Single
    BY <1>0, SameOptions
<1>2. CASE ~opts.monitor
  <2>1. lock' = lock /\ pc' = pc
    BY <1>2 DEF Join
  <2> QED BY <1>0, <2>1, QuietStep
<1>3. CASE opts.monitor
  <2>0. /\ lock' = Gone
        /\ pc' = [pc EXCEPT ![Main] = "clean", ![Mon] = "over"]
    BY <1>3 DEF Join
  <2>1. \A t \in Threads : pc'[t] = IF t = Mon THEN "over"
                                    ELSE IF t = Main THEN "clean" ELSE pc[t]
    BY <2>0, Names DEF IInv, Types
  <2>2. pc' \in [Threads -> MainPlaces \cup AgentPlaces \cup MonPlaces]
    BY <2>0 DEF IInv, Types, MainPlaces, MonPlaces
  <2>3. Types'
    BY <1>0, <2>0, <2>2 DEF IInv, Types
  <2>4. Phases'
    BY <1>0, <2>1, Names DEF IInv, Phases, MainPlaces, MonPlaces, Searching
  <2>5. /\ \A t \in Threads : pc[t] # "registering"
        /\ \A f \in Frames : abort[f] = "no"
    BY <1>3, JoinIdle
  <2>6. Interrupts'
    BY <1>0, <2>5, FrameNames DEF Interrupts
  <2>7. \A t \in Threads : pc'[t] # "registering"
    BY <2>1, <2>5
  <2>8. Mutex'
    BY <1>0, <2>0, <2>5, <2>7, Names, FrameNames DEF Mutex, Inside
  <2>9. pc'[Main] = "clean"
    BY <2>1, Names
  <2>10. Slots'
    BY <1>0, <1>1, <2>7, <2>9 DEF Slots
  <2>11. RunningIsRegistered'
    BY <1>0, <1>1, <2>0, <2>1, <2>9, Names, Modes
       DEF IInv, Types, RunningIsRegistered
  <2> QED BY <2>3, <2>4, <2>6, <2>8, <2>10, <2>11 DEF IInv
<1> QED BY <1>0, <1>2, <1>3

-----------------------------------------------------------------------------
(* A thread that searches *)

\* Threads that are inside of a search are those that the options chose.
LEMMA SearchingThread ==
    ASSUME IInv, NEW t \in Threads, pc[t] \in Searching
    PROVE  /\ t \in Searchers /\ t # Mon
           /\ t = Main \/ (t \in Agents /\ pc[Main] = "wait")
<1>1. t # Mon
    BY DEF IInv, Phases, MonPlaces, Searching
<1>2. CASE t = Main
    BY <1>1, <1>2 DEF IInv, Phases
<1>3. CASE t \in Agents
  <2>1. pc[Main] = "wait"
    BY <1>3 DEF IInv, Phases, MainPlaces, Searching
  <2> QED BY <1>1, <1>3, <2>1 DEF IInv, Phases
<1> QED BY <1>1, <1>2, <1>3 DEF Threads

\* The places a search can go to without the mutex.
LEMMA SearchMoves ==
    ASSUME IInv, NEW t \in Threads, NEW place, pc[t] \in {"run", "blocked"},
           place \in {"run", "blocked"}
           \/ place = IF t = Main THEN "join" ELSE "over",
           Runs(t), Go(t, place), SearchRest' = SearchRest
    PROVE  IInv'
<1>0. /\ UNCHANGED <<opts, lock, registry, slot, abort>>
      /\ opts' = opts /\ registry' = registry /\ pc' = [pc EXCEPT ![t] = place]
      /\ abort[Handler(t)] = "no"
    BY DEF SearchRest, Go, Runs, Interrupted
<1>1. Searchers' = Searchers
    BY <1>0, SameOptions
<1>2. /\ t \in Searchers /\ t # Mon
      /\ t = Main \/ (t \in Agents /\ pc[Main] = "wait")
    BY SearchingThread DEF Searching
<1>3. place \in {"run", "blocked", "join", "over"}
    OBVIOUS
<1>4. Types' /\ Interrupts' /\ Mutex' /\ Slots'
    BY <1>0, <1>2, <1>3, MoveStep DEF MainPlaces, AgentPlaces
<1>5. \A u \in Threads : pc'[u] = IF u = t THEN place ELSE pc[u]
    BY <1>0 DEF IInv, Types
<1>6. Phases'
    BY <1>1, <1>2, <1>5, Names DEF IInv, Phases, MainPlaces, AgentPlaces, Searching
<1>7. RunningIsRegistered'
    BY <1>0, <1>1, <1>5, Modes DEF IInv, Types, RunningIsRegistered
<1> QED BY <1>4, <1>6, <1>7 DEF IInv

\* A thread takes the mutex and finds its place in the registry.
LEMMA RegisterLocksStep ==
    ASSUME IInv, NEW t \in Threads, RegisterLocks(t)
    PROVE  IInv'
<1>0. /\ opts' = opts /\ registry' = registry /\ abort' = abort
      /\ pc[t] = "register" /\ abort[Handler(t)] = "no"
      /\ opts.monitor \in BOOLEAN
    BY DEF RegisterLocks, At, Runs, Interrupted, IInv, Types, OptionSet
<1>1. Searchers' = Searchers /\ Single' = Single
    BY <1>0, SameOptions
<1>2. /\ t \in Searchers /\ t # Mon
      /\ t = Main \/ (t \in Agents /\ pc[Main] = "wait")
    BY <1>0, SearchingThread DEF Searching
<1>3. CASE ~opts.monitor
  <2>0. /\ lock' = lock /\ slot' = slot /\ pc' = [pc EXCEPT ![t] = "run"]
        /\ Go(t, "run")
    BY <1>3 DEF RegisterLocks, Go
  <2>1. Types' /\ Interrupts' /\ Mutex' /\ Slots'
    BY <1>0, <1>2, <2>0, MoveStep DEF MainPlaces
  <2>2. \A u \in Threads : pc'[u] = IF u = t THEN "run" ELSE pc[u]
    BY <2>0 DEF IInv, Types
  <2>3. Phases'
    BY <1>0, <1>1, <1>2, <2>2, Names DEF IInv, Phases, MainPlaces, AgentPlaces, Searching
  <2>4. RunningIsRegistered'
    BY <1>0, <1>3 DEF RunningIsRegistered
  <2> QED BY <2>1, <2>3, <2>4 DEF IInv
<1>4. CASE opts.monitor
  <2>0. /\ lock = NoOne /\ lock' = t /\ pc' = [pc EXCEPT ![t] = "registering"]
        /\ slot' = [slot EXCEPT ![t] = IF Single THEN 0 ELSE Len(registry)]
    BY <1>4 DEF RegisterLocks, Go, Guarded, Free
  <2>1. \A u \in Threads : pc'[u] = IF u = t THEN "registering" ELSE pc[u]
    BY <2>0 DEF IInv, Types
  <2>2. /\ \A u \in Threads : pc[u] # "registering"
        /\ \A f \in Frames : ~Inside(f)
    BY <2>0, Names, FrameThread DEF IInv, Mutex, Inside
  <2>3. registry \in Seq(Threads) /\ Len(registry) \in Nat
    BY DEF IInv, Types
  <2>4. Single => Len(registry) = 0
    <3>1. Single => t = Main
      BY <1>2, Modes DEF IInv, Types
    <3> QED BY <1>0, <3>1 DEF IInv, Slots
  <2>5. slot' \in [Threads -> Nat] /\ slot'[t] = Len(registry)
    BY <2>0, <2>3, <2>4 DEF IInv, Types
  <2>6. pc' \in [Threads -> MainPlaces \cup AgentPlaces \cup MonPlaces]
    BY <2>0 DEF IInv, Types, MainPlaces
  <2>7. Types'
    BY <1>0, <2>0, <2>5, <2>6 DEF IInv, Types
  <2>8. Phases'
    BY <1>0, <1>1, <1>2, <2>1, Names DEF IInv, Phases, MainPlaces, AgentPlaces, Searching
  <2>9. Interrupts'
    BY <1>0, <2>1, Names DEF IInv, Interrupts, Alive
  <2>10. Mutex'
    BY <1>0, <2>0, <2>1, <2>2, Names, FrameNames DEF Mutex, Inside
  <2>11. Slots'
    BY <1>0, <1>1, <1>2, <2>1, <2>2, <2>5, Names DEF IInv, Slots
  <2>12. RunningIsRegistered'
    BY <1>0, <1>1, <2>1, Names, Modes DEF IInv, Types, RunningIsRegistered
  <2> QED BY <2>7, <2>8, <2>9, <2>10, <2>11, <2>12 DEF IInv
<1> QED BY <1>0, <1>3, <1>4

\* It writes its search there and gives the mutex back.
LEMMA RegisterUnlocksStep ==
    ASSUME IInv, NEW t \in Threads, RegisterUnlocks(t)
    PROVE  IInv'
<1>0. /\ opts' = opts /\ abort' = abort /\ slot' = slot
      /\ pc[t] = "registering" /\ lock' = NoOne
      /\ pc' = [pc EXCEPT ![t] = "run"]
    BY DEF RegisterUnlocks, At, Go, Unshared
<1>1. Searchers' = Searchers /\ Single' = Single
    BY <1>0, SameOptions
<1>2. /\ t \in Searchers /\ t # Mon
      /\ t = Main \/ (t \in Agents /\ pc[Main] = "wait")
    BY <1>0, SearchingThread DEF Searching
<1>3. registry \in Seq(Threads) /\ slot[t] = Len(registry)
    BY <1>0 DEF IInv, Types, Slots
<1>4. registry' = Append(registry, t)
    BY <1>3 DEF RegisterUnlocks
<1>5. ToSet(registry') = ToSet(registry) \cup {t}
    BY <1>3, <1>4 DEF ToSet
<1>6. \A u \in Threads : pc'[u] = IF u = t THEN "run" ELSE pc[u]
    BY <1>0 DEF IInv, Types
<1>7. Types'
  <2>1. pc' \in [Threads -> MainPlaces \cup AgentPlaces \cup MonPlaces]
    BY <1>0 DEF IInv, Types, MainPlaces
  <2>2. registry' \in Seq(Threads)
    BY <1>3, <1>4
  <2> QED BY <1>0, <2>1, <2>2 DEF IInv, Types
<1>8. Phases'
    BY <1>0, <1>1, <1>2, <1>6, Names DEF IInv, Phases, MainPlaces, AgentPlaces, Searching
<1>9. Interrupts'
    BY <1>0, <1>6, Names DEF IInv, Interrupts, Alive
<1>10. lock = t /\ ~Inside(Handler(t))
    BY <1>0 DEF IInv, Mutex, Inside
<1>11. \A u \in Threads : pc'[u] # "registering"
    BY <1>6, <1>10 DEF IInv, Mutex, Inside
<1>12. \A f \in Frames : ~Inside(f)
    BY <1>2, <1>10, FrameThread DEF IInv, Mutex, Inside
<1>13. Mutex'
    BY <1>0, <1>11, <1>12, Names, FrameNames DEF Mutex, Inside
<1>14. Slots'
    BY <1>0, <1>1, <1>2, <1>6, <1>11, Modes DEF IInv, Types, Slots
<1>15. RunningIsRegistered'
    BY <1>0, <1>1, <1>5, <1>6, Names, Modes DEF IInv, Types, RunningIsRegistered
<1> QED BY <1>7, <1>8, <1>9, <1>13, <1>14, <1>15 DEF IInv

\* A search goes on, blocks or ends.
LEMMA SearchSteps ==
    ASSUME IInv, NEW t \in Threads, SearchStep(t)
    PROVE  IInv'
<1>1. CASE SingleEnds(t)
  <2>1. Single /\ pc[t] = "run" /\ Runs(t) /\ Go(t, "join") /\ SearchRest' = SearchRest
    BY <1>1 DEF SingleEnds, At
  <2>2. t = Main
    BY <2>1, SearchingThread, Modes DEF IInv, Types, Searching
  <2> QED BY <2>1, <2>2, SearchMoves
<1>2. CASE AgentEnds(t)
  <2>1. UNCHANGED <<opts, pc, lock, registry, slot, abort>>
    BY <1>2 DEF AgentEnds, SearchRest
  <2> QED BY <2>1, QuietStep
<1>3. CASE AgentBlocks(t)
    BY <1>3, SearchMoves DEF AgentBlocks, At
<1>4. CASE AgentUnblocks(t)
    BY <1>4, SearchMoves DEF AgentUnblocks, Wakes, At
<1>5. CASE AgentLeaves(t)
    BY <1>5, SearchMoves DEF AgentLeaves, At
<1> QED BY <1>1, <1>2, <1>3, <1>4, <1>5, RegisterLocksStep, RegisterUnlocksStep
        DEF SearchStep

-----------------------------------------------------------------------------
(* Every step *)

LEMMA Inductive == IInv /\ [Next]_vars => IInv'
<1> SUFFICES ASSUME IInv, [Next]_vars PROVE IInv'
    OBVIOUS
<1>1. CASE MainStep
    BY <1>1, EndStep, LoadProblemStep, StartSearchStep, TasksDoneStep, JoinStep
       DEF MainStep
<1>2. CASE \E t \in Threads : SearchStep(t) \/ Signal(t)
    BY <1>2, SearchSteps, SignalStep
<1>3. CASE \E f \in Frames : AbortStep(f)
    BY <1>3, AbortLocksStep, AbortFlagsStep, AbortDoneStep, AbortEndsStep DEF AbortStep
<1>4. CASE MonitorChecks \/ MonitorWakes \/ LimitExceeded
    BY <1>4, MonitorStep, LimitExceededStep
<1>5. CASE UNCHANGED vars
  <2>1. UNCHANGED <<opts, pc, lock, registry, slot, abort>>
    BY <1>5 DEF vars
  <2> QED BY <2>1, QuietStep
<1> QED BY <1>1, <1>2, <1>3, <1>4, <1>5 DEF Next, Stop

-----------------------------------------------------------------------------
(* What an abort has told the searches when it ends                         *)

\* Nothing aborts a search unless there is a monitor: it, and the handlers,
\* are set up together.
Monitored ==
    /\ pc[Mon] # "none" => opts.monitor
    /\ \A f \in Frames : abort[f] # "no" => opts.monitor

\* The searches that were told are the first ones of the registry, and all of
\* them when the loop is done: the registry does not grow meanwhile.
Told ==
    \A f \in Frames :
       /\ told[f] <= Len(registry)
       /\ ~Inside(f) => told[f] = 0
       /\ \A i \in 1..told[f] : registry[i] \in flagged
       /\ abort[f] = "leave" => told[f] = Len(registry)

TInv == /\ told \in [Frames -> Nat]
        /\ Monitored
        /\ Told

LEMMA InitiallyTold == Init => TInv
BY Names DEF Init, TInv, Monitored, Told, Inside

\* Nothing of it is touched.
LEMMA ToldSame ==
    ASSUME TInv, UNCHANGED <<opts, registry, abort, told, flagged>>,
           pc'[Mon] # "none" => pc[Mon] # "none"
    PROVE  TInv'
BY DEF TInv, Monitored, Told, Inside

\* A frame is about to enter the mutex: nothing is told yet.
LEMMA AwaitsMutex ==
    ASSUME IInv, TInv, NEW f \in Frames, opts.monitor, ~Inside(f),
           UNCHANGED <<opts, registry, told, flagged>>,
           abort' = [abort EXCEPT ![f] = "lock"]
    PROVE  TInv'
<1>1. \A g \in Frames : abort'[g] = IF g = f THEN "lock" ELSE abort[g]
    BY DEF IInv, Types
<1> QED BY <1>1 DEF TInv, Monitored, Told, Inside

LEMMA AbortTold ==
    ASSUME IInv, TInv, NEW f \in Frames, AbortStep(f)
    PROVE  TInv'
<1> USE DEF TInv
<1>0. opts' = opts /\ registry' = registry /\ Len(registry) \in Nat
    BY DEF AbortStep, AbortLocks, AbortFlags, AbortDone, AbortEnds, Unshared, IInv, Types
<1>1. CASE AbortLocks(f)
  <2>0. /\ told' = told /\ flagged' = flagged /\ pc' = pc
        /\ abort' = [abort EXCEPT ![f] = "loop"] /\ abort[f] = "lock"
    BY <1>1 DEF AbortLocks
  <2>1. \A g \in Frames : abort'[g] = IF g = f THEN "loop" ELSE abort[g]
    BY <2>0 DEF IInv, Types
  <2> QED BY <1>0, <2>0, <2>1 DEF Monitored, Told, Inside
<1>2. CASE AbortFlags(f)
  <2>0. /\ told' = [told EXCEPT ![f] = @ + 1] /\ abort' = abort /\ pc' = pc
        /\ flagged' = flagged \cup {registry[told[f] + 1]}
        /\ abort[f] = "loop" /\ told[f] < Len(registry)
    BY <1>2 DEF AbortFlags
  <2>1. \A g \in Frames : told'[g] = IF g = f THEN told[f] + 1 ELSE told[g]
    BY <2>0
  <2>2. \A i \in 1..told'[f] : registry[i] \in flagged'
    <3>1. told'[f] = told[f] + 1 /\ told[f] \in Nat
      BY <2>1
    <3>2. \A i \in 1..told'[f] : i \in 1..told[f] \/ i = told[f] + 1
      BY <3>1
    <3> QED BY <2>0, <3>2 DEF Told
  <2>3. told' \in [Frames -> Nat]
    BY <2>0
  <2>4. \A g \in Frames : /\ told'[g] <= Len(registry)
                          /\ \A i \in 1..told'[g] : registry[i] \in flagged'
    BY <1>0, <2>0, <2>1, <2>2 DEF Told
  <2>5. Told'
    BY <1>0, <2>0, <2>1, <2>4 DEF Told, Inside
  <2> QED BY <1>0, <2>0, <2>3, <2>5 DEF Monitored
<1>3. CASE AbortDone(f)
  <2>0. /\ told' = told /\ flagged' = flagged /\ pc' = pc
        /\ abort' = [abort EXCEPT ![f] = "leave"]
        /\ abort[f] = "loop" /\ told[f] >= Len(registry)
    BY <1>3 DEF AbortDone
  <2>1. \A g \in Frames : abort'[g] = IF g = f THEN "leave" ELSE abort[g]
    BY <2>0 DEF IInv, Types
  <2> QED BY <1>0, <2>0, <2>1 DEF Monitored, Told, Inside
<1>4. CASE AbortEnds(f)
  <2>0. /\ told' = [told EXCEPT ![f] = 0] /\ flagged' = flagged
        /\ abort' = [abort EXCEPT ![f] = "no"] /\ abort[f] = "leave"
        /\ pc' = IF f = Body(Mon) THEN [pc EXCEPT ![Mon] = "over"] ELSE pc
    BY <1>4 DEF AbortEnds
  <2>1. \A g \in Frames : /\ abort'[g] = IF g = f THEN "no" ELSE abort[g]
                          /\ told'[g] = IF g = f THEN 0 ELSE told[g]
    BY <2>0 DEF IInv, Types
  <2>2. told' \in [Frames -> Nat] /\ Told'
    BY <1>0, <2>0, <2>1 DEF Told, Inside
  <2>3. opts.monitor
    BY <2>0 DEF Monitored
  <2> QED BY <1>0, <2>2, <2>3 DEF Monitored
<1> QED BY <1>1, <1>2, <1>3, <1>4 DEF AbortStep

\* A search registers itself: it holds the mutex, so that nobody walks the
\* registry.
LEMMA RegistersUntold ==
    ASSUME IInv, TInv, NEW t \in Threads, RegisterUnlocks(t)
    PROVE  TInv'
<1>0. /\ opts' = opts /\ abort' = abort /\ told' = told /\ flagged' = flagged
      /\ pc[t] = "registering" /\ pc' = [pc EXCEPT ![t] = "run"]
    BY DEF RegisterUnlocks, At, Go, Unshared
<1>1. lock = t /\ ~Inside(Handler(t)) /\ t # Mon
    BY <1>0 DEF IInv, Mutex, Phases, MonPlaces
<1>2. \A f \in Frames : ~Inside(f)
    BY <1>1, FrameThread DEF IInv, Mutex
<1>3. registry' = Append(registry, t) /\ registry \in Seq(Threads)
    BY <1>0 DEF RegisterUnlocks, IInv, Types, Slots
<1>4. \A f \in Frames : told'[f] = 0 /\ abort'[f] # "leave"
    BY <1>0, <1>2 DEF TInv, Told, Inside
<1>5. Len(registry') \in Nat
    BY <1>3
<1>6. pc'[Mon] = pc[Mon]
    BY <1>0, <1>1, Names DEF IInv, Types
<1> QED BY <1>0, <1>2, <1>4, <1>5, <1>6 DEF TInv, Monitored, Told, Inside

LEMMA MainTold ==
    ASSUME IInv, TInv, MainStep
    PROVE  TInv'
<1>1. /\ UNCHANGED <<opts, registry, abort, told, flagged>>
      /\ opts' = opts /\ registry' = registry /\ abort' = abort
      /\ told' = told /\ flagged' = flagged
    BY DEF MainStep, LoadFails, LoadProblem, StartSearch, StartFails, TasksDone, Join,
           Clean, Rest
<1>2. CASE Join /\ opts.monitor
    BY <1>1, <1>2 DEF TInv, Monitored, Told, Inside
<1>3. CASE ~(Join /\ opts.monitor)
  <2>1. Mon # Main /\ Mon \notin Searchers /\ Mon \in Threads
    BY Names, Modes DEF IInv, Types
  <2>2. pc'[Mon] = pc[Mon]
    BY <1>3, <2>1 DEF MainStep, LoadFails, LoadProblem, StartSearch, StartFails, TasksDone,
           Join, Clean, Go, IInv, Types
  <2> QED BY <1>1, <2>2, ToldSame
<1> QED BY <1>2, <1>3

LEMMA SearchTold ==
    ASSUME IInv, TInv, NEW t \in Threads, SearchStep(t)
    PROVE  TInv'
<1>1. CASE RegisterUnlocks(t)
    BY <1>1, RegistersUntold
<1>2. CASE SearchStep(t) /\ ~RegisterUnlocks(t)
  <2>1. /\ UNCHANGED <<opts, registry, abort, told, flagged>>
        /\ pc[t] \in Searching
    BY <1>2 DEF SearchStep, RegisterLocks, SingleEnds, AgentEnds, AgentBlocks,
           AgentUnblocks, Wakes, AgentLeaves, SearchRest, At, Searching
  <2>2. t # Mon
    BY <2>1, SearchingThread
  <2>3. pc' = pc \/ \E place : pc' = [pc EXCEPT ![t] = place]
    BY <1>2 DEF SearchStep, RegisterLocks, SingleEnds, AgentEnds, AgentBlocks,
           AgentUnblocks, Wakes, AgentLeaves, SearchRest, Go
  <2>4. pc'[Mon] = pc[Mon]
    BY <2>2, <2>3, Names DEF IInv, Types
  <2> QED BY <2>1, <2>4, ToldSame
<1> QED BY <1>1, <1>2

LEMMA InductivelyTold == IInv /\ TInv /\ [Next]_vars => TInv'
<1> SUFFICES ASSUME IInv, TInv, [Next]_vars PROVE TInv'
    OBVIOUS
<1>1. CASE MainStep
    BY <1>1, MainTold
<1>2. ASSUME NEW t \in Threads, SearchStep(t)
      PROVE  TInv'
    BY <1>2, SearchTold
<1>3. ASSUME NEW t \in Threads, Signal(t)
      PROVE  TInv'
  <2>1. /\ UNCHANGED <<opts, registry, told, flagged>> /\ opts.monitor
        /\ ~Inside(Handler(t)) /\ abort' = [abort EXCEPT ![Handler(t)] = "lock"]
    BY <1>3 DEF Signal, Runs, Interrupted, Inside
  <2> QED BY <2>1, FrameNames, AwaitsMutex
<1>4. ASSUME NEW f \in Frames, AbortStep(f)
      PROVE  TInv'
    BY <1>4, AbortTold
<1>5. CASE MonitorChecks /\ exceeded
  <2>1. /\ UNCHANGED <<opts, registry, told, flagged>> /\ pc[Mon] = "check"
        /\ abort' = [abort EXCEPT ![Body(Mon)] = "lock"]
    BY <1>5 DEF MonitorChecks, At, Unshared
  <2>2. opts.monitor /\ ~Inside(Body(Mon))
    BY <2>1 DEF TInv, Monitored, IInv, Interrupts, Inside
  <2> QED BY <2>1, <2>2, FrameNames, AwaitsMutex
<1>6. CASE (MonitorChecks /\ ~exceeded) \/ MonitorWakes \/ LimitExceeded \/ UNCHANGED vars
  <2>1. /\ UNCHANGED <<opts, registry, abort, told, flagged>>
        /\ pc[Mon] # "none" \/ pc' = pc
    BY <1>6 DEF MonitorChecks, MonitorWakes, LimitExceeded, vars, At, Unshared
  <2> QED BY <2>1, ToldSame
<1> QED BY <1>1, <1>2, <1>3, <1>4, <1>5, <1>6 DEF Next, Stop

-----------------------------------------------------------------------------
(* The theorems *)

\* Both invariants hold in every reachable state.
LEMMA Invariance == Spec => [](IInv /\ TInv)
<1> QED BY Initially, Inductive, InitiallyTold, InductivelyTold, PTL DEF Spec

\* No search that runs is missing from the registry, in whatever order the
\* agents register and handlers interrupt them (limitMonitorAddMASearch,
\* limitMonitorSetSearch).
THEOREM RunningIsRegisteredAlways == Spec => []RunningIsRegistered
<1>1. IInv => RunningIsRegistered
    BY DEF IInv
<1> QED BY <1>1, Invariance, PTL

\* limitMonitorJoin never destroys a mutex that somebody holds or awaits.
THEOREM MutexIdle == Spec => MutexIdleWhenDestroyed
<1> DEFINE Idle == Free /\ \A f \in Frames : f[1] # Main => abort[f] = "no"
<1>1. IInv /\ [Next]_vars => (lock' = Gone /\ lock # Gone => Idle)
  <2> SUFFICES ASSUME IInv, [Next]_vars, lock' = Gone, lock # Gone
               PROVE  Idle
    OBVIOUS
  <2>1. CASE Join
    <3>1. opts.monitor
      BY <2>1 DEF Join
    <3> QED BY <2>1, <3>1, JoinIdle
  <2>2. CASE LoadFails \/ LoadProblem \/ StartSearch \/ StartFails \/ TasksDone \/ Clean
    <3>1. lock' = lock
      BY <2>2 DEF LoadFails, LoadProblem, StartSearch, StartFails, TasksDone, Clean, Rest
    <3> QED BY <3>1
  <2>3. ASSUME NEW t \in Threads, SearchStep(t) \/ Signal(t)
        PROVE  FALSE
    <3>1. lock' \in {lock, t, NoOne}
      BY <2>3 DEF SearchStep, RegisterLocks, RegisterUnlocks, SingleEnds, AgentEnds,
                  AgentBlocks, AgentUnblocks, Wakes, AgentLeaves, SearchRest, Signal
    <3> QED BY <3>1, Names
  <2>4. ASSUME NEW f \in Frames, AbortStep(f)
        PROVE  FALSE
    <3>1. lock' \in {lock, f[1], NoOne}
      BY <2>4 DEF AbortStep, AbortLocks, AbortFlags, AbortDone, AbortEnds, Released
    <3> QED BY <3>1, Names, FrameThread
  <2>5. CASE MonitorChecks \/ MonitorWakes \/ LimitExceeded \/ UNCHANGED vars
    <3>1. lock' = lock
      BY <2>5 DEF MonitorChecks, MonitorWakes, LimitExceeded, vars
    <3> QED BY <3>1
  <2> QED BY <2>1, <2>2, <2>3, <2>4, <2>5 DEF Next, MainStep, Stop
<1> QED BY <1>1, Invariance, PTL DEF Spec, MutexIdleWhenDestroyed

\* When limitMonitorAbort returns, in the monitor's thread or in a handler,
\* every search that runs then has its flag set, whatever threads register
\* their searches meanwhile.
THEOREM AbortTells == Spec => AbortTellsAll
<1> DEFINE Ends(f) == abort[f] = "leave" /\ abort'[f] = "no"
           All == \A t \in Searchers : pc[t] \in {"run", "blocked"} => t \in flagged
<1>1. IInv /\ TInv => \A f \in Frames : Ends(f) => All
  <2> SUFFICES ASSUME IInv, TInv, NEW f \in Frames, Ends(f),
                      NEW t \in Searchers, pc[t] \in {"run", "blocked"}
               PROVE  t \in flagged
    OBVIOUS
  <2>1. opts.monitor
    BY DEF TInv, Monitored
  <2>2. t \in ToSet(registry)
    BY <2>1 DEF IInv, RunningIsRegistered
  <2>3. PICK i \in 1..Len(registry) : registry[i] = t
    BY <2>2 DEF ToSet, IInv, Types
  <2>4. told[f] = Len(registry) /\ \A k \in 1..told[f] : registry[k] \in flagged
    BY DEF TInv, Told
  <2> QED BY <2>3, <2>4
<1> QED BY <1>1, Invariance, PTL DEF AbortTellsAll

=============================================================================
