------------------------------- MODULE Planner -------------------------------
(***************************************************************************)
(* The planner's process (src/bin/search.c, src/bin/options.c): options     *)
(* choose how a problem is loaded and how many threads search it; a monitor *)
(* thread, and the handler of SIGTERM and SIGINT, abort the searches that   *)
(* are registered when a hard limit is exceeded or a signal comes.          *)
(*                                                                         *)
(* Several objects are shared by the threads: the mutex, the registry of    *)
(* searches, and the abort flag of every search, which the search itself    *)
(* looks at between two steps only (planSearchRun).  A search is one action *)
(* per step that matters here: it ends by itself, it ends because of its    *)
(* flag, or it blocks on an empty open list.  That agents of a cluster      *)
(* leave together, once each of them takes part in the termination, is what *)
(* MATerminate shows.                                                       *)
(***************************************************************************)
EXTENDS Naturals, Sequences, FiniteSets, SequencesExt

CONSTANTS Agents,      \* the agents of a problem, one thread each
          Options,     \* the command lines to consider
          MaxSignals   \* bound on the signals that arrive

Main == "main"
Mon  == "monitor"
Threads == Agents \cup {Main, Mon}
NoOne == "none"
Gone == "destroyed"    \* what the mutex is after limitMonitorJoin

OptionSet == [unfactor : BOOLEAN, factor : BOOLEAN, dir : BOOLEAN,
              tcp : BOOLEAN, monitor : BOOLEAN]

ASSUME AgentsAssumption == Agents # {} /\ {Main, Mon, NoOne, Gone} \cap Agents = {}
ASSUME OptionsAssumption == Options \subseteq OptionSet

Zero == CHOOSE a \in Agents : TRUE

VARIABLES opts,      \* the options, fixed
          loaded,    \* the global that loading filled: problem, problems, ...
          pc,        \* pc[t]: where thread t is
          lock,      \* limit_monitor.lock: who holds it; or "destroyed"
          registry,  \* limit_monitor.search or ma_search[]
          slot,      \* slot[t]: ma_search_size as thread t read it
          flagged,   \* searches whose abort flag is set
          exceeded,  \* a hard limit is exceeded
          abort,     \* abort[f]: where limitMonitorAbort is in frame f
          told,      \* told[f]: how many searches it has aborted
          signals,   \* signals that arrived
          ending,    \* the cluster has begun to terminate
          exit       \* how the process ended

vars == <<opts, loaded, pc, lock, registry, slot, flagged, exceeded, abort, told,
          signals, ending, exit>>

-----------------------------------------------------------------------------
(* What the options say.  Fields: unfactor, factor, dir (--ma-...), tcp     *)
(* (--tcp-id and --tcp), monitor (--hard-limit-sleeptime > 0).              *)

\* readOpts
Accepted(o) == o.factor => o.tcp

\* loadProblem
Loads(o) == IF o.factor THEN "problem" ELSE IF o.dir THEN "problems"
            ELSE IF o.unfactor THEN "agent_problem" ELSE "problem"

\* main: what runs, on which global, and the threads that search.
Dispatch(o) ==
    CASE o.unfactor -> [run |-> "cluster", needs |-> "agent_problem",
                        threads |-> IF o.tcp THEN {Main} ELSE Agents]
      [] ~o.unfactor /\ o.factor ->
            [run |-> "cluster", needs |-> "problem", threads |-> {Main}]
      [] ~o.unfactor /\ ~o.factor /\ o.dir ->
            [run |-> "cluster", needs |-> "problems", threads |-> Agents]
      [] OTHER -> [run |-> "single", needs |-> "problem", threads |-> {Main}]

Searchers == Dispatch(opts).threads
Single == Dispatch(opts).run = "single"

-----------------------------------------------------------------------------
(* limitMonitorAbort runs in a frame: the monitor's own, or a handler's,    *)
(* which interrupts whatever its thread is doing                            *)

Body(t) == <<t, "body">>
Handler(t) == <<t, "handler">>
Frames == {Body(Mon)} \cup {Handler(t) : t \in Threads}

Interrupted(t) == abort[Handler(t)] # "no"
Alive(t) == pc[t] \notin {"none", "over"}

\* Thread t does something of its own.
Runs(t) == exit = "running" /\ ~Interrupted(t)
FrameRuns(f) == exit = "running" /\ (f[2] = "body" => ~Interrupted(f[1]))

Free == lock = NoOne

Init == /\ opts \in {o \in Options : Accepted(o)}
        /\ loaded = "nothing"
        /\ pc = [t \in Threads |-> IF t = Main THEN "load"
                                   ELSE IF t = Mon /\ opts.monitor THEN "check"
                                   ELSE "none"]
        /\ lock = NoOne
        /\ registry = <<>>
        /\ slot = [t \in Threads |-> 0]
        /\ flagged = {}
        /\ exceeded = FALSE
        /\ abort = [f \in Frames |-> "no"]
        /\ told = [f \in Frames |-> 0]
        /\ signals = 0
        /\ ending = FALSE
        /\ exit = "running"

At(t, place) == Runs(t) /\ pc[t] = place
Go(t, place) == pc' = [pc EXCEPT ![t] = place]

-----------------------------------------------------------------------------
(* limitMonitorAbort *)

Unshared == <<opts, loaded, slot, exceeded, signals, ending>>

\* Mutant: the handler does not wait for the mutex.
EntersAnyway(f) == TRUE

Enters(f) == Free

AbortLocks(f) ==
    /\ FrameRuns(f) /\ abort[f] = "lock" /\ Enters(f)
    /\ lock' = f[1]
    /\ abort' = [abort EXCEPT ![f] = "loop"]
    /\ UNCHANGED <<Unshared, pc, registry, flagged, told, exit>>

AbortFlags(f) ==
    /\ FrameRuns(f) /\ abort[f] = "loop" /\ told[f] < Len(registry)
    /\ flagged' = flagged \cup {registry[told[f] + 1]}
    /\ told' = [told EXCEPT ![f] = @ + 1]
    /\ UNCHANGED <<Unshared, pc, lock, registry, abort, exit>>

AbortDone(f) ==
    /\ FrameRuns(f) /\ abort[f] = "loop" /\ told[f] >= Len(registry)
    /\ abort' = [abort EXCEPT ![f] = "leave"]
    /\ UNCHANGED <<Unshared, pc, lock, registry, flagged, told, exit>>

\* Mutant: the mutex is not unlocked.
StillLocked(f) == f[1]

Released(f) == NoOne

\* The process exits if there was nothing to abort.
AbortEnds(f) ==
    /\ FrameRuns(f) /\ abort[f] = "leave"
    /\ lock' = Released(f)
    /\ abort' = [abort EXCEPT ![f] = "no"]
    /\ told' = [told EXCEPT ![f] = 0]
    /\ exit' = IF told[f] = 0 THEN "killed" ELSE exit
    /\ pc' = IF f = Body(Mon) THEN [pc EXCEPT ![Mon] = "over"] ELSE pc
    /\ UNCHANGED <<Unshared, registry, flagged>>

\* limitMonitorSignalKill: a signal interrupts some thread.
Signal(t) ==
    /\ signals < MaxSignals
    /\ opts.monitor
    /\ Runs(t) /\ Alive(t)
    /\ signals' = signals + 1
    /\ abort' = [abort EXCEPT ![Handler(t)] = "lock"]
    /\ UNCHANGED <<opts, loaded, pc, lock, registry, slot, flagged, exceeded,
                   told, ending, exit>>

LimitExceeded ==
    /\ exit = "running" /\ ~exceeded
    /\ exceeded' = TRUE
    /\ UNCHANGED <<opts, loaded, pc, lock, registry, slot, flagged, abort, told,
                   signals, ending, exit>>

\* limitMonitorTh: check, abort at most once, sleep.
MonitorChecks ==
    /\ At(Mon, "check")
    /\ IF exceeded THEN /\ abort' = [abort EXCEPT ![Body(Mon)] = "lock"]
                        /\ Go(Mon, "abort")
                   ELSE /\ Go(Mon, "sleep")
                        /\ UNCHANGED abort
    /\ UNCHANGED <<Unshared, lock, registry, flagged, told, exit>>

MonitorWakes ==
    /\ At(Mon, "sleep")
    /\ Go(Mon, "check")
    /\ UNCHANGED <<Unshared, lock, registry, flagged, abort, told, exit>>

-----------------------------------------------------------------------------
(* The main thread outside of a search *)

Rest == <<opts, lock, registry, slot, flagged, exceeded, abort, told, signals,
          ending>>

\* loadProblem: a file cannot be read, is no problem, or has the wrong number
\* of agents; then the problem the options ask for is taken.
LoadFails ==
    /\ At(Main, "load")
    /\ exit' = "failed"
    /\ UNCHANGED <<Rest, loaded, pc>>

LoadProblem ==
    /\ At(Main, "load")
    /\ loaded' = Loads(opts)
    /\ Go(Main, "dispatch")
    /\ UNCHANGED <<Rest, exit>>

\* singleThread, maRun by this thread, or one task per agent; a problem that
\* was not loaded is a NULL pointer.
StartSearch ==
    /\ At(Main, "dispatch")
    /\ \/ /\ loaded # Dispatch(opts).needs
          /\ exit' = "crashed"
          /\ UNCHANGED pc
       \/ /\ loaded = Dispatch(opts).needs
          /\ pc' = [t \in Threads |->
                      IF t \in Searchers THEN "register"
                      ELSE IF t = Main THEN "wait" ELSE pc[t]]
          /\ UNCHANGED exit
    /\ UNCHANGED <<Rest, loaded>>

\* maInit fails for one of the agents: no heuristic, no channel.
StartFails ==
    /\ At(Main, "dispatch")
    /\ ~Single
    /\ exit' = "failed"
    /\ UNCHANGED <<Rest, loaded, pc>>

\* borTasksRun returns when all tasks are done.
TasksDone ==
    /\ At(Main, "wait")
    /\ \A t \in Searchers : pc[t] = "over"
    /\ Go(Main, "join")
    /\ UNCHANGED <<Rest, loaded, exit>>

\* Mutant: the monitor's thread is cancelled but not waited for.
CancelOnly == At(Main, "join")

\* pthread_cancel takes effect where the monitor sleeps or prints; the thread
\* is over then, or it was when it had aborted the searches.
MonitorJoined ==
    /\ At(Main, "join")
    /\ pc[Mon] = "over" \/ (pc[Mon] \in {"check", "sleep"} /\ ~Interrupted(Mon))

\* limitMonitorJoin
Join ==
    /\ At(Main, "join")
    /\ IF ~opts.monitor THEN UNCHANGED <<lock, pc>> /\ exit' = "done"
       ELSE /\ MonitorJoined
            /\ lock' = Gone
            /\ pc' = [pc EXCEPT ![Main] = "clean", ![Mon] = "over"]
            /\ UNCHANGED exit
    /\ UNCHANGED <<opts, loaded, registry, slot, flagged, exceeded, abort, told,
                   signals, ending>>

\* delProblem, and the end of main.
Clean ==
    /\ At(Main, "clean")
    /\ exit' = "done"
    /\ UNCHANGED <<Rest, loaded, pc>>

-----------------------------------------------------------------------------
(* A thread that searches *)

\* Mutant: the mutex is not looked at.
Unguarded(t) == TRUE

Guarded(t) == Free

\* limitMonitorSetSearch, limitMonitorAddMASearch: nothing is registered when
\* there is no monitor.
RegisterLocks(t) ==
    /\ At(t, "register")
    /\ IF opts.monitor THEN /\ Guarded(t)
                            /\ lock' = t
                            /\ slot' = [slot EXCEPT ![t] = IF Single THEN 0 ELSE Len(registry)]
                            /\ Go(t, "registering")
                       ELSE /\ Go(t, "run")
                            /\ UNCHANGED <<lock, slot>>
    /\ UNCHANGED <<opts, loaded, registry, flagged, exceeded, abort, told, signals,
                   ending, exit>>

RegisterUnlocks(t) ==
    /\ At(t, "registering")
    /\ registry' = IF slot[t] < Len(registry)
                   THEN [registry EXCEPT ![slot[t] + 1] = t] ELSE Append(registry, t)
    /\ lock' = NoOne
    /\ Go(t, "run")
    /\ UNCHANGED <<Unshared, flagged, abort, told, exit>>

SearchRest == <<opts, loaded, lock, registry, slot, flagged, exceeded, abort, told,
                signals, exit>>

\* The search of a single agent is over by itself: planSearchRun returns.
SingleEnds(t) ==
    /\ At(t, "run") /\ Single
    /\ Go(t, "join")
    /\ UNCHANGED <<SearchRest, ending>>

\* The flag is seen after a step: the result is PLAN_SEARCH_ABORT.
SingleAborts(t) == t \in flagged /\ SingleEnds(t)

\* searchPostStep: an agent that found a plan starts the termination.
AgentEnds(t) ==
    /\ At(t, "run") /\ ~Single
    /\ ending' = TRUE
    /\ UNCHANGED <<SearchRest, pc>>

\* planMASearchRun: so does one whose flag is set.
AgentAborts(t) == t \in flagged /\ AgentEnds(t)

\* An empty open list, and a flag that was not set when it was looked at: the
\* agent waits for a message.
AgentBlocks(t) ==
    /\ At(t, "run") /\ ~Single
    /\ t \notin flagged
    /\ Go(t, "blocked")
    /\ UNCHANGED <<SearchRest, ending>>

\* While agent 0 is blocked it verifies the dead end again and again: it sends
\* a message to every other agent, and is answered when all of them search.
Verified(t) ==
    /\ Agents = Searchers /\ Cardinality(Agents) > 1
    /\ pc[Zero] = "blocked"
    /\ t = Zero => \A u \in Searchers : pc[u] \in {"run", "blocked"}

\* A message comes from an agent that searches, maybe in another process.
Messaged(t) == (\E u \in Searchers : pc[u] = "run") \/ (opts.tcp /\ Searchers = {Main})

Wakes(t) ==
    /\ At(t, "blocked")
    /\ Go(t, "run")
    /\ UNCHANGED <<SearchRest, ending>>

AgentUnblocks(t) == (ending \/ Verified(t) \/ Messaged(t)) /\ Wakes(t)

\* The protocol needs every agent to take part (LeastInitiatorWins).
TakesPart(u) == pc[u] \in {"run", "over"}

\* planMASearchRun returns: the agent's object is deleted, and its thread is
\* over; the main thread prints and deletes what is left.
AgentLeaves(t) ==
    /\ At(t, "run") /\ ~Single
    /\ ending
    /\ \A u \in Searchers : TakesPart(u)
    /\ Go(t, IF t = Main THEN "join" ELSE "over")
    /\ UNCHANGED <<SearchRest, ending>>

Over == exit # "running"

\* A handler that waits for the mutex its own thread holds, or that is gone.
SelfLocked == \E t \in Threads :
    abort[Handler(t)] = "lock" /\ lock \in {t, Gone}

\* The process is over, or stands still.
Stop == /\ Over \/ SelfLocked \/ \A t \in Searchers : pc[t] = "blocked"
        /\ UNCHANGED vars

MainStep == LoadFails \/ LoadProblem \/ StartSearch \/ StartFails \/ TasksDone
            \/ Join \/ Clean
SearchStep(t) == RegisterLocks(t) \/ RegisterUnlocks(t) \/ SingleEnds(t)
                 \/ AgentEnds(t) \/ AgentBlocks(t) \/ AgentUnblocks(t)
                 \/ AgentLeaves(t)
AbortStep(f) == AbortLocks(f) \/ AbortFlags(f) \/ AbortDone(f) \/ AbortEnds(f)

Next == \/ MainStep
        \/ \E t \in Threads : SearchStep(t) \/ Signal(t)
        \/ \E f \in Frames : AbortStep(f)
        \/ MonitorChecks \/ MonitorWakes \/ LimitExceeded
        \/ Stop

\* Threads run.  Nothing says that a search finds a plan or that an agent
\* sends another one a message before the termination begins.
Progress(t) == RegisterLocks(t) \/ RegisterUnlocks(t) \/ SingleAborts(t)
               \/ AgentAborts(t) \/ (ending /\ Wakes(t))

Fairness == /\ WF_vars(MainStep)
            /\ WF_vars(MonitorChecks \/ MonitorWakes)
            /\ WF_vars(\E f \in Frames : AbortStep(f))
            /\ \A t \in Agents \cup {Main} :
                 /\ WF_vars(Progress(t))
                 /\ SF_vars(AgentLeaves(t))
                 /\ SF_vars(Verified(t) /\ Wakes(t))

Spec == Init /\ [][Next]_vars /\ Fairness

-----------------------------------------------------------------------------
(* Properties *)

\* A search that runs is registered, whatever the others register at the same
\* time: ma_search_size is read and incremented under the mutex.
RunningIsRegistered ==
    \A t \in Searchers :
        opts.monitor /\ pc[t] \in {"run", "blocked"} => t \in ToSet(registry)

\* limitMonitorJoin destroys the mutex when nobody holds or awaits it, though
\* handlers of signals take it in any thread.
MutexIdleWhenDestroyed ==
    [][lock' = Gone /\ lock # Gone =>
         Free /\ \A f \in Frames : f[1] # Main => abort[f] = "no"]_vars

\* When the limit monitor or a handler is done with an abort, no search runs
\* that was not told: none registers itself while they are told one by one.
AbortTellsAll ==
    [][\A f \in Frames : abort[f] = "leave" /\ abort'[f] = "no" =>
         \A t \in Searchers : pc[t] \in {"run", "blocked"} => t \in flagged]_vars

\* An aborted search that does not look at its flag.
Deaf == \E t \in flagged : pc[t] = "blocked"

\* The hard limit ends the process, in whatever phase it is: loading, with
\* some agents registered and others not, or while it ends anyway.  Only a
\* blocked agent and a handler that interrupted the holder of the mutex can
\* prevent it.
LimitEnds == (exceeded /\ opts.monitor) ~> (Over \/ SelfLocked \/ Deaf)

\* planMASearchAbort "aborts ma-search process from outside"
\* (src/plan/ma_search.h:67): a search that was aborted comes to an end.
AbortAborts == (flagged # {}) ~> (Over \/ SelfLocked)
=============================================================================
