------------------------------ MODULE MCSearches ------------------------------
(***************************************************************************)
(* Instances for TLC of what searches and of what the searches stand on:    *)
(* the search of a single agent (LocalSearch), an open list (Lists), the    *)
(* agents of a cluster (MASearch), the numbers that agents give to states   *)
(* (MAState), the messages between them (Messages), and the way from a file *)
(* to the agents (Loader).  One of them runs, the variables of the others   *)
(* are idle; an idle list is an empty one that nobody uses.                 *)
(***************************************************************************)
EXTENDS LocalSearch, Lists, TLC

CONSTANTS N, MaxCost,                                        \* of MASearch
          WordBits, MaxStates, MaxMsgs,                      \* of MAState
          IntBits,                                           \* of Loader
          HeurSubtypes, MaxCalls, MaxHops                    \* of Messages

VARIABLES which,
          problem, node, list, doing, goal, goalCost, objs, count, chan, answer,
          variables, packer, pool, privs, others, buf, msgs, seen, got,
          file, stage, glob, agents,
          host, at, msg, said, wire, counter, calls, hops

-----------------------------------------------------------------------------
(* What a single agent searches, and how                                     *)

Edge(f, t, c) == [from |-> f, to |-> t, cost |-> c]

\* Two ways to state 2, the longer one maybe cheaper, one to the goal, and a
\* way back; any heuristic, consistent, admissible or neither.
Graphs == {<<Edge(0, 1, a), Edge(0, 2, b), Edge(1, 2, c), Edge(2, 3, d), Edge(2, 1, 0)>> :
             a \in {0, 1}, b \in {1, 3}, c \in {0, 1}, d \in {1, 3}}
Heurs == [0 .. 3 -> {0, 1, 2, 3, DeadEnd}]
SomeHeurs == {h \in Heurs : h[0] \in {0, 2} /\ h[1] \in {0, 3, DeadEnd}
                            /\ h[2] \in {0, 1, DeadEnd} /\ h[3] = 0}
Paths == [op : Graphs, goal : {{3}, {}}, h : SomeHeurs, pref : {{}, {2, 4, 5}}]

AllAlgorithms ==
    [kind : {"lazy", "ehc"}, pref : {"no", "yes", "only"}, pathmax : {FALSE}]
        \cup [kind : {"astar"}, pref : {"no"}, pathmax : BOOLEAN]

-----------------------------------------------------------------------------
(* What is packed and numbered: a task of three agents with all operators    *)
(* and variables, or without privacy                                         *)

Variable(range, owner) == [range |-> range, owner |-> owner]
OpOf(owner, pre, eff, cond) == [owner |-> owner, pre |-> pre, eff |-> eff, cond |-> cond]
ThreeAgents ==
    [vars |-> <<Variable(2, 0), Variable(3, 3), Variable(3, 1), Variable(2, 1)>>,
     ops |-> <<OpOf(0, <<>>, 1 :> 1, <<>>), OpOf(0, 1 :> 1, 2 :> 1, <<>>),
               OpOf(1, <<>>, 4 :> 1, <<[pre |-> 2 :> 1, eff |-> 3 :> 2]>>),
               OpOf(2, 2 :> 1, 2 :> 0, <<>>)>>]
NumberTasks == {[vars |-> ThreeAgents.vars, ops |-> ThreeAgents.ops, privacy |-> p] : p \in BOOLEAN}

-----------------------------------------------------------------------------
(* What is loaded: three operators out of a pool, on three variables.  Some  *)
(* are duplicates, some chain, some have conditional effects.                *)

FileOp(pre, eff, cond, cost, names) ==
    [pre |-> pre, eff |-> eff, cond |-> cond, cost |-> cost, names |-> names]
When(pre, eff) == [pre |-> pre, eff |-> eff]
OpPool ==
    {FileOp(<<>>, 1 :> 1, <<>>, 1, {0}),
     FileOp(1 :> 1, 2 :> 1, <<>>, 1, {0}), FileOp(1 :> 1, 2 :> 1, <<>>, 2, {0}),
     FileOp(2 :> 1 @@ 1 :> 1, 1 :> 0, <<>>, 1, {1}),
     FileOp(2 :> 1 @@ 3 :> 0, 3 :> 2, <<>>, 2, {1}),
     FileOp(2 :> 2, 3 :> 2, <<When(1 :> 1, 2 :> 1), When(3 :> 0, 1 :> 0), When(1 :> 1, 3 :> 1)>>, 1, {}),
     FileOp(<<>>, <<>>, <<When(2 :> 1, 3 :> 2), When(<<>>, 2 :> 0)>>, 1, {1}),
     FileOp(2 :> 0, 2 :> 1, <<>>, 1, {1}),
     FileOp(3 :> 0, 3 :> 1, <<>>, 1, {0}), FileOp(3 :> 1 @@ 2 :> 1, 3 :> 2, <<>>, 1, {0, 1})}
FileProblems ==
    {[ranges |-> <<2, 3, 3>>, init |-> <<0, 0, 0>>, goal |-> g, ops |-> <<o1, o2, o3>>] :
        g \in {3 :> 2, 2 :> 1, 1 :> 0 @@ 2 :> 1}, o1, o2 \in OpPool,
        o3 \in {o \in OpPool : 2 \in DOMAIN o.pre}}
SomeFiles == [problem : FileProblems, agents : {2}, useCG : BOOLEAN, prune : {TRUE}, unit : {FALSE}]

TwoHosts == [{0, 1} -> {"little", "big"}] \ {[a \in {0, 1} |-> "big"]}

-----------------------------------------------------------------------------
(* One of them runs                                                          *)

Small == INSTANCE MCMASearch WITH Problems <- {}
Cluster == INSTANCE MASearch WITH Problems <- Small!OneGoal
Numbers == INSTANCE MAState WITH N <- 3, Tasks <- NumberTasks, task <- variables
Load == INSTANCE Loader WITH Files <- SomeFiles
Mail == INSTANCE Messages WITH Ints <- {-1, 258}, Hosts <- TwoHosts

clusterVars == <<problem, node, list, doing, goal, goalCost, objs, count, chan, answer>>
numberVars == <<variables, packer, pool, privs, others, buf, msgs, seen, got>>
loadVars == <<file, stage, glob, agents>>
mailVars == <<host, at, msg, said, wire, counter, calls, hops>>
allVars == <<which, vars, listVars, clusterVars, numberVars, loadVars, mailVars>>

LocalIdle == /\ task = "idle" /\ alg = "idle" /\ nodes = "idle" /\ openList = "idle"
             /\ best = "idle" /\ abort = "idle" /\ res = "idle"
             /\ goalState = "idle" /\ path = "idle"
ListIdle == ListInit /\ kind = "tree"
ClusterIdle == /\ problem = "idle" /\ node = "idle" /\ list = "idle" /\ doing = "idle"
               /\ goal = "idle" /\ goalCost = "idle" /\ objs = "idle"
               /\ count = "idle" /\ chan = "idle" /\ answer = "idle"
NumbersIdle == /\ variables = "idle" /\ packer = "idle" /\ pool = "idle" /\ privs = "idle"
               /\ others = "idle" /\ buf = "idle" /\ msgs = "idle" /\ seen = "idle"
               /\ got = "idle"
MailIdle == /\ host = "idle" /\ at = "idle" /\ msg = "idle" /\ said = "idle"
            /\ wire = "idle" /\ counter = "idle" /\ calls = "idle" /\ hops = "idle"
LoadIdle == file = "idle" /\ stage = "idle" /\ glob = "idle" /\ agents = "idle"

SomeInit ==
    \/ /\ which = "local" /\ Init
       /\ ListIdle /\ ClusterIdle /\ NumbersIdle /\ LoadIdle /\ MailIdle
    \/ /\ which = "list" /\ ListInit
       /\ LocalIdle /\ ClusterIdle /\ NumbersIdle /\ LoadIdle /\ MailIdle
    \/ /\ which = "cluster" /\ Cluster!Init
       /\ LocalIdle /\ ListIdle /\ NumbersIdle /\ LoadIdle /\ MailIdle
    \/ /\ which = "numbers" /\ Numbers!Init
       /\ LocalIdle /\ ListIdle /\ ClusterIdle /\ LoadIdle /\ MailIdle
    \/ /\ which = "load" /\ Load!LoaderInit
       /\ LocalIdle /\ ListIdle /\ ClusterIdle /\ NumbersIdle /\ MailIdle
    \/ /\ which = "mail" /\ Mail!MessagesInit
       /\ LocalIdle /\ ListIdle /\ ClusterIdle /\ NumbersIdle /\ LoadIdle

SomeNext ==
    /\ \/ /\ which = "local" /\ Next
          /\ UNCHANGED <<listVars, clusterVars, numberVars, loadVars, mailVars>>
       \/ /\ which = "list" /\ ListNext
          /\ UNCHANGED <<vars, clusterVars, numberVars, loadVars, mailVars>>
       \/ /\ which = "cluster" /\ Cluster!Next
          /\ UNCHANGED <<vars, listVars, numberVars, loadVars, mailVars>>
       \/ /\ which = "numbers" /\ Numbers!Next
          /\ UNCHANGED <<vars, listVars, clusterVars, loadVars, mailVars>>
       \/ /\ which = "load" /\ Load!LoaderNext
          /\ UNCHANGED <<vars, listVars, clusterVars, numberVars, mailVars>>
       \/ /\ which = "mail" /\ Mail!MessagesNext
          /\ UNCHANGED <<vars, listVars, clusterVars, numberVars, loadVars>>
    /\ UNCHANGED which

SomeSpec == SomeInit /\ [][SomeNext]_allVars

-----------------------------------------------------------------------------
(* Properties: those of the modules, where they are explained.  Those of    *)
(* LocalSearch and Lists hold of idle variables, too.                       *)

\* A verified solution of the cluster is a cheapest one.
ClusterOptimal == which = "cluster" => Cluster!VerifiedIsOptimal

\* A refused solution does not get lost.
ClusterKeeps == which = "cluster" => Cluster!SolutionKept

\* An agent has one number for every state, whatever way it came.
OneNumberPerState == which = "numbers" => Numbers!OneNumberPerState

\* What is dropped when a problem is loaded does not matter for its plans.
PruningKeepsPlans == which = "load" => Load!PruningKeepsPlans

\* The successor generator finds the operators that apply, and no other.
GeneratorFindsApplicable == which = "load" => Load!GeneratorFindsApplicable

\* The operators that other agents are not told about are no concern of theirs.
PrivateOpsCommute == which = "load" => Load!PrivateOpsCommute

\* The problem that an agent may see is no harder than the whole one.
ProjectionIsOptimistic == which = "load" => Load!ProjectionIsOptimistic

\* A message says what it was made to say, wherever it goes.
SaysWhatWasSaid == which = "mail" => Mail!SaysWhatWasSaid
=============================================================================
