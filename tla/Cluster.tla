------------------------------- MODULE Cluster -------------------------------
(***************************************************************************)
(* node.py and the ComposeLifecycle of lifecycle.py: users in one event    *)
(* loop start, await, use and stop nodes.  A lifecycle is a                *)
(* ComposeLifecycle, entered with a with or started and stopped; a fixture *)
(* is NodeManager.start_cluster as in tests/integration/conftest.py; the   *)
(* others hold one node, of docker run or a local process.  The clusters   *)
(* come from one compose file, which fixes container names and ports, so   *)
(* that a service has at most one container, of one project.  Docker is    *)
(* external, fails at any step, and a node may die at any time.            *)
(***************************************************************************)
EXTENDS Integers, FiniteSets

CONSTANTS
    ComposeLifecycles, Fixtures, Singles,  \* the users, by kind
    Services,      \* the services of the compose file: 1..n
    NodesOf(_),    \* the parameter nodes of a lifecycle or a fixture
    RpcPort(_)     \* the parameter rpc_port of the others

ASSUME ClusterAssumption ==
    /\ IsFiniteSet(Services) /\ Services # {} /\ Services = 1..Cardinality(Services)
    /\ Services \cap Singles = {}
    /\ ComposeLifecycles \cap Fixtures = {}
    /\ (ComposeLifecycles \cup Fixtures) \cap Singles = {}

VARIABLES
    phase,        \* idle, starting, ready (being awaited), body, stopping
    held,      \* _started of a lifecycle; of the others: is there a handle
    local,     \* singles whose node is a process
    answered,  \* answered[u]: the ports that answered the wait of u
    at,        \* at[u]: how far the command of u has got; 0: it failed
    node,       \* by service or single node: none, created, running, exited
    project,   \* project[s]: whose the container of service s is
    \* History.
    lost,      \* lifecycles one of whose nodes died or was removed since the start
    left       \* users a docker command failed for, and no later stop cleaned up

clusterVars == <<phase, held, local, answered, at, node, project, lost, left>>
nodes == <<node, project>>

Compose == ComposeLifecycles \cup Fixtures
Users == Compose \cup Singles
Last == Cardinality(Services) + 1

(* docker compose -p karstflow-test; without -p the name of the directory. *)
Project(u) == IF u \in ComposeLifecycles THEN "karstflow-test" ELSE "karstflow-tests"

(* The ports that are awaited and those docker-compose.yml publishes.      *)
LifecyclePorts(u) == {8899 + 10 * i : i \in 0..(NodesOf(u) - 1)}
ClusterPorts(u) == {8899 + 100 * i : i \in 0..(NodesOf(u) - 1)}
Ports(u) ==
    IF u \in Singles THEN {RpcPort(u)}
    ELSE IF u \in ComposeLifecycles THEN LifecyclePorts(u) ELSE ClusterPorts(u)
Published(x) == IF x \in Services THEN 8799 + 100 * x ELSE RpcPort(x)

Boxes == Services \cup Singles
Answers(port) == \E x \in Boxes : node[x] = "running" /\ Published(x) = port

ClusterInit ==
    /\ phase = [u \in Users |-> "idle"] /\ held = [u \in Users |-> FALSE]
    /\ answered = [u \in Users |-> {}] /\ at = [u \in Users |-> 0]
    /\ node = [x \in Boxes |-> "none"] /\ project = [s \in Services |-> "none"]
    /\ local = {} /\ lost = {} /\ left = {}

-----------------------------------------------------------------------------
(* The users.  process.wait(timeout=10) in NodeHandle.stop blocks the loop *)
(* and everybody in it.                                                    *)

Blocked == \E u \in local : phase[u] = "stopping"
Runs(u, where) == phase[u] = where /\ ~Blocked
Goto(u, where) ==
    /\ phase' = [phase EXCEPT ![u] = where]
    /\ at' = [at EXCEPT ![u] = IF where \in {"starting", "stopping"} THEN 1 ELSE 0]
    /\ answered' = [answered EXCEPT ![u] = {}]

(* ComposeLifecycle.start, start_cluster and start_docker send a command.  *)
StartNodes(u) ==
    /\ Runs(u, "idle") /\ (u \in ComposeLifecycles \/ ~held[u])
    /\ u \in Singles => node[u] \in {"none", "exited"}
    /\ Goto(u, "starting")
    /\ node' = IF u \in Singles THEN [node EXCEPT ![u] = "none"] ELSE node
    /\ lost' = lost \ {u} /\ left' = IF u \in Singles THEN left \ {u} ELSE left
    /\ UNCHANGED <<held, local, project>>

(* Popen returns at once, whatever becomes of the process.                 *)
StartLocal(u) ==
    /\ u \in Singles /\ Runs(u, "idle") /\ node[u] \in {"none", "exited"} /\ ~held[u]
    /\ Goto(u, "ready") /\ held' = [held EXCEPT ![u] = TRUE] /\ local' = local \cup {u}
    /\ node' = [node EXCEPT ![u] = IF Answers(RpcPort(u)) THEN "exited" ELSE "running"]
    /\ UNCHANGED <<project, lost, left>>

Returned(u) == at[u] \in {0, Last}

(* Only the lifecycle looks at the exit code; the docker node keeps the    *)
(* output of docker run, which is an id as soon as there is a container.   *)
UpFails(u) ==
    /\ u \in ComposeLifecycles /\ Runs(u, "starting") /\ at[u] = 0
    /\ Goto(u, "idle")
    /\ UNCHANGED <<held, local, nodes, lost, left>>

(* Mutation: _started is set at the end of the wait.                       *)
HandedLate(u) == u \notin ComposeLifecycles /\ (u \in Singles => node[u] # "none")
Handed(u) == u \in Singles => node[u] # "none"

(* Mutation: the exit code of docker compose up is ignored.                *)
UpSucceedsUnchecked(u) == Returned(u)
UpSucceeds(u) == Returned(u) /\ (u \in ComposeLifecycles => at[u] # 0)

Up(u) ==
    /\ Runs(u, "starting") /\ UpSucceeds(u)
    /\ Goto(u, "ready") /\ held' = [held EXCEPT ![u] = Handed(u)]
    /\ UNCHANGED <<local, nodes, lost, left>>

(* gather over wait_for_health of every node: all of them must answer, and *)
(* the last answer begins the body.                                        *)
Poll(u, port) ==
    /\ Runs(u, "ready") /\ port \in Ports(u) \ answered[u] /\ Answers(port)
    /\ answered' = [answered EXCEPT ![u] = @ \cup {port}]
    /\ phase' = [phase EXCEPT ![u] = IF answered'[u] = Ports(u) THEN "body" ELSE "ready"]
    /\ UNCHANGED <<held, local, at, nodes, lost, left>>

(* It raises out of __aenter__, so that there is no __aexit__, and out of  *)
(* the fixture before its yield, so that the handle is lost.               *)
NotReady(u) ==
    /\ Runs(u, "ready")
    /\ Goto(u, "idle")
    /\ left' = IF u \in Fixtures THEN left \cup {u} ELSE left
    /\ held' = [held EXCEPT ![u] = @ /\ u \notin Fixtures]
    /\ UNCHANGED <<local, nodes, lost>>

(* __aexit__, the end of the fixture, or a call of stop, which does        *)
(* nothing without _started, a process or a container id.                  *)
StopNodes(u) ==
    /\ Runs(u, "body") \/ (u \notin Fixtures /\ Runs(u, "idle"))
    /\ Goto(u, IF held[u] THEN "stopping" ELSE "idle")
    /\ UNCHANGED <<held, local, nodes, lost, left>>

(* No exit code is looked at.                                              *)
Down(u) ==
    /\ u \notin local /\ Runs(u, "stopping") /\ Returned(u)
    /\ Goto(u, "idle") /\ held' = [held EXCEPT ![u] = FALSE]
    /\ left' = IF at[u] = Last THEN left \ {u} ELSE left
    /\ UNCHANGED <<local, nodes, lost>>

(* The docker command cannot be run: FileNotFoundError.                    *)
NoDocker(u) ==
    /\ u \notin local /\ (Runs(u, "starting") \/ Runs(u, "stopping")) /\ at[u] = 1
    /\ Goto(u, "idle")
    /\ left' = IF phase[u] = "stopping" /\ u \in Fixtures THEN left \cup {u} ELSE left
    /\ held' = [held EXCEPT ![u] = @ /\ u \notin Fixtures]
    /\ UNCHANGED <<local, nodes, lost>>

(* terminate and wait, or kill after ten seconds.                          *)
StopLocal(u) ==
    /\ u \in local /\ phase[u] = "stopping"
    /\ Goto(u, "idle") /\ held' = [held EXCEPT ![u] = FALSE]
    /\ node' = [node EXCEPT ![u] = "exited"]
    /\ local' = local \ {u}
    /\ UNCHANGED <<project, lost, left>>

-----------------------------------------------------------------------------
(* Docker.                                                                 *)

Working(u, where) == phase[u] = where /\ at[u] \in 1..(Last - 1)
Advance(u) == at' = [at EXCEPT ![u] = IF u \in Compose THEN @ + 1 ELSE Last]
Target(u) == IF u \in Compose THEN at[u] ELSE u

(* A container of another project with this name is a conflict.            *)
Mine(u, x) == u \in Compose => project[x] \in {"none", Project(u)}

Using == {u \in ComposeLifecycles : phase[u] \in {"starting", "ready", "body"}}

LaunchNode(u) ==
    LET x == Target(u) IN
    /\ Working(u, "starting") /\ Mine(u, x)
    /\ node[x] = "running" \/ ~Answers(Published(x))
    /\ Advance(u)
    /\ node' = [node EXCEPT ![x] = "running"]
    /\ project' = IF u \in Compose THEN [project EXCEPT ![x] = Project(u)] ELSE project
    /\ UNCHANGED <<phase, held, local, answered, lost, left>>

(* Before or after the container is there: the image, the port, the memory.*)
LaunchFails(u) ==
    LET x == Target(u) IN
    /\ Working(u, "starting") /\ at' = [at EXCEPT ![u] = 0]
    /\ \/ UNCHANGED nodes
       \/ /\ node[x] = "none" /\ node' = [node EXCEPT ![x] = "created"]
          /\ project' = IF u \in Compose THEN [project EXCEPT ![x] = Project(u)] ELSE project
    /\ left' = left \cup {u}
    /\ UNCHANGED <<phase, held, local, answered, lost>>

(* down removes, stop does not; what is not of the project is not touched. *)
RemoveNode(u) ==
    LET x == Target(u)
        hit == u \in Singles \/ project[x] = Project(u)
    IN
    /\ Working(u, "stopping") /\ u \notin local /\ Advance(u)
    /\ node' = IF hit THEN [node EXCEPT ![x] = IF u \in Compose THEN "none" ELSE "exited"] ELSE node
    /\ project' = IF hit /\ u \in Compose THEN [project EXCEPT ![x] = "none"] ELSE project
    /\ lost' = IF hit /\ u \in ComposeLifecycles THEN lost \cup Using ELSE lost
    /\ UNCHANGED <<phase, held, local, answered, left>>

RemoveFails(u) ==
    /\ Working(u, "stopping") /\ u \notin local
    /\ at' = [at EXCEPT ![u] = 0] /\ left' = left \cup {u}
    /\ UNCHANGED <<phase, held, local, answered, nodes, lost>>

(* restart: unless-stopped brings the container of a service back.         *)
NodeDies(x) ==
    /\ node[x] = "running"
    /\ node' = IF x \in Services THEN node ELSE [node EXCEPT ![x] = "exited"]
    /\ lost' = IF x \in Services /\ project[x] = "karstflow-test" THEN lost \cup Using ELSE lost
    /\ UNCHANGED <<phase, held, local, answered, at, project, left>>

ClusterNext ==
    \/ \E u \in Users :
          \/ StartNodes(u) \/ StartLocal(u) \/ UpFails(u) \/ Up(u) \/ NotReady(u)
          \/ StopNodes(u) \/ Down(u) \/ NoDocker(u) \/ StopLocal(u)
          \/ LaunchNode(u) \/ LaunchFails(u) \/ RemoveNode(u) \/ RemoveFails(u)
          \/ \E port \in Ports(u) : Poll(u, port)
    \/ \E x \in Boxes : NodeDies(x)

ClusterSpec == ClusterInit /\ [][ClusterNext]_clusterVars

-----------------------------------------------------------------------------
(* Properties.                                                             *)

(* lifecycle.py:245 and node.py:36: nothing is left running behind the     *)
(* user's back.  A container of the cluster, or a node, that exists is     *)
(* being started or used or stopped, or there is a handle or a _started    *)
(* with which stop() finds it, or a docker command failed for one of its   *)
(* users or the wait of the fixture did.                                   *)
Responsible(u) == phase[u] # "idle" \/ held[u] \/ u \in left

NothingForgotten ==
    /\ \A s \in Services : node[s] # "none" =>
          \E u \in Compose : Project(u) = project[s] /\ Responsible(u)
    /\ \A u \in Singles : node[u] \in {"created", "running"} => Responsible(u)

(* lifecycle.py:226 checks the exit code of docker compose up: who is in   *)
(* the body of a lifecycle has all its nodes running in its own project    *)
(* unless one died or was removed by another lifecycle of the project      *)
(* after the start, and every port it was given was seen to answer.  (A    *)
(* fixture, which ignores the code, may well use somebody else's cluster.) *)
BodyHasOwnNodes ==
    \A u \in ComposeLifecycles : phase[u] = "body" =>
        /\ answered[u] = Ports(u)
        /\ u \notin lost => \A s \in Services : project[s] = Project(u) /\ node[s] = "running"
=============================================================================
