---------------------------- MODULE DockerProofs ----------------------------
(***************************************************************************)
(* What starts and stops containers.  First Cluster, for any number of     *)
(* lifecycles, fixtures, single nodes and services: a container is         *)
(* somebody's from the moment docker makes it to the moment it is removed; *)
(* what is handed on is which user covers it, and the invariant follows a  *)
(* command of docker compose through the services it has already dealt     *)
(* with.  Then ValidatorLifecycle, for any number of lifecycles and        *)
(* containers: the invariant says which containers a lifecycle may touch   *)
(* (Theirs), that no two lifecycles share one, and how far each command    *)
(* has brought its container; that one name admits one container at a time *)
(* (OneName) is what makes a handle impossible to lose by overwriting it.  *)
(* Last, how a with that is over comes to remove its container.            *)
(***************************************************************************)
EXTENDS Cluster, ValidatorLifecycle, FiniteSetTheorems, TLAPS

Types ==
    /\ phase \in [Users -> {"idle", "starting", "ready", "body", "stopping"}]
    /\ held \in [Users -> BOOLEAN] /\ at \in [Users -> 0..Last]
    /\ DOMAIN answered = Users
    /\ node \in [Boxes -> {"none", "created", "running", "exited"}]
    /\ DOMAIN project = Services
    /\ local \subseteq Singles

(* A command that failed is remembered, and who awaits, uses or stops      *)
(* nodes of a compose file has a handle.                                   *)
UserOK(u) ==
    /\ phase[u] \in {"starting", "stopping"} /\ at[u] = 0 => u \in left
    /\ u \in Compose /\ phase[u] \in {"ready", "body"} => held[u]
    /\ phase[u] = "stopping" => held[u]
    /\ u \notin ComposeLifecycles /\ phase[u] = "starting" => ~held[u]

(* The node of a single user: not there before docker run is through, and  *)
(* gone when docker stop is.                                               *)
There(u) == node[u] \in {"created", "running"}

SingleOK(u) ==
    /\ There(u) => held[u] \/ u \in left \/ (phase[u] = "starting" /\ at[u] = Last)
    /\ phase[u] = "starting" /\ at[u] \notin {0, Last} => node[u] = "none"
    /\ phase[u] = "stopping" /\ u \notin local /\ at[u] = Last => ~There(u)

(* User u answers for the container of service s: its command to start has *)
(* passed s, its command to stop has not, or it will be able to stop it.   *)
Covers(u, s) ==
    \/ phase[u] = "starting" /\ at[u] > s
    \/ phase[u] = "stopping" /\ at[u] \in 1..s
    \/ (phase[u] = "stopping" => at[u] = 0) /\ (held[u] \/ u \in left)

ServiceOK(s) ==
    node[s] # "none" => \E u \in Compose : Project(u) = project[s] /\ Covers(u, s)

(* What the command of a lifecycle has started is there.                   *)
Passed(u, s) == (phase[u] = "starting" /\ at[u] > s) \/ phase[u] \in {"ready", "body"}

LifecycleOK(u) ==
    /\ phase[u] = "body" => answered[u] = Ports(u)
    /\ u \notin lost => \A s \in Services :
          Passed(u, s) => project[s] = Project(u) /\ node[s] = "running"

IInv ==
    /\ Types
    /\ \A u \in Users : UserOK(u)
    /\ \A u \in Singles : SingleOK(u)
    /\ \A s \in Services : ServiceOK(s)
    /\ \A u \in ComposeLifecycles : LifecycleOK(u)

(* The services are numbered below Last.                                   *)
LEMMA Numbers ==
    /\ Last \in Nat /\ Last >= 2 /\ Services = 1..(Last - 1)
    /\ Compose \cap Singles = {} /\ Services \cap Singles = {}
    /\ ComposeLifecycles \subseteq Compose /\ Compose \subseteq Users /\ Singles \subseteq Users
  <1>1. Cardinality(Services) \in Nat
    BY ClusterAssumption, FS_CardinalityType DEF ClusterAssumption
  <1>2. Cardinality(Services) # 0
    BY ClusterAssumption, FS_EmptySet DEF ClusterAssumption
  <1> QED
    BY <1>1, <1>2, ClusterAssumption DEF ClusterAssumption, Last, Compose, Users

(* Which ports are awaited does not change.                                *)
LEMMA ConstantPorts == \A u : Ports(u)' = Ports(u)
  BY DEF Ports, LifecyclePorts, ClusterPorts

(* Nothing is there at first.                                              *)
LEMMA InitInv == ClusterInit => IInv
  <1> SUFFICES ASSUME ClusterInit PROVE IInv
    OBVIOUS
  <1>1. Types
    BY Numbers DEF ClusterInit, Types
  <1>2. \A u \in Users : UserOK(u)
    BY DEF ClusterInit, UserOK
  <1>3. \A u \in Singles : SingleOK(u)
    BY Numbers DEF ClusterInit, SingleOK, There, Boxes
  <1>4. \A s \in Services : ServiceOK(s)
    BY DEF ClusterInit, ServiceOK, Boxes
  <1>5. \A u \in ComposeLifecycles : LifecycleOK(u)
    BY Numbers DEF ClusterInit, LifecycleOK, Passed
  <1> QED
    BY <1>1, <1>2, <1>3, <1>4, <1>5 DEF IInv

-----------------------------------------------------------------------------
(* The steps of one user and of docker on its behalf.                      *)

StepOf(u) ==
    \/ StartNodes(u) \/ StartLocal(u) \/ UpFails(u) \/ Up(u) \/ NotReady(u)
    \/ StopNodes(u) \/ Down(u) \/ NoDocker(u) \/ StopLocal(u)
    \/ LaunchNode(u) \/ LaunchFails(u) \/ RemoveNode(u) \/ RemoveFails(u)
    \/ \E port \in Ports(u) : Poll(u, port)

(* What a step of u leaves alone: the other users, and whether a failure   *)
(* of theirs is remembered.                                                *)
Untouched(v) ==
    /\ phase'[v] = phase[v] /\ held'[v] = held[v] /\ at'[v] = at[v]
    /\ answered'[v] = answered[v]
    /\ v \in left => v \in left'
    /\ v \in local' <=> v \in local
    /\ v \in lost => v \in lost'

(* The frame of every step.                                                *)
LEMMA Frame ==
    ASSUME Types, NEW u \in Users, StepOf(u), NEW v \in Users, v # u
    PROVE  Untouched(v)
  <1> USE DEF Types, Untouched, Goto
  <1>1. CASE StartNodes(u) \/ StartLocal(u) \/ UpFails(u) \/ Up(u) \/ NotReady(u)
    BY <1>1 DEF StartNodes, StartLocal, UpFails, Up, NotReady
  <1>2. CASE StopNodes(u) \/ Down(u) \/ NoDocker(u) \/ StopLocal(u)
    BY <1>2 DEF StopNodes, Down, NoDocker, StopLocal
  <1>3. CASE LaunchNode(u) \/ LaunchFails(u) \/ RemoveNode(u) \/ RemoveFails(u)
    BY <1>3 DEF LaunchNode, LaunchFails, RemoveNode, RemoveFails, Advance
  <1>4. CASE \E port \in Ports(u) : Poll(u, port)
    BY <1>4 DEF Poll
  <1> QED
    BY <1>1, <1>2, <1>3, <1>4 DEF StepOf

(* Which containers a step can change.                                     *)
LEMMA BoxFrame ==
    ASSUME Types, NEW u \in Users, StepOf(u)
    PROVE  /\ u \in Singles => /\ project' = project
                               /\ \A x \in Boxes : x # u => node'[x] = node[x]
           /\ u \in Compose => \A x \in Singles : node'[x] = node[x]
  <1> USE Numbers DEF Types, Boxes
  <1>1. CASE StartNodes(u) \/ StartLocal(u) \/ UpFails(u) \/ Up(u) \/ NotReady(u)
    BY <1>1 DEF StartNodes, StartLocal, UpFails, Up, NotReady, nodes
  <1>2. CASE StopNodes(u) \/ Down(u) \/ NoDocker(u) \/ StopLocal(u)
    BY <1>2 DEF StopNodes, Down, NoDocker, StopLocal, nodes
  <1>3. CASE LaunchNode(u) \/ LaunchFails(u) \/ RemoveNode(u) \/ RemoveFails(u)
    <2>1. Target(u) \in Boxes /\ (u \in Singles => Target(u) = u)
          /\ (u \in Compose => Target(u) \in Services)
      BY <1>3 DEF Target, LaunchNode, LaunchFails, RemoveNode, RemoveFails, Working, Users
    <2> QED
      BY <1>3, <2>1 DEF LaunchNode, LaunchFails, RemoveNode, RemoveFails, nodes
  <1>4. CASE \E port \in Ports(u) : Poll(u, port)
    BY <1>4 DEF Poll, nodes
  <1> QED
    BY <1>1, <1>2, <1>3, <1>4 DEF StepOf

(* To go somewhere keeps the types.                                        *)
LEMMA GotoTypes ==
    ASSUME Types, NEW u \in Users, NEW where \in {"idle", "starting", "ready", "stopping"},
           Goto(u, where)
    PROVE  /\ phase' \in [Users -> {"idle", "starting", "ready", "body", "stopping"}]
           /\ at' \in [Users -> 0..Last] /\ DOMAIN answered' = Users
  <1>1. (IF where \in {"starting", "stopping"} THEN 1 ELSE 0) \in 0..Last
    BY Numbers
  <1> QED
    BY <1>1 DEF Types, Goto

(* A step of a user keeps the types.                                       *)
LEMMA StepTypes ==
    ASSUME IInv, NEW u \in Users, StepOf(u)
    PROVE  Types'
  <1> USE Numbers DEF IInv, Types, Boxes, nodes
  <1>1. CASE StartNodes(u) \/ StartLocal(u)
    BY <1>1, GotoTypes DEF StartNodes, StartLocal
  <1>2. CASE UpFails(u) \/ StopNodes(u)
    BY <1>2, GotoTypes DEF UpFails, StopNodes
  <1>3. CASE Up(u)
    <2>1. Handed(u) \in BOOLEAN
      BY DEF Handed
    <2> QED
      BY <1>3, <2>1, GotoTypes DEF Up
  <1>4. CASE NotReady(u) \/ NoDocker(u)
    <2>1. held' = [held EXCEPT ![u] = held[u] /\ u \notin Fixtures]
      BY <1>4 DEF NotReady, NoDocker
    <2>2. held' \in [Users -> BOOLEAN]
      BY <2>1
    <2> QED
      BY <1>4, <2>2, GotoTypes DEF NotReady, NoDocker
  <1>5. CASE Down(u) \/ StopLocal(u)
    BY <1>5, GotoTypes DEF Down, StopLocal
  <1>6. CASE LaunchNode(u) \/ LaunchFails(u) \/ RemoveNode(u) \/ RemoveFails(u)
    <2>1. at[u] \in 1..(Last - 1)
      BY <1>6 DEF LaunchNode, LaunchFails, RemoveNode, RemoveFails, Working
    <2>2. at' \in [Users -> 0..Last]
      BY <1>6, <2>1 DEF LaunchNode, LaunchFails, RemoveNode, RemoveFails, Advance
    <2> QED
      BY <1>6, <2>2 DEF LaunchNode, LaunchFails, RemoveNode, RemoveFails
  <1>7. CASE \E port \in Ports(u) : Poll(u, port)
    BY <1>7 DEF Poll
  <1> QED
    BY <1>1, <1>2, <1>3, <1>4, <1>5, <1>6, <1>7 DEF StepOf

(* A step of a user keeps what the invariant says of that user.            *)
LEMMA StepUser ==
    ASSUME IInv, NEW u \in Users, StepOf(u)
    PROVE  UserOK(u)'
  <1> USE Numbers DEF IInv, Types, UserOK, Goto, nodes
  <1>1. CASE StartNodes(u) \/ StartLocal(u) \/ UpFails(u) \/ NotReady(u)
    BY <1>1 DEF StartNodes, StartLocal, UpFails, NotReady
  <1>2. CASE Up(u)
    BY <1>2 DEF Up, Handed
  <1>3. CASE StopNodes(u) \/ Down(u) \/ NoDocker(u) \/ StopLocal(u)
    BY <1>3 DEF StopNodes, Down, NoDocker, StopLocal
  <1>4. CASE LaunchNode(u) \/ LaunchFails(u) \/ RemoveNode(u) \/ RemoveFails(u)
    BY <1>4 DEF LaunchNode, LaunchFails, RemoveNode, RemoveFails, Advance, Working
  <1>5. CASE \E port \in Ports(u) : Poll(u, port)
    BY <1>5 DEF Poll, Runs
  <1> QED
    BY <1>1, <1>2, <1>3, <1>4, <1>5 DEF StepOf

(* A step of a single user keeps what the invariant says of its node.      *)
LEMMA StepSingle ==
    ASSUME IInv, NEW u \in Singles, StepOf(u)
    PROVE  SingleOK(u)'
  <1> USE Numbers DEF IInv, Types, UserOK, SingleOK, There, Boxes, Goto, nodes, Runs
  <1>1. CASE StartNodes(u) \/ StartLocal(u)
    BY <1>1 DEF StartNodes, StartLocal
  <1>2. CASE UpFails(u) \/ NotReady(u) \/ StopNodes(u)
    BY <1>2 DEF UpFails, NotReady, StopNodes, Compose
  <1>3. CASE Up(u)
    BY <1>3 DEF Up, Handed
  <1>4. CASE Down(u)
    BY <1>4 DEF Down, Returned
  <1>5. CASE NoDocker(u)
    BY <1>5 DEF NoDocker, Compose
  <1>6. CASE StopLocal(u)
    BY <1>6 DEF StopLocal
  <1>7. CASE LaunchNode(u) \/ LaunchFails(u) \/ RemoveNode(u) \/ RemoveFails(u)
    <2>1. Target(u) = u /\ at[u] \in 1..(Last - 1) /\ u \notin Compose
      BY <1>7 DEF LaunchNode, LaunchFails, RemoveNode, RemoveFails, Working, Target
    <2> QED
      BY <1>7, <2>1 DEF LaunchNode, LaunchFails, RemoveNode, RemoveFails, Working, Advance
  <1>8. CASE \E port \in Ports(u) : Poll(u, port)
    BY <1>8 DEF Poll
  <1> QED
    BY <1>1, <1>2, <1>3, <1>4, <1>5, <1>6, <1>7, <1>8 DEF StepOf

(* A step of u on a container that it leaves alone keeps u's cover of it,  *)
(* but for a removal that passes it, which is not of u's project then.     *)
LEMMA CoverKept ==
    ASSUME IInv, NEW u \in Compose, StepOf(u), NEW s \in Services,
           node'[s] = node[s], node[s] # "none", project[s] = Project(u), Covers(u, s)
    PROVE  Covers(u, s)'
  <1> USE Numbers DEF IInv, Types, UserOK, Covers, Goto, nodes, Runs, Boxes
  <1>1. s \in Nat /\ s >= 1 /\ s < Last /\ u \notin Singles /\ u \in Users
    OBVIOUS
  <1>2. CASE StartNodes(u) \/ StartLocal(u) \/ UpFails(u) \/ NotReady(u)
    BY <1>1, <1>2 DEF StartNodes, StartLocal, UpFails, NotReady, Compose
  <1>3. CASE Up(u)
    BY <1>1, <1>3 DEF Up, Handed
  <1>4. CASE StopNodes(u)
    BY <1>1, <1>4 DEF StopNodes
  <1>5. CASE Down(u)
    BY <1>1, <1>5 DEF Down, Returned
  <1>6. CASE NoDocker(u)
    <2>1. at[u] = 1 /\ phase'[u] = "idle" /\ held'[u] = (held[u] /\ u \notin Fixtures)
      BY <1>1, <1>6 DEF NoDocker
    <2>2. CASE phase[u] = "starting"
      <3>1. held[u] \/ u \in left
        BY <1>1, <2>1, <2>2
      <3>2. held[u] => u \notin Fixtures
        BY <1>1, <2>2, ClusterAssumption DEF ClusterAssumption
      <3> QED
        BY <1>6, <2>1, <2>2, <3>1, <3>2 DEF NoDocker
    <2>3. CASE phase[u] = "stopping"
      <3>1. held[u] /\ (u \in Fixtures => u \in left')
        BY <1>1, <1>6, <2>3 DEF NoDocker
      <3> QED
        BY <2>1, <3>1
    <2> QED
      BY <1>6, <2>2, <2>3 DEF NoDocker
  <1>7. CASE StopLocal(u)
    BY <1>1, <1>7 DEF StopLocal
  <1>8. CASE LaunchNode(u) \/ LaunchFails(u) \/ RemoveFails(u)
    BY <1>1, <1>8 DEF LaunchNode, LaunchFails, RemoveFails, Working, Advance
  <1>9. CASE RemoveNode(u)
    <2>1. /\ phase[u] = "stopping" /\ phase' = phase /\ at'[u] = at[u] + 1
          /\ at[u] \in 1..(Last - 1)
          /\ at[u] \in 1..s
      BY <1>1, <1>9 DEF RemoveNode, Working, Advance
    <2>2. at[u] # s
      BY <1>1, <1>9, <2>1 DEF RemoveNode, Target
    <2> QED
      BY <1>1, <2>1, <2>2
  <1>10. CASE \E port \in Ports(u) : Poll(u, port)
    BY <1>1, <1>10 DEF Poll
  <1> QED
    BY <1>2, <1>3, <1>4, <1>5, <1>6, <1>7, <1>8, <1>9, <1>10 DEF StepOf

(* A container that is made, or changed, is covered by who did it.         *)
LEMMA CoverMade ==
    ASSUME IInv, NEW u \in Compose, StepOf(u), NEW s \in Services,
           node'[s] # node[s] \/ project'[s] # project[s], node'[s] # "none"
    PROVE  Covers(u, s)' /\ project'[s] = Project(u)
  <1> USE Numbers DEF IInv, Types, Goto, nodes, Boxes
  <1>1. u \notin Singles /\ u \in Users /\ s \in Nat
    OBVIOUS
  <1>2. LaunchNode(u) \/ LaunchFails(u)
    <2>1. ~RemoveNode(u)
      BY <1>1 DEF RemoveNode, Target, Working
    <2>2. node' # node \/ project' # project
      OBVIOUS
    <2> QED
      BY <1>1, <2>1, <2>2 DEF StepOf, StartNodes, StartLocal, UpFails, Up, NotReady,
                              StopNodes, Down, NoDocker,
         StopLocal, RemoveFails, Poll
  <1>3. CASE LaunchNode(u)
    BY <1>1, <1>3 DEF LaunchNode, Working, Target, Advance, Covers
  <1>4. CASE LaunchFails(u)
    BY <1>1, <1>4 DEF LaunchFails, Working, Target, Covers
  <1> QED
    BY <1>2, <1>3, <1>4

(* A step of a user leaves every container with somebody who covers it.    *)
LEMMA StepService ==
    ASSUME IInv, NEW u \in Users, StepOf(u), NEW s \in Services
    PROVE  ServiceOK(s)'
  <1> SUFFICES ASSUME node'[s] # "none"
               PROVE  \E v \in Compose : Project(v) = project'[s] /\ Covers(v, s)'
    BY DEF ServiceOK, Project
  <1> USE Numbers DEF IInv, Types
  <1>1. ASSUME NEW v \in Compose, v # u, Covers(v, s) PROVE Covers(v, s)'
    BY <1>1, Frame DEF Untouched, Covers
  <1>2. CASE node'[s] = node[s] /\ project'[s] = project[s]
    <2>1. PICK v \in Compose : Project(v) = project[s] /\ Covers(v, s)
      BY <1>2 DEF ServiceOK
    <2>2. Covers(v, s)'
      <3>1. CASE v # u
        BY <2>1, <3>1, <1>1
      <3>2. CASE v = u
        BY <1>2, <2>1, <3>2, CoverKept
      <3> QED
        BY <3>1, <3>2
    <2> QED
      BY <1>2, <2>1, <2>2
  <1>3. CASE ~(node'[s] = node[s] /\ project'[s] = project[s])
    <2>1. u \in Compose
      BY <1>3, BoxFrame DEF Users, Boxes
    <2> QED
      BY <1>3, <2>1, CoverMade
  <1> QED
    BY <1>2, <1>3

(* A step of a lifecycle keeps what it has started.                        *)
LEMMA StepOwn ==
    ASSUME IInv, NEW u \in ComposeLifecycles, StepOf(u)
    PROVE  LifecycleOK(u)'
  <1> USE Numbers DEF IInv, Types, LifecycleOK, Passed, Goto, nodes, Runs, Boxes
  <1>1. u \in Compose /\ u \notin Singles /\ u \in Users /\ Services \subseteq Nat
        /\ \A s \in Services : s >= 1 /\ s < Last
    OBVIOUS
  <1>2. CASE StartNodes(u) \/ UpFails(u) \/ NotReady(u)
    BY <1>1, <1>2 DEF StartNodes, UpFails, NotReady, Project
  <1>3. CASE Up(u)
    <2>1. /\ phase[u] = "starting" /\ at[u] = Last /\ nodes' = nodes /\ lost' = lost
          /\ phase'[u] = "ready"
      BY <1>1, <1>3 DEF Up, UpSucceeds, Returned
    <2> QED
      BY <1>1, <2>1 DEF Project
  <1>4. CASE StopNodes(u) \/ Down(u) \/ NoDocker(u) \/ StopLocal(u) \/ StartLocal(u)
    BY <1>1, <1>4 DEF StopNodes, Down, NoDocker, StopLocal, StartLocal
  <1>5. CASE LaunchNode(u)
    <2>1. phase' = phase /\ lost' = lost /\ at'[u] = at[u] + 1 /\ at[u] \in Services
          /\ phase[u] = "starting"
          /\ node' = [node EXCEPT ![at[u]] = "running"]
          /\ project' = [project EXCEPT ![at[u]] = Project(u)]
      BY <1>1, <1>5 DEF LaunchNode, Working, Target, Advance
    <2>2. \A s \in Services : at'[u] > s => at[u] > s \/ s = at[u]
      BY <1>1, <2>1
    <2> QED
      BY <1>1, <2>1, <2>2 DEF Project
  <1>6. CASE LaunchFails(u) \/ RemoveNode(u) \/ RemoveFails(u)
    BY <1>1, <1>6 DEF LaunchFails, RemoveNode, RemoveFails, Working
  <1>7. CASE \E port \in Ports(u) : Poll(u, port)
    <2>1. PICK port \in Ports(u) : Poll(u, port)
      BY <1>7
    <2>2. /\ phase[u] = "ready" /\ nodes' = nodes /\ lost' = lost
          /\ phase'[u] \in {"ready", "body"}
          /\ (phase'[u] = "body" => answered'[u] = Ports(u))
      BY <1>1, <2>1 DEF Poll
    <2>3. u \notin lost' => \A s \in Services : project'[s] = Project(u) /\ node'[s] = "running"
      BY <2>2
    <2> QED
      BY <2>2, <2>3, ConstantPorts DEF Project
  <1> QED
    BY <1>2, <1>3, <1>4, <1>5, <1>6, <1>7 DEF StepOf

(* A step of another user keeps it too, or notes that it did not.          *)
LEMMA StepOther ==
    ASSUME IInv, NEW u \in Users, StepOf(u), NEW v \in ComposeLifecycles, v # u
    PROVE  LifecycleOK(v)'
  <1> USE Numbers DEF IInv, Types, Boxes
  <1>1. v \in Users /\ v \in Compose /\ Untouched(v)
    BY Frame
  <1>2. phase'[v] = "body" => answered'[v] = Ports(v)
    BY <1>1 DEF Untouched, LifecycleOK
  <1>3. ASSUME v \notin lost', NEW s \in Services, Passed(v, s)'
        PROVE  project'[s] = Project(v) /\ node'[s] = "running"
    <2>1. project[s] = Project(v) /\ node[s] = "running" /\ v \in Using
      BY <1>1, <1>3 DEF Untouched, LifecycleOK, Passed, Using
    <2>2. CASE LaunchNode(u)
      BY <2>1, <2>2 DEF LaunchNode, Mine, Project
    <2>3. CASE LaunchFails(u)
      BY <2>1, <2>3 DEF LaunchFails, nodes
    <2>4. CASE RemoveNode(u)
      <3>1. CASE u \in ComposeLifecycles
        <4>1. project[Target(u)] # Project(u)
          BY <1>3, <2>1, <2>4, <3>1 DEF RemoveNode
        <4> QED
          BY <2>1, <2>4, <3>1, <4>1 DEF RemoveNode
      <3>2. CASE u \in Fixtures
        <4>1. Project(u) # Project(v)
          BY <3>2, ClusterAssumption DEF Project, ClusterAssumption
        <4> QED
          BY <2>1, <2>4, <3>2, <4>1 DEF RemoveNode, Compose
      <3>3. CASE u \in Singles
        BY <2>1, <2>4, <3>3, BoxFrame
      <3> QED
        BY <3>1, <3>2, <3>3 DEF Users, Compose
    <2>5. CASE StartNodes(u) \/ StartLocal(u) \/ StopLocal(u)
      BY <2>1, <2>5 DEF StartNodes, StartLocal, StopLocal
    <2>6. CASE ~LaunchNode(u) /\ ~LaunchFails(u) /\ ~RemoveNode(u)
               /\ ~(StartNodes(u) \/ StartLocal(u) \/ StopLocal(u))
      <3>1. node' = node /\ project' = project
        BY <2>6 DEF StepOf, UpFails, Up, NotReady, StopNodes, Down, NoDocker, RemoveFails,
                    Poll, nodes
      <3> QED
        BY <2>1, <3>1
    <2> QED
      BY <2>2, <2>3, <2>4, <2>5, <2>6
  <1> QED
    BY <1>2, <1>3, ConstantPorts DEF LifecycleOK, Project

(* Every step of a user keeps the invariant.                               *)
LEMMA StepInv == ASSUME IInv, NEW u \in Users, StepOf(u) PROVE IInv'
  <1> USE Numbers
  <1>1. Types /\ Types'
    BY StepTypes DEF IInv
  <1>2. ASSUME NEW v \in Users PROVE UserOK(v)'
    <2>1. CASE v = u
      BY <2>1, StepUser
    <2>2. CASE v # u
      BY <1>1, <2>2, Frame DEF IInv, UserOK, Untouched
    <2> QED
      BY <2>1, <2>2
  <1>3. ASSUME NEW v \in Singles PROVE SingleOK(v)'
    <2>1. CASE v = u
      BY <2>1, StepSingle
    <2>2. CASE v # u
      <3>1. node'[v] = node[v]
        BY <1>1, <2>2, BoxFrame DEF Users, Boxes
      <3>2. v \in Users /\ Untouched(v)
        BY <1>1, <2>2, Frame
      <3> QED
        BY <3>1, <3>2 DEF IInv, SingleOK, There, Untouched
    <2> QED
      BY <2>1, <2>2
  <1>4. ASSUME NEW s \in Services PROVE ServiceOK(s)'
    BY StepService
  <1>5. ASSUME NEW v \in ComposeLifecycles PROVE LifecycleOK(v)'
    BY StepOwn, StepOther
  <1> QED
    BY <1>1, <1>2, <1>3, <1>4, <1>5 DEF IInv, Users, Compose

(* A node that dies is brought back by docker, or has exited.              *)
LEMMA DieInv == ASSUME IInv, NEW x \in Boxes, NodeDies(x) PROVE IInv'
  <1> USE Numbers DEF IInv, Types, NodeDies, Boxes
  <1>1. Types'
    OBVIOUS
  <1>2. \A u \in Users : UserOK(u)'
    BY DEF UserOK
  <1>3. \A u \in Singles : SingleOK(u)'
    BY DEF SingleOK, There
  <1>4. \A s \in Services : node'[s] = node[s] /\ project'[s] = project[s]
    OBVIOUS
  <1>5. ASSUME NEW s \in Services PROVE ServiceOK(s)'
    <2>1. \A u \in Compose : Covers(u, s)' = Covers(u, s)
      BY DEF Covers
    <2> QED
      BY <1>4, <2>1 DEF ServiceOK, Project
  <1>6. ASSUME NEW u \in ComposeLifecycles PROVE LifecycleOK(u)'
    <2>1. /\ phase' = phase /\ answered' = answered /\ at' = at
          /\ u \notin lost' => u \notin lost
      OBVIOUS
    <2> QED
      BY <1>4, <2>1, ConstantPorts DEF LifecycleOK, Passed, Project
  <1> QED
    BY <1>1, <1>2, <1>3, <1>5, <1>6

(* Every step keeps the invariant.                                         *)
LEMMA NextInv == IInv /\ [ClusterNext]_clusterVars => IInv'
  <1> SUFFICES ASSUME IInv, [ClusterNext]_clusterVars PROVE IInv'
    OBVIOUS
  <1>1. CASE UNCHANGED clusterVars
    BY <1>1 DEF clusterVars, IInv, Types, UserOK, SingleOK, There, ServiceOK, Covers,
                LifecycleOK, Passed,
                Ports, Project
  <1> QED
    BY <1>1, StepInv, DieInv DEF ClusterNext, StepOf

(* The invariant holds in every reachable state.                           *)
THEOREM Invariance == ClusterSpec => []IInv
  BY InitInv, NextInv, PTL DEF ClusterSpec

(* No container and no node is left running behind everybody's back.       *)
THEOREM NothingIsForgotten == ClusterSpec => []NothingForgotten
  <1>1. IInv => NothingForgotten
    <2> SUFFICES ASSUME IInv PROVE NothingForgotten
      OBVIOUS
    <2> USE Numbers DEF IInv
    <2>1. ASSUME NEW s \in Services, node[s] # "none"
          PROVE  \E u \in Compose : Project(u) = project[s] /\ Responsible(u)
      BY <2>1 DEF ServiceOK, Covers, Responsible
    <2>2. ASSUME NEW u \in Singles, node[u] \in {"created", "running"}
          PROVE  Responsible(u)
      BY <2>2 DEF SingleOK, There, Responsible
    <2> QED
      BY <2>1, <2>2 DEF NothingForgotten
  <1> QED
    BY <1>1, Invariance, PTL

(* Who is in the body of a lifecycle has all its nodes, in its project.    *)
THEOREM BodyIsOwn == ClusterSpec => []BodyHasOwnNodes
  <1>1. IInv => BodyHasOwnNodes
    BY DEF IInv, LifecycleOK, Passed, BodyHasOwnNodes
  <1> QED
    BY <1>1, Invariance, PTL

-----------------------------------------------------------------------------
(* The validators of ValidatorLifecycle.                                   *)

OneName == \A c, d \in Containers : Exists(c) /\ Exists(d) => c = d

Fresh ==
    /\ \A c \in Containers : box[c] = "none" <=> c >= next
    /\ \A c \in stopped : c < next

Theirs(l) == ({process[l]} \cup (IF pc[l] = "run" THEN {handle[l]} ELSE {})) \ {0}

Apart == \A l, k \in Lifecycles : l # k => Theirs(l) \cap Theirs(k) = {}

Launching(l) ==
    pc[l] = "run" =>
        /\ cmd[l] = "sent" => handle[l] = 0
        /\ cmd[l] = "created" => handle[l] # 0 /\ box[handle[l]] = "created"
        /\ cmd[l] = "ok" => handle[l] # 0 /\ Exists(handle[l])
        /\ handle[l] \notin stopped

Holding(l) ==
    /\ pc[l] \in {"ready", "body", "stop", "rm"} => process[l] = handle[l] /\ handle[l] # 0
    /\ pc[l] \in {"ready", "stop"} => handle[l] \notin stopped
    /\ pc[l] = "rm" /\ cmd[l] = "ok" => box[handle[l]] = "removed" \/ handle[l] \in failed
    /\ process[l] # 0 /\ process[l] \notin stopped =>
          Exists(process[l]) \/ (pc[l] = "rm" /\ cmd[l] = "ok")

Own(l) == (\A c \in Theirs(l) : c < next) /\ Launching(l) /\ Holding(l)

LifeInv ==
    /\ TypeOK /\ OneName /\ Fresh /\ Apart /\ OwnedUnlessFailed
    /\ \A l \in Lifecycles : Own(l)

(* Nothing is created or owned at first.                                   *)
LEMMA LifeInit == Init => LifeInv
  <1> USE LifecycleAssumption
  <1> SUFFICES ASSUME Init PROVE LifeInv
    OBVIOUS
  <1>1. TypeOK
    BY DEF Init, TypeOK, Containers
  <1>2. OneName /\ Fresh /\ Apart /\ OwnedUnlessFailed
    BY DEF Init, OneName, Fresh, Apart, OwnedUnlessFailed, Exists, Theirs, Containers
  <1>3. \A l \in Lifecycles : Own(l)
    BY DEF Init, Own, Launching, Holding, Theirs
  <1> QED
    BY <1>1, <1>2, <1>3 DEF LifeInv

ClientStep(l) ==
    \/ Start(l) \/ RunFails(l) \/ RunReturns(l) \/ Ready(l) \/ ReadyRaises(l)
    \/ Stop(l) \/ StopHandle(l) \/ StopReturns(l) \/ RmReturns(l)

DockerStep(l) == Create(l) \/ Launch(l) \/ Halt(l) \/ Remove(l)

LifeUntouched(k) ==
    /\ pc'[k] = pc[k] /\ op'[k] = op[k] /\ process'[k] = process[k]
    /\ handle'[k] = handle[k] /\ cmd'[k] = cmd[k]

(* A step of one lifecycle leaves the fields of the others alone.          *)
LEMMA LifeFrame ==
  ASSUME TypeOK, NEW l \in Lifecycles, Step(l), NEW k \in Lifecycles, k # l
  PROVE  LifeUntouched(k)
  BY DEF TypeOK, Step, LifeUntouched, Start, RunFails, RunReturns, Ready, ReadyRaises, Stop,
         StopHandle, StopReturns, RmReturns, Create, Launch, Halt, Remove,
         Await, Run, AfterStop, StopProcess, Finish

(* A client step keeps the types.                                          *)
LEMMA ClientType ==
  ASSUME LifeInv, NEW l \in Lifecycles, ClientStep(l)
  PROVE  TypeOK'
  <1> USE DEF LifeInv, TypeOK, docker
  <1>1. CASE Start(l)
    BY <1>1 DEF Start, Run, Await
  <1>2. CASE RunFails(l)
    BY <1>2 DEF RunFails
  <1>3. CASE RunReturns(l)
    BY <1>3 DEF RunReturns
  <1>4. CASE Ready(l) \/ ReadyRaises(l)
    BY <1>4 DEF Ready, ReadyRaises
  <1>5. CASE Stop(l)
    BY <1>5 DEF Stop, StopProcess, AfterStop, Run, Await, MustStop
  <1>6. CASE StopHandle(l)
    BY <1>6 DEF StopHandle, Await
  <1>7. CASE StopReturns(l)
    BY <1>7 DEF StopReturns, Await
  <1>8. CASE RmReturns(l)
    BY <1>8 DEF RmReturns, AfterStop, Run, Await, Own, Holding
  <1> QED
    BY <1>1, <1>2, <1>3, <1>4, <1>5, <1>6, <1>7, <1>8 DEF ClientStep

(* A client step keeps what the invariant says of its own lifecycle, and   *)
(* makes it hold no container it did not hold before.                      *)
LEMMA ClientOwn ==
  ASSUME LifeInv, NEW l \in Lifecycles, ClientStep(l)
  PROVE  Own(l)' /\ Theirs(l)' \subseteq Theirs(l)
  <1>0. 0 \notin Containers
    BY LifecycleAssumption DEF Containers
  <1> USE <1>0 DEF LifeInv, TypeOK, docker, Own, Launching, Holding, Theirs, Exists
  <1>1. CASE Start(l)
    BY <1>1 DEF Start, Run, Await
  <1>2. CASE RunFails(l)
    BY <1>2 DEF RunFails
  <1>3. CASE RunReturns(l)
    <2>1. Theirs(l)' \subseteq Theirs(l) /\ Launching(l)'
      BY <1>3 DEF RunReturns
    <2>2. Holding(l)'
      BY <1>3 DEF RunReturns
    <2> QED
      BY <1>3, <2>1, <2>2 DEF RunReturns
  <1>4. CASE Ready(l) \/ ReadyRaises(l)
    BY <1>4 DEF Ready, ReadyRaises
  <1>5. CASE Stop(l)
    <2>1. Theirs(l)' \subseteq Theirs(l) /\ Launching(l)'
      BY <1>5 DEF Stop, StopProcess, AfterStop, Run, Await, MustStop
    <2>2. Holding(l)'
      BY <1>5 DEF Stop, StopProcess, AfterStop, Run, Await, MustStop
    <2> QED
      BY <1>5, <2>1, <2>2 DEF Stop, StopProcess, AfterStop, Run, Await, MustStop
  <1>6. CASE StopHandle(l)
    BY <1>6 DEF StopHandle, Await, MustStop
  <1>7. CASE StopReturns(l)
    BY <1>7 DEF StopReturns, Await
  <1>8. CASE RmReturns(l)
    <2>1. Theirs(l)' \subseteq Theirs(l) /\ Launching(l)'
      BY <1>8 DEF RmReturns, AfterStop, Run, Await
    <2>2. Holding(l)'
      BY <1>8 DEF RmReturns, AfterStop, Run, Await
    <2> QED
      BY <1>8, <2>1, <2>2 DEF RmReturns, AfterStop, Run, Await
  <1> QED
    BY <1>1, <1>2, <1>3, <1>4, <1>5, <1>6, <1>7, <1>8 DEF ClientStep

(* A client step cannot end the reasons for which a container is accounted *)
(* for: the handle that is dropped belongs to nothing that exists.         *)
LEMMA ClientOwned ==
  ASSUME LifeInv, NEW l \in Lifecycles, ClientStep(l)
  PROVE  OwnedUnlessFailed'
  <1> SUFFICES ASSUME NEW c \in Containers, Exists(c), c \notin failed'
               PROVE  \E k \in Lifecycles : process'[k] = c \/ (pc'[k] = "run" /\ handle'[k] = c)
    BY DEF OwnedUnlessFailed, ClientStep, Start, RunFails, RunReturns, Ready, ReadyRaises,
           Stop, StopHandle, StopReturns, RmReturns, docker, Exists
  <1>1. c \notin failed
    BY DEF ClientStep, Start, RunFails, RunReturns, Ready, ReadyRaises,
           Stop, StopHandle, StopReturns, RmReturns
  <1>2. PICK k \in Lifecycles : process[k] = c \/ (pc[k] = "run" /\ handle[k] = c)
    BY <1>1 DEF LifeInv, OwnedUnlessFailed
  <1>3. CASE k # l
    BY <1>2, <1>3, LifeFrame DEF LifeInv, LifeUntouched, Step, ClientStep
  <1>4. CASE k = l
    <2>0. 0 \notin Containers
      BY LifecycleAssumption DEF Containers
    <2> USE <1>1, <1>2, <1>4, <2>0 DEF LifeInv, TypeOK, Own, Launching, Holding, Exists
    <2>1. CASE Start(l)
      BY <2>1 DEF Start, Run, Await
    <2>2. CASE RunFails(l)
      BY <2>2 DEF RunFails
    <2>3. CASE RunReturns(l)
      BY <2>3 DEF RunReturns, OneName
    <2>4. CASE Ready(l) \/ ReadyRaises(l) \/ StopHandle(l) \/ StopReturns(l)
      BY <2>4 DEF Ready, ReadyRaises, StopHandle, StopReturns, Await
    <2>5. CASE Stop(l)
      BY <2>5 DEF Stop, StopProcess, AfterStop, Run, Await, MustStop
    <2>6. CASE RmReturns(l)
      BY <2>6 DEF RmReturns, AfterStop, Run, Await
    <2> QED
      BY <2>1, <2>2, <2>3, <2>4, <2>5, <2>6 DEF ClientStep
  <1> QED
    BY <1>3, <1>4

(* A client step keeps the invariant: what it marks as stopped is its own. *)
LEMMA ClientInv ==
  ASSUME LifeInv, NEW l \in Lifecycles, ClientStep(l)
  PROVE  LifeInv'
  <1>1. TypeOK' /\ OwnedUnlessFailed' /\ Own(l)' /\ Theirs(l)' \subseteq Theirs(l)
    BY ClientType, ClientOwn, ClientOwned
  <1>2. /\ UNCHANGED docker /\ failed \subseteq failed' /\ stopped \subseteq stopped'
        /\ stopped' \subseteq stopped \cup Theirs(l) /\ \A c \in Theirs(l) : c < next
    BY DEF LifeInv, Own, Holding, Theirs, ClientStep, Start, RunFails, RunReturns, Ready,
           ReadyRaises, Stop, StopHandle, StopReturns, RmReturns, docker
  <1>3. OneName' /\ Fresh'
    BY <1>2 DEF LifeInv, OneName, Fresh, Exists, docker
  <1>4. ASSUME NEW k \in Lifecycles, k # l
        PROVE  LifeUntouched(k) /\ Theirs(k)' = Theirs(k) /\ Own(k)'
    <2>1. LifeUntouched(k)
      BY <1>4, LifeFrame DEF LifeInv, Step, ClientStep
    <2>2. Theirs(k)' = Theirs(k) /\ Theirs(k) \cap Theirs(l) = {}
      BY <1>4, <2>1 DEF LifeUntouched, Theirs, LifeInv, Apart
    <2>3. Own(k)
      BY DEF LifeInv
    <2>4. 0 \notin stopped'
      BY <1>1, LifecycleAssumption DEF TypeOK, Containers
    <2>5. \A c \in Theirs(k) : c \notin stopped => c \notin stopped'
      BY <1>2, <2>2
    <2>6. Launching(k)'
      BY <1>2, <2>1, <2>3, <2>4, <2>5 DEF Own, Launching, Theirs, LifeUntouched, Exists, docker
    <2>7. Holding(k)'
      BY <1>2, <2>1, <2>3, <2>4, <2>5 DEF Own, Holding, Theirs, LifeUntouched, Exists, docker
    <2> QED
      BY <1>2, <2>1, <2>2, <2>3, <2>6, <2>7 DEF Own, docker
  <1>5. Apart'
    BY <1>1, <1>4 DEF LifeInv, Apart
  <1> QED
    BY <1>1, <1>3, <1>4, <1>5 DEF LifeInv

(* docker run, first half: the new container is nobody else's.             *)
LEMMA CreateInv ==
  ASSUME LifeInv, NEW l \in Lifecycles, Create(l)
  PROVE  LifeInv'
  <1> USE LifecycleAssumption
  <1>1. TypeOK'
    <2>1. \A c \in stopped : box'[c] = box[c]
      BY DEF LifeInv, TypeOK, Fresh, Create, docker, Containers
    <2>2. cmd' \in [Lifecycles -> {"sent", "created", "ok", "failed"}]
      BY DEF LifeInv, TypeOK, Create
    <2>3. /\ box' \in [Containers -> {"none", "created", "running", "exited", "removed"}]
          /\ handle' \in [Lifecycles -> Containers \cup {0}] /\ next' \in 1..(MaxContainers + 1)
      <3>1. CASE UNCHANGED <<box, next, handle>>
        BY <3>1 DEF LifeInv, TypeOK
      <3>2. CASE /\ next \in Containers /\ next' = next + 1
                 /\ box' = [box EXCEPT ![next] = "created"]
                 /\ handle' = [handle EXCEPT ![l] = next]
        BY <3>2 DEF LifeInv, TypeOK, Containers
      <3> QED
        BY <3>1, <3>2 DEF Create, docker
    <2> QED
      BY <2>1, <2>2, <2>3 DEF LifeInv, TypeOK, Create
  <1>2. /\ \A k \in Lifecycles : Own(k)
        /\ pc[l] = "run" /\ handle[l] = 0
        /\ UNCHANGED <<pc, op, process, stopped, failed>>
    BY DEF LifeInv, Own, Launching, Create
  <1>3. CASE UNCHANGED docker /\ cmd' = [cmd EXCEPT ![l] = "failed"] /\ UNCHANGED handle
    <2>1. OneName' /\ Fresh' /\ Apart' /\ OwnedUnlessFailed'
      BY <1>2, <1>3 DEF LifeInv, OneName, Fresh, Apart, Theirs, OwnedUnlessFailed, Exists,
                        docker
    <2>2. \A k \in Lifecycles : Own(k)'
      BY <1>2, <1>3 DEF LifeInv, TypeOK, Own, Launching, Holding, Theirs, Exists, docker
    <2> QED
      BY <1>1, <2>1, <2>2 DEF LifeInv
  <1>4. CASE /\ next \in Containers /\ \A c \in Containers : ~Exists(c)
             /\ box' = [box EXCEPT ![next] = "created"] /\ next' = next + 1
             /\ handle' = [handle EXCEPT ![l] = next]
             /\ cmd' = [cmd EXCEPT ![l] = "created"]
    <2>1. OneName' /\ Fresh'
      BY <1>2, <1>4 DEF LifeInv, TypeOK, OneName, Fresh, Exists, Containers
    <2>2. /\ Theirs(l)' = Theirs(l) \cup {next}
          /\ \A k \in Lifecycles : k # l => Theirs(k)' = Theirs(k)
      BY <1>2, <1>4 DEF LifeInv, TypeOK, Theirs, Containers
    <2>3. next \in Nat /\ \A k \in Lifecycles : \A c \in Theirs(k) : c # next
      BY <1>2, <1>4 DEF Own, Containers
    <2>4. Apart'
      BY <2>2, <2>3 DEF LifeInv, Apart
    <2>5. OwnedUnlessFailed'
      <3>1. \A c \in Containers : Exists(c)' => c = next
        BY <1>4 DEF LifeInv, TypeOK, Exists
      <3>2. pc'[l] = "run" /\ handle'[l] = next
        BY <1>2, <1>4 DEF LifeInv, TypeOK
      <3> QED
        BY <3>1, <3>2 DEF OwnedUnlessFailed
    <2>6. \A k \in Lifecycles : \A c \in Theirs(k)' : c < next'
      BY <1>2, <1>4, <2>2, <2>3 DEF LifeInv, TypeOK, Own, Theirs, Containers
    <2>7. Launching(l)'
      BY <1>2, <1>4 DEF LifeInv, TypeOK, Launching, Fresh, Containers
    <2>8. ASSUME NEW k \in Lifecycles, k # l PROVE Launching(k)'
      BY <1>2, <1>4, <2>3, <2>8 DEF LifeInv, TypeOK, Own, Launching, Theirs, Exists
    <2>9. ASSUME NEW k \in Lifecycles PROVE Holding(k)'
      BY <1>2, <1>4, <2>3 DEF LifeInv, TypeOK, Own, Holding, Theirs, Exists
    <2> QED
      BY <1>1, <2>1, <2>4, <2>5, <2>6, <2>7, <2>8, <2>9 DEF LifeInv, Own
  <1> QED
    BY <1>3, <1>4 DEF Create, ReservesName

(* docker run, second half, moves only the container of the coroutine.     *)
LEMMA LaunchInv ==
  ASSUME LifeInv, NEW l \in Lifecycles, Launch(l)
  PROVE  LifeInv'
  <1>1. /\ UNCHANGED <<pc, op, process, handle, stopped, next, failed>>
        /\ handle[l] \in Containers /\ box[handle[l]] = "created" /\ handle[l] \notin stopped
        /\ \/ UNCHANGED box \/ box' = [box EXCEPT ![handle[l]] = "running"]
        /\ cmd' \in [Lifecycles -> {"sent", "created", "ok", "failed"}]
        /\ cmd'[l] \in {"ok", "failed"} /\ pc[l] = "run"
        /\ \A k \in Lifecycles : k # l => cmd'[k] = cmd[k]
    BY DEF LifeInv, TypeOK, Own, Launching, Launch
  <1>2. /\ \A c \in Containers : Exists(c)' <=> Exists(c)
        /\ \A c \in Containers : c # handle[l] => box'[c] = box[c]
    BY <1>1 DEF LifeInv, TypeOK, Exists
  <1>3. TypeOK'
    BY <1>1 DEF LifeInv, TypeOK
  <1>4. OneName' /\ Fresh' /\ Apart' /\ OwnedUnlessFailed'
    <2>1. OneName' /\ Fresh'
      BY <1>1, <1>2 DEF LifeInv, TypeOK, OneName, Fresh
    <2>2. Apart'
      BY <1>1 DEF LifeInv, Apart, Theirs
    <2>3. OwnedUnlessFailed'
      BY <1>1, <1>2 DEF LifeInv, OwnedUnlessFailed
    <2> QED
      BY <2>1, <2>2, <2>3
  <1>5. ASSUME NEW k \in Lifecycles PROVE Own(k)'
    <2>1. Own(k) /\ k # l => handle[l] \notin Theirs(k) /\ Own(l)
      BY <1>1, LifecycleAssumption DEF LifeInv, Apart, Theirs, Containers
    <2>2. \A c \in Theirs(k)' : c < next'
      BY <1>1 DEF LifeInv, Own, Theirs
    <2>3. Launching(k)'
      BY <1>1, <1>2, <2>1, LifecycleAssumption
      DEF LifeInv, TypeOK, Own, Launching, Theirs, Exists, Containers
    <2>4. Holding(k)'
      BY <1>1, <1>2, <2>1, LifecycleAssumption
      DEF LifeInv, TypeOK, Own, Holding, Theirs, Exists, Containers
    <2> QED
      BY <2>2, <2>3, <2>4 DEF Own
  <1> QED
    BY <1>3, <1>4, <1>5 DEF LifeInv

(* docker stop, and a container that dies: it exists all the same.         *)
LEMMA ExitInv ==
  ASSUME LifeInv, (\E l \in Lifecycles : Halt(l)) \/ (\E c \in Containers : Die(c))
  PROVE  LifeInv'
  <1>1. /\ UNCHANGED <<pc, op, process, handle, stopped, next, failed>>
        /\ \/ UNCHANGED box
           \/ \E c \in Containers : box[c] = "running" /\ box' = [box EXCEPT ![c] = "exited"]
        /\ cmd' \in [Lifecycles -> {"sent", "created", "ok", "failed"}]
        /\ \A k \in Lifecycles : pc[k] # "stop" => cmd'[k] = cmd[k]
    BY DEF LifeInv, TypeOK, Own, Holding, Halt, Die, Finish
  <1>2. /\ \A c \in Containers : Exists(c)' <=> Exists(c)
        /\ \A c \in Containers : box[c] \in {"none", "created", "removed"} => box'[c] = box[c]
        /\ \A c \in Containers : box'[c] = "none" => box[c] = "none"
    BY <1>1 DEF LifeInv, TypeOK, Exists
  <1>3. TypeOK'
    BY <1>1 DEF LifeInv, TypeOK
  <1>4. OneName' /\ Fresh' /\ Apart' /\ OwnedUnlessFailed'
    BY <1>1, <1>2 DEF LifeInv, TypeOK, OneName, Fresh, Apart, Theirs, OwnedUnlessFailed
  <1>5. ASSUME NEW k \in Lifecycles PROVE Own(k)'
    BY <1>1, <1>2 DEF LifeInv, TypeOK, Own, Launching, Holding, Theirs
  <1> QED
    BY <1>3, <1>4, <1>5 DEF LifeInv

(* docker rm concerns the container of its caller, which no other has.     *)
LEMMA RemoveInv ==
  ASSUME LifeInv, NEW l \in Lifecycles, Remove(l)
  PROVE  LifeInv'
  <1>1. /\ UNCHANGED <<pc, op, process, handle, stopped, next>>
        /\ handle[l] \in Containers /\ handle[l] \in Theirs(l) /\ pc[l] = "rm"
        /\ \/ box' = [box EXCEPT ![handle[l]] = "removed"] /\ UNCHANGED failed
           \/ failed' = failed \cup {handle[l]} /\ UNCHANGED box
        /\ cmd' = [cmd EXCEPT ![l] = "ok"]
    BY DEF LifeInv, TypeOK, Own, Holding, Theirs, Remove, Finish
  <1>2. /\ \A c \in Containers : Exists(c)' => Exists(c)
        /\ \A c \in Containers : c # handle[l] => box'[c] = box[c]
        /\ box'[handle[l]] = "removed" \/ handle[l] \in failed'
        /\ failed \subseteq failed'
    BY <1>1 DEF LifeInv, TypeOK, Exists
  <1>3. TypeOK'
    BY <1>1 DEF LifeInv, TypeOK
  <1>4. box[handle[l]] # "none"
    BY <1>1, LifecycleAssumption DEF LifeInv, TypeOK, Own, Fresh, Containers
  <1>5. OneName' /\ Fresh' /\ Apart' /\ OwnedUnlessFailed'
    <2>1. OneName'
      BY <1>2 DEF LifeInv, OneName
    <2>2. Fresh'
      <3>1. \A c \in Containers : box'[c] = "none" <=> box[c] = "none"
        BY <1>1, <1>4 DEF LifeInv, TypeOK
      <3> QED
        BY <1>1, <3>1 DEF LifeInv, Fresh
    <2>3. Apart'
      BY <1>1 DEF LifeInv, Apart, Theirs
    <2>4. OwnedUnlessFailed'
      BY <1>1, <1>2 DEF LifeInv, OwnedUnlessFailed
    <2> QED
      BY <2>1, <2>2, <2>3, <2>4
  <1>6. ASSUME NEW k \in Lifecycles PROVE Own(k)'
    <2>1. k # l => handle[l] \notin Theirs(k)
      BY <1>1 DEF LifeInv, Apart
    <2>2. \A c \in Theirs(k)' : c < next'
      BY <1>1 DEF LifeInv, Own, Theirs
    <2>3. Launching(k)'
      BY <1>1, <1>2, <2>1, LifecycleAssumption
      DEF LifeInv, TypeOK, Own, Launching, Theirs, Exists, Containers
    <2>4. Holding(k)'
      BY <1>1, <1>2, <2>1, LifecycleAssumption
      DEF LifeInv, TypeOK, Own, Holding, Theirs, Exists, Containers
    <2> QED
      BY <2>2, <2>3, <2>4 DEF Own
  <1> QED
    BY <1>3, <1>5, <1>6 DEF LifeInv

(* Every step keeps the invariant.                                         *)
LEMMA LifeNext == LifeInv /\ [Next]_vars => LifeInv'
  <1> SUFFICES ASSUME LifeInv, [Next]_vars PROVE LifeInv'
    OBVIOUS
  <1>1. CASE \E l \in Lifecycles : Step(l)
    BY <1>1, ClientInv, CreateInv, LaunchInv, ExitInv, RemoveInv DEF Step, ClientStep
  <1>2. CASE \E c \in Containers : Die(c)
    BY <1>2, ExitInv
  <1>3. CASE UNCHANGED vars
    <2>1. TypeOK' /\ OneName' /\ Fresh' /\ Apart' /\ OwnedUnlessFailed'
      BY <1>3 DEF vars, docker, LifeInv, TypeOK, OneName, Fresh, Apart, OwnedUnlessFailed,
                  Theirs,
                  Exists
    <2>2. ASSUME NEW l \in Lifecycles PROVE Own(l)'
      BY <1>3 DEF vars, docker, LifeInv, Own, Launching, Holding, Theirs, Exists
    <2> QED
      BY <2>1, <2>2 DEF LifeInv
  <1> QED
    BY <1>1, <1>2, <1>3 DEF Next

(* The strengthened invariant holds in every reachable state.              *)
THEOREM LifecycleInvariance == Spec => []LifeInv
  BY LifeInit, LifeNext, PTL DEF Spec

(* The lifecycles keep their types, and a handle that says it is stopped   *)
(* belongs to a container that is gone or could not be removed.            *)
THEOREM TypeCorrect == Spec => []TypeOK
  <1>1. LifeInv => TypeOK
    BY DEF LifeInv
  <1> QED
    BY <1>1, LifecycleInvariance, PTL

(* No container is lost by its lifecycle unless docker failed on it.       *)
THEOREM NothingIsLost == Spec => []OwnedUnlessFailed
  <1>1. LifeInv => OwnedUnlessFailed
    BY DEF LifeInv
  <1> QED
    BY <1>1, LifecycleInvariance, PTL

(* The validator that a with statement found ready is its own.             *)
THEOREM ReadinessIsOwn == Spec => []ReadyIsOwn
  <1>1. LifeInv => ReadyIsOwn
    <2> SUFFICES ASSUME LifeInv, NEW l \in Lifecycles, pc[l] = "body", handle[l] \notin stopped,
                        NEW c \in Containers
                 PROVE  Exists(c) <=> c = handle[l]
      BY DEF ReadyIsOwn
    <2>1. Exists(handle[l]) /\ handle[l] \in Containers
      BY DEF LifeInv, TypeOK, Own, Holding
    <2> QED
      BY <2>1 DEF LifeInv, OneName
  <1> QED
    BY <1>1, LifecycleInvariance, PTL
-----------------------------------------------------------------------------
(* Cleaning up only goes on.                                               *)

Cleaned(c) == box[c] = "removed" \/ c \in failed

(* In the body of a with or on its way out, or stopping for another reason,*)
(* l still has container c to remove.                                      *)
Owes(l, c) == pc[l] \in {"body", "stop", "rm"} /\ handle[l] = c /\ ~Cleaned(c)

(* How many steps that takes at most.                                      *)
StepsToClean(l) ==
    IF pc[l] = "body" THEN 4
    ELSE IF pc[l] = "rm" THEN 1
    ELSE IF cmd[l] = "sent" THEN 3 ELSE 2

NoStep(l) == pc'[l] = pc[l] /\ cmd'[l] = cmd[l]

GoesOn(l, c) == Cleaned(c)' \/ (Owes(l, c)' /\ (NoStep(l) \/ StepsToClean(l)' < StepsToClean(l)))

(* What is removed, or could not be, stays so.                             *)
LEMMA CleanedStays ==
    ASSUME LifeInv, Next, NEW c \in Containers, Cleaned(c)
    PROVE  Cleaned(c)'
  <1>0. TypeOK
    BY DEF LifeInv
  <1>1. ASSUME NEW l \in Lifecycles, Create(l) PROVE Cleaned(c)'
    <2>1. next \in Containers => box[next] = "none"
      BY LifecycleAssumption DEF LifeInv, Fresh, TypeOK, Containers
    <2> QED
      BY <1>0, <1>1, <2>1 DEF Create, docker, TypeOK, Cleaned
  <1>2. ASSUME NEW l \in Lifecycles, Launch(l) PROVE Cleaned(c)'
    <2>1. box[handle[l]] = "created"
      BY <1>2 DEF Launch, LifeInv, Own, Launching
    <2> QED
      BY <1>0, <1>2, <2>1 DEF Launch, TypeOK, Cleaned
  <1>3. ASSUME NEW l \in Lifecycles, Halt(l) \/ Remove(l) PROVE Cleaned(c)'
    BY <1>0, <1>3 DEF Halt, Remove, TypeOK, Cleaned
  <1>4. ASSUME NEW l \in Lifecycles, ClientStep(l) PROVE Cleaned(c)'
    BY <1>4 DEF ClientStep, Start, RunFails, RunReturns, Ready, ReadyRaises, Stop, StopHandle,
                StopReturns, RmReturns, docker, Cleaned
  <1>5. ASSUME NEW d \in Containers, Die(d) PROVE Cleaned(c)'
    BY <1>0, <1>5 DEF Die, TypeOK, Cleaned
  <1> QED
    BY <1>1, <1>2, <1>3, <1>4, <1>5 DEF Next, Step, ClientStep

(* A step of l with a container to remove brings it nearer to that.        *)
LEMMA CleanUpStep ==
    ASSUME LifeInv, NEW l \in Lifecycles, NEW c \in Containers, Owes(l, c), Step(l)
    PROVE  GoesOn(l, c)
  <1> USE DEF GoesOn, Owes, StepsToClean
  <1>0. TypeOK /\ Holding(l) /\ c # 0 /\ c \notin stopped
    BY LifecycleAssumption DEF LifeInv, Own, TypeOK, Containers, Owes, Cleaned
  <1>1. CASE Stop(l)
    <2>1. pc[l] = "body" /\ process[l] = c
      BY <1>0, <1>1 DEF Stop, Holding
    <2>2. Await(l, "stop") /\ handle' = [handle EXCEPT ![l] = c] /\ UNCHANGED <<box, failed>>
      BY <1>0, <1>1, <2>1 DEF Stop, StopProcess, MustStop, docker
    <2> QED
      BY <1>0, <2>1, <2>2 DEF Await, TypeOK, Cleaned
  <1>2. CASE StopHandle(l)
    BY <1>0, <1>2 DEF StopHandle, Await, TypeOK, Cleaned, docker
  <1>3. CASE StopReturns(l)
    BY <1>0, <1>3 DEF StopReturns, Await, TypeOK, Cleaned, docker
  <1>4. CASE RmReturns(l)
    BY <1>0, <1>4 DEF RmReturns, Holding, Cleaned
  <1>5. CASE Halt(l)
    <2>1. /\ pc[l] = "stop" /\ cmd[l] = "sent" /\ cmd'[l] = "ok"
          /\ UNCHANGED <<pc, handle, failed>>
      BY <1>0, <1>5 DEF Halt, Finish, TypeOK
    <2>2. box'[c] = box[c] \/ box'[c] = "exited"
      BY <1>0, <1>5 DEF Halt, TypeOK
    <2> QED
      BY <2>1, <2>2 DEF Cleaned
  <1>6. CASE Remove(l)
    BY <1>0, <1>6 DEF Remove, TypeOK, Cleaned
  <1>7. ~(Start(l) \/ RunFails(l) \/ RunReturns(l) \/ Ready(l) \/ ReadyRaises(l))
    BY DEF Start, RunFails, RunReturns, Ready, ReadyRaises
  <1>8. ~(Create(l) \/ Launch(l))
    BY DEF Create, Launch
  <1> QED
    BY <1>1, <1>2, <1>3, <1>4, <1>5, <1>6, <1>7, <1>8 DEF Step

(* Once the body of a with has begun, its lifecycle (__aexit__ and stop of *)
(* lifecycle.py) has at most four steps to the removal of its container,   *)
(* takes no others, and is not led away from it by the body, the death of  *)
(* the container or another lifecycle; what is cleaned up stays so.  What  *)
(* BodyCleansUp asks beyond this is that docker and the body come to an    *)
(* end.                                                                    *)
THEOREM CleanUpOnlyAdvances ==
    Spec => [][\A l \in Lifecycles, c \in Containers :
                  /\ Cleaned(c) => Cleaned(c)'
                  /\ Owes(l, c) => GoesOn(l, c)]_vars
  <1>1. LifeInv /\ [Next]_vars
        => [\A l \in Lifecycles, c \in Containers :
               /\ Cleaned(c) => Cleaned(c)'
               /\ Owes(l, c) => GoesOn(l, c)]_vars
    <2> SUFFICES ASSUME LifeInv, Next, NEW l \in Lifecycles, NEW c \in Containers, Owes(l, c)
                 PROVE  GoesOn(l, c)
      BY CleanedStays
    <2>1. CASE Step(l)
      BY <2>1, CleanUpStep
    <2>2. ASSUME NEW k \in Lifecycles, k # l, Step(k) PROVE GoesOn(l, c)
      <3>1. LifeUntouched(l)
        BY <2>2, LifeFrame DEF LifeInv
      <3> QED
        BY <3>1 DEF LifeUntouched, GoesOn, Owes, NoStep
    <2>3. ASSUME NEW d \in Containers, Die(d) PROVE GoesOn(l, c)
      BY <2>3 DEF Die, GoesOn, Owes, NoStep
    <2> QED
      BY <2>1, <2>2, <2>3 DEF Next
  <1> QED
    BY <1>1, LifecycleInvariance, PTL DEF Spec
=============================================================================
