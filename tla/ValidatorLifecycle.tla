------------------------- MODULE ValidatorLifecycle -------------------------
(***************************************************************************)
(* ValidatorLifecycle and ValidatorProcess of lifecycle.py.  Several        *)
(* lifecycles with the same configuration, one coroutine each (the session *)
(* fixtures of parallel workers), start, stop, restart and enter their     *)
(* validators; all of them name their container after the same RPC port.   *)
(* A docker command is awaited for while docker, which is external, works  *)
(* through it: any step of it may fail, and a container may die.           *)
(***************************************************************************)
EXTENDS Integers

CONSTANTS
    Lifecycles,      \* the lifecycle objects, with one coroutine each
    MaxContainers    \* bound: containers docker creates in all

ASSUME LifecycleAssumption == MaxContainers \in Nat

VARIABLES
    pc,        \* idle, run, ready, body, stop, rm: what the coroutine awaits
    op,        \* start, stop, restart, enter, exit (of a with), handle (a call
               \* of stop on the handle inside the with)
    process,   \* process[l]: _process, as a container id, or 0
    handle,    \* handle[l]: the container its current docker command is about,
               \* in the body of a with the one whose handle was returned
    stopped,   \* containers whose handle has _stopped set
    cmd,       \* cmd[l]: sent, created, ok, failed: how far docker has got
    box,       \* box[c]: none, created, running, exited, removed
    next,      \* the next container id
    failed     \* containers docker failed to launch or to remove

vars == <<pc, op, process, handle, stopped, cmd, box, next, failed>>
docker == <<box, next>>

Containers == 1..MaxContainers
Exists(c) == box[c] \in {"created", "running", "exited"}

Init ==
    /\ pc = [l \in Lifecycles |-> "idle"]
    /\ op = [l \in Lifecycles |-> "start"]
    /\ process = [l \in Lifecycles |-> 0]
    /\ handle = [l \in Lifecycles |-> 0]
    /\ stopped = {}
    /\ cmd = [l \in Lifecycles |-> "sent"]
    /\ box = [c \in Containers |-> "none"]
    /\ next = 1
    /\ failed = {}

-----------------------------------------------------------------------------
(* The coroutines.                                                         *)

Await(l, what) ==
    /\ pc' = [pc EXCEPT ![l] = what]
    /\ cmd' = [cmd EXCEPT ![l] = "sent"]

Run(l) == Await(l, "run") /\ handle' = [handle EXCEPT ![l] = 0]

(* start(), and __aenter__, which begins with it.                          *)
Start(l) ==
    /\ pc[l] = "idle"
    /\ \E o \in {"start", "enter"} : op' = [op EXCEPT ![l] = o]
    /\ Run(l)
    /\ UNCHANGED <<process, stopped, docker, failed>>

(* A non-zero exit code raises; _process keeps what it had.                *)
RunFails(l) ==
    /\ pc[l] = "run" /\ cmd[l] = "failed"
    /\ pc' = [pc EXCEPT ![l] = "idle"]
    /\ failed' = failed \cup ({handle[l]} \ {0})
    /\ UNCHANGED <<op, process, handle, stopped, cmd, docker>>

RunReturns(l) ==
    /\ pc[l] = "run" /\ cmd[l] = "ok"
    /\ process' = [process EXCEPT ![l] = handle[l]]
    /\ pc' = [pc EXCEPT ![l] = IF op[l] = "enter" THEN "ready" ELSE "idle"]
    /\ UNCHANGED <<op, handle, stopped, cmd, docker, failed>>

(* wait_ready polls the published port, whoever answers there (Wait).      *)
Ready(l) ==
    /\ pc[l] = "ready" /\ \E c \in Containers : box[c] = "running"
    /\ pc' = [pc EXCEPT ![l] = "body"]
    /\ UNCHANGED <<op, process, handle, stopped, cmd, docker, failed>>

(* An exception in __aenter__: __aexit__ is not called.                    *)
ReadyRaises(l) ==
    /\ pc[l] = "ready"
    /\ pc' = [pc EXCEPT ![l] = "idle"]
    /\ UNCHANGED <<op, process, handle, stopped, cmd, docker, failed>>

(* What follows once stop() has cleared _process.                          *)
AfterStop(l) ==
    /\ process' = [process EXCEPT ![l] = 0]
    /\ IF op'[l] = "restart"
         THEN Run(l)
         ELSE pc' = [pc EXCEPT ![l] = "idle"] /\ UNCHANGED <<handle, cmd>>

(* Mutation: the check of _stopped inverted.                               *)
MustStopNot(c) == c # 0 /\ c \in stopped
MustStop(c) == c # 0 /\ c \notin stopped

StopProcess(l) ==
    IF MustStop(process[l])
      THEN /\ Await(l, "stop") /\ handle' = [handle EXCEPT ![l] = process[l]]
           /\ UNCHANGED process
      ELSE AfterStop(l)

(* stop(), restart(), and __aexit__ when the body is over.                 *)
Stop(l) ==
    /\ \/ pc[l] = "idle" /\ \E o \in {"stop", "restart"} : op' = [op EXCEPT ![l] = o]
       \/ pc[l] = "body" /\ op' = [op EXCEPT ![l] = "exit"]
    /\ StopProcess(l)
    /\ UNCHANGED <<stopped, docker, failed>>

(* The body of a with stops the validator through its handle.              *)
StopHandle(l) ==
    /\ pc[l] = "body" /\ MustStop(handle[l])
    /\ op' = [op EXCEPT ![l] = "handle"]
    /\ Await(l, "stop")
    /\ UNCHANGED <<process, handle, stopped, docker, failed>>

(* Mutation: the container is stopped and left behind.                     *)
StopReturnsAlone(l) ==
    /\ pc[l] = "stop" /\ cmd[l] = "ok"
    /\ stopped' = stopped \cup {handle[l]}
    /\ IF op[l] = "handle"
         THEN pc' = [pc EXCEPT ![l] = "body"] /\ UNCHANGED <<op, process, handle, cmd>>
         ELSE UNCHANGED op /\ AfterStop(l)
    /\ UNCHANGED <<docker, failed>>

(* docker stop is over; its exit code is not looked at.                    *)
StopReturns(l) ==
    /\ pc[l] = "stop" /\ cmd[l] = "ok"
    /\ Await(l, "rm")
    /\ UNCHANGED <<op, process, handle, stopped, docker, failed>>

RmReturns(l) ==
    /\ pc[l] = "rm" /\ cmd[l] = "ok"
    /\ stopped' = stopped \cup {handle[l]}
    /\ IF op[l] = "handle"
         THEN pc' = [pc EXCEPT ![l] = "body"] /\ UNCHANGED <<op, process, handle, cmd>>
         ELSE UNCHANGED op /\ AfterStop(l)
    /\ UNCHANGED <<docker, failed>>

-----------------------------------------------------------------------------
(* Docker.                                                                 *)

(* Mutation: no --name, as in NodeManager.start_docker.                    *)
ReservesNothing(c) == FALSE
(* --name karstflow-test-<port>: a container keeps the name until removed. *)
ReservesName(c) == Exists(c)

Create(l) ==
    /\ pc[l] = "run" /\ cmd[l] = "sent"
    /\ \/ /\ next \in Containers /\ \A c \in Containers : ~ReservesName(c)
          /\ box' = [box EXCEPT ![next] = "created"] /\ next' = next + 1
          /\ handle' = [handle EXCEPT ![l] = next]
          /\ cmd' = [cmd EXCEPT ![l] = "created"]
       \/ cmd' = [cmd EXCEPT ![l] = "failed"] /\ UNCHANGED <<docker, handle>>
    /\ UNCHANGED <<pc, op, process, stopped, failed>>

(* The published port may be taken, by a container or by something else:   *)
(* then the container stays, created and never started.                    *)
Launch(l) ==
    /\ pc[l] = "run" /\ cmd[l] = "created"
    /\ \/ /\ \A c \in Containers : box[c] # "running"
          /\ box' = [box EXCEPT ![handle[l]] = "running"]
          /\ cmd' = [cmd EXCEPT ![l] = "ok"]
       \/ cmd' = [cmd EXCEPT ![l] = "failed"] /\ UNCHANGED box
    /\ UNCHANGED <<pc, op, process, handle, stopped, next, failed>>

Finish(l) == cmd' = [cmd EXCEPT ![l] = "ok"]

(* docker stop reaches the container, or fails.                            *)
Halt(l) ==
    /\ pc[l] = "stop" /\ cmd[l] = "sent"
    /\ Finish(l)
    /\ \/ box[handle[l]] = "running" /\ box' = [box EXCEPT ![handle[l]] = "exited"]
       \/ UNCHANGED box
    /\ UNCHANGED <<pc, op, process, handle, stopped, next, failed>>

(* docker rm -f removes it, or fails.                                      *)
Remove(l) ==
    /\ pc[l] = "rm" /\ cmd[l] = "sent"
    /\ Finish(l)
    /\ \/ box' = [box EXCEPT ![handle[l]] = "removed"] /\ UNCHANGED failed
       \/ failed' = failed \cup {handle[l]} /\ UNCHANGED box
    /\ UNCHANGED <<pc, op, process, handle, stopped, next>>

Die(c) ==
    /\ box[c] = "running"
    /\ box' = [box EXCEPT ![c] = "exited"]
    /\ UNCHANGED <<pc, op, process, handle, stopped, cmd, next, failed>>

-----------------------------------------------------------------------------
Step(l) ==
    \/ Start(l) \/ RunFails(l) \/ RunReturns(l) \/ Ready(l) \/ ReadyRaises(l)
    \/ Stop(l) \/ StopHandle(l) \/ StopReturns(l) \/ RmReturns(l)
    \/ Create(l) \/ Launch(l) \/ Halt(l) \/ Remove(l)

Next == (\E l \in Lifecycles : Step(l)) \/ (\E c \in Containers : Die(c))

(* A coroutine that can run runs, the body of a with ends, and a docker    *)
(* command ends one way or the other.                                      *)
Fairness ==
    \A l \in Lifecycles :
        /\ WF_vars(pc[l] = "body" /\ Stop(l))
        /\ WF_vars(StopReturns(l) \/ RmReturns(l) \/ Halt(l) \/ Remove(l))

Spec == Init /\ [][Next]_vars
FairSpec == Spec /\ Fairness

-----------------------------------------------------------------------------
(* Properties.                                                             *)

(* The variables have their types, and a handle that says it is stopped    *)
(* belongs to a container that is gone or that docker failed to remove.    *)
TypeOK ==
    /\ pc \in [Lifecycles -> {"idle", "run", "ready", "body", "stop", "rm"}]
    /\ op \in [Lifecycles -> {"start", "stop", "restart", "enter", "exit", "handle"}]
    /\ process \in [Lifecycles -> Containers \cup {0}]
    /\ handle \in [Lifecycles -> Containers \cup {0}]
    /\ cmd \in [Lifecycles -> {"sent", "created", "ok", "failed"}]
    /\ box \in [Containers -> {"none", "created", "running", "exited", "removed"}]
    /\ next \in 1..(MaxContainers + 1)
    /\ stopped \subseteq Containers /\ failed \subseteq Containers
    /\ \A c \in stopped : box[c] = "removed" \/ c \in failed

(* Every container that exists can still be stopped by the lifecycle that  *)
(* started it, or belongs to a start under way, unless docker failed to    *)
(* launch or to remove it: no sequence of starts, restarts and failures    *)
(* drops the handle of a container that runs.                              *)
OwnedUnlessFailed ==
    \A c \in Containers : Exists(c) =>
        \/ c \in failed
        \/ \E l \in Lifecycles : process[l] = c \/ (pc[l] = "run" /\ handle[l] = c)

(* Although wait_ready only polls a port, the validator a with hands to    *)
(* its body is the only one that can have answered: until the body ends or *)
(* stops it, its container exists and no other lifecycle's does.           *)
ReadyIsOwn ==
    \A l \in Lifecycles : pc[l] = "body" /\ handle[l] \notin stopped =>
        \A c \in Containers : Exists(c) <=> c = handle[l]

(* Once its body has begun, a with removes its container, whatever the     *)
(* body does, unless docker fails to.                                      *)
BodyCleansUp ==
    \A l \in Lifecycles, c \in Containers :
        pc[l] = "body" /\ handle[l] = c ~> box[c] = "removed" \/ c \in failed
=============================================================================
