----------------------------- MODULE Containers -----------------------------
(***************************************************************************)
(* Targets and daemons with an image: Run and StartDaemonContainer         *)
(* (internal/runner/container/executor.go) against the Docker daemon, and  *)
(* the registry of networks (registry.go).  The targets of one run of bake *)
(* share a registry and may be under way at the same time; every daemon    *)
(* gets a registry of its own (lifecycle.StartDaemon passes none).         *)
(*                                                                         *)
(* A call to Docker is done, or refused, or done although the caller sees  *)
(* an error (the context is cancelled, the answer is lost).  Docker        *)
(* refuses a second network of the same name.  Which images are there and  *)
(* which volumes exist matters to nothing here: VolumeCreate of an         *)
(* existing name succeeds, so those calls only succeed or fail.            *)
(***************************************************************************)
EXTENDS Naturals, Sequences, FiniteSets, Functions

CONSTANTS Targets,    \* targets with an image
          Daemons,    \* daemons with an image
          Names,      \* names of networks
          Nets,       \* Nets[a]: the networks of a, in the order of the Bakefile
          Steps,      \* Steps[t]: the number of steps of the target t
          Registry,   \* Registry[a]: the DockerNetVolRegistry a uses
          None

Actors == Targets \union Daemons
Registries == Range(Registry)

ASSUME RegistryAssumption ==
    /\ Targets \intersect Daemons = {} /\ None \notin Actors \union Names \union Registries
    /\ Nets \in [Actors -> Seq(Names)] /\ Steps \in [Targets -> Nat]
    /\ DOMAIN Registry = Actors
    /\ \A d \in Daemons, a \in Actors : Registry[d] = Registry[a] => a = d

VARIABLES pc,          \* pc[a]: where a is
          next,        \* next[a]: index of the network a is at
          step,        \* step[t]: index of the step t is at
          result,      \* result[a]: "none", "ok" or "error"
          holds,       \* actors that have the ID of their container
          netMu,       \* netMu[r]: the actor that holds the mutex of r
          netIDs,      \* netIDs[r]: the names the map of r has
          networks,    \* networks[n]: the registry whose call created n
          containers,  \* containers[a]: "none", "created", "running", "exited" or "gone"
          joined,      \* joined[a]: networks the container of a is attached to
          clash,       \* history: the network a was refused because it exists
          exited,      \* history: steps of t whose process ended with code 0
          slips,       \* history: what went wrong unnoticed for a
          lost         \* history: <<r, n>> that was made and r never learnt of it

docker == <<networks, containers, joined>>
registry == <<netMu, netIDs>>
history == <<clash, exited, slips, lost>>
vars == <<pc, next, step, result, holds, registry, docker, history>>

Init == /\ pc = [a \in Actors |-> "pull"]
        /\ next = [a \in Actors |-> 1] /\ step = [t \in Targets |-> 1]
        /\ result = [a \in Actors |-> "none"]
        /\ holds = {}
        /\ netMu = [r \in Registries |-> None]
        /\ netIDs = [r \in Registries |-> {}]
        /\ networks = [n \in Names |-> None]
        /\ containers = [a \in Actors |-> "none"]
        /\ joined = [a \in Actors |-> {}]
        /\ clash = [a \in Actors |-> None]
        /\ exited = [t \in Targets |-> 0]
        /\ slips = [a \in Actors |-> {}] /\ lost = {}

Goto(a, from, to) == pc[a] = from /\ pc' = [pc EXCEPT ![a] = to]

\* An error: the deferred ContainerRemove of Run, or the one StartDaemonContainer
\* makes on each error, follows once the container's ID is known.
Fail(a, from) == /\ Goto(a, from, IF a \in holds THEN "remove" ELSE "done")
                 /\ result' = [result EXCEPT ![a] = "error"]

Slip(a, what) == slips' = [slips EXCEPT ![a] = @ \union {what}]

\* Where the loop over the networks goes on with the i-th one.
Network(a, i) == IF i <= Len(Nets[a]) THEN "net" ELSE "start"
Wanted(a) == Nets[a][next[a]]

----------------------------------------------------------------------------
(* Before there is a container.                                            *)

\* maybePullImage; the first network is ensured before the volumes.
PullImage(a) == /\ Goto(a, "pull", IF Nets[a] = <<>> THEN "volumes" ELSE "net")
                /\ UNCHANGED <<next, step, result, holds, registry, docker, history>>

PullFails(a) == /\ Fail(a, "pull")
                /\ UNCHANGED <<next, step, holds, registry, docker, history>>

\* EnsureVolume of each volume, until one fails.
EnsureVolumes(a) == /\ Goto(a, "volumes", "create")
                    /\ UNCHANGED <<next, step, result, holds, registry, docker, history>>

VolumesFail(a) == /\ Fail(a, "volumes")
                  /\ UNCHANGED <<next, step, holds, registry, docker, history>>

\* The first network is the container's NetworkMode.
Created(a) == /\ containers' = [containers EXCEPT ![a] = "created"]
              /\ joined' = [joined EXCEPT ![a] = {Nets[a][i] : i \in {1} \intersect DOMAIN Nets[a]}]
              /\ UNCHANGED networks

ContainerCreate(a) == /\ Goto(a, "create", Network(a, 2))
                      /\ Created(a)
                      /\ holds' = holds \union {a}
                      /\ next' = [next EXCEPT ![a] = 2]
                      /\ UNCHANGED <<step, result, registry, history>>

CreateFails(a) == /\ Fail(a, "create")
                  /\ \/ UNCHANGED <<docker, slips>>
                     \/ Created(a) /\ Slip(a, "create")
                  /\ UNCHANGED <<next, step, holds, registry, clash, exited, lost>>

----------------------------------------------------------------------------
(* EnsureNetwork.                                                          *)

LockNetworks(a) == /\ Goto(a, "net", "ensure")
                   /\ netMu[Registry[a]] = None
                   /\ netMu' = [netMu EXCEPT ![Registry[a]] = a]
                   /\ UNCHANGED <<next, step, result, holds, netIDs, docker, history>>

Unlock(a) == netMu' = [netMu EXCEPT ![Registry[a]] = None]

Ensured(a) == Goto(a, "ensure", IF a \in holds THEN "connect" ELSE "volumes")

Reuse(a) == /\ Ensured(a) /\ Unlock(a)
            /\ Wanted(a) \in netIDs[Registry[a]]
            /\ UNCHANGED <<next, step, result, holds, netIDs, docker, history>>

NetworkMade(a) == /\ Wanted(a) \notin netIDs[Registry[a]]
                  /\ networks[Wanted(a)] = None
                  /\ networks' = [networks EXCEPT ![Wanted(a)] = Registry[a]]

\* Mutant of NetworkCreate: the map is not filled.
NetworkCreateForgets(a) ==
    /\ Ensured(a) /\ Unlock(a) /\ NetworkMade(a)
    /\ UNCHANGED <<next, step, result, holds, netIDs, containers, joined, history>>

NetworkCreate(a) ==
    /\ Ensured(a) /\ Unlock(a) /\ NetworkMade(a)
    /\ netIDs' = [netIDs EXCEPT ![Registry[a]] = @ \union {Wanted(a)}]
    /\ UNCHANGED <<next, step, result, holds, containers, joined, history>>

\* Mutant of NetworkFails: an error leaves the mutex locked.
NetworkFailsLocked(a) == /\ Fail(a, "ensure")
                         /\ Wanted(a) \notin netIDs[Registry[a]]
                         /\ UNCHANGED <<next, step, holds, registry, docker, history>>

\* The call fails; or the network is made and the registry does not learn of it.
NetworkFails(a) ==
    /\ Fail(a, "ensure") /\ Unlock(a)
    /\ Wanted(a) \notin netIDs[Registry[a]]
    /\ \/ UNCHANGED <<networks, lost>>
       \/ NetworkMade(a) /\ lost' = lost \union {<<Registry[a], Wanted(a)>>}
    /\ UNCHANGED <<next, step, holds, netIDs, containers, joined, clash, exited, slips>>

\* Docker answers that the network exists already.
NetworkExists(a) ==
    /\ Fail(a, "ensure") /\ Unlock(a)
    /\ Wanted(a) \notin netIDs[Registry[a]] /\ networks[Wanted(a)] # None
    /\ clash' = [clash EXCEPT ![a] = Wanted(a)]
    /\ UNCHANGED <<next, step, holds, netIDs, docker, exited, slips, lost>>

EnsureNetwork(a) == LockNetworks(a) \/ Reuse(a) \/ NetworkCreate(a)
                        \/ NetworkFails(a) \/ NetworkExists(a)
----------------------------------------------------------------------------
(* The container.                                                          *)

NetworkConnect(a) == /\ Goto(a, "connect", Network(a, next[a] + 1))
                     /\ joined' = [joined EXCEPT ![a] = @ \union {Wanted(a)}]
                     /\ next' = [next EXCEPT ![a] = @ + 1]
                     /\ UNCHANGED <<step, result, holds, registry, networks, containers, history>>

ConnectFails(a) == /\ Fail(a, "connect")
                   /\ joined' \in {joined, [joined EXCEPT ![a] = @ \union {Wanted(a)}]}
                   /\ UNCHANGED <<next, step, holds, registry, networks, containers, history>>

Started(a) == /\ containers' = [containers EXCEPT ![a] = "running"]
              /\ UNCHANGED <<networks, joined>>

\* A daemon's container is left to run; a target's is there for its steps.
ContainerStart(a) ==
    /\ Started(a)
    /\ \/ a \in Targets /\ Goto(a, "start", "steps") /\ UNCHANGED result
       \/ /\ a \in Daemons /\ Goto(a, "start", "done")
          /\ result' = [result EXCEPT ![a] = "ok"]
    /\ UNCHANGED <<next, step, holds, registry, history>>

\* Mutant of StartFails: the error is returned and the container is left.
StartFailsKept(a) == /\ Goto(a, "start", "done")
                     /\ result' = [result EXCEPT ![a] = "error"]
                     /\ UNCHANGED <<next, step, holds, registry, docker, history>>

StartFails(a) == /\ Fail(a, "start")
                 /\ Started(a) \/ UNCHANGED docker
                 /\ UNCHANGED <<next, step, holds, registry, history>>

\* ExecCreate and ExecAttach of the next step.
BeginStep(t) == /\ Goto(t, "steps", "stream")
                /\ step[t] <= Steps[t] /\ containers[t] = "running"
                /\ UNCHANGED <<next, step, result, holds, registry, docker, history>>

NextStep(t) == /\ Goto(t, "stream", "steps")
               /\ step' = [step EXCEPT ![t] = @ + 1]

\* The stream ends with the process, and ExecInspect tells its code 0.
StepSucceeds(t) == /\ NextStep(t)
                   /\ containers[t] = "running"
                   /\ exited' = [exited EXCEPT ![t] = @ + 1]
                   /\ UNCHANGED <<next, result, holds, registry, docker, clash, slips, lost>>

\* The stream ends before the process does: ExitCode is 0 as long as it runs, and
\* inspect.Running is not looked at.
StreamCut(t) == /\ NextStep(t)
                /\ containers[t] = "running"
                /\ Slip(t, "stream")
                /\ UNCHANGED <<next, result, holds, registry, docker, clash, exited, lost>>

\* Mutant of StepFails: the code is not looked at.
StepFailsUnseen(t) == /\ NextStep(t)
                      /\ UNCHANGED <<next, result, holds, registry, docker, history>>

\* Any of the calls fails, or the code is not 0.
StepFails(t) == /\ Fail(t, "stream") \/ (step[t] <= Steps[t] /\ Fail(t, "steps"))
                /\ UNCHANGED <<next, step, holds, registry, docker, history>>

StepsDone(t) == /\ Goto(t, "steps", "remove")
                /\ step[t] > Steps[t]
                /\ result' = [result EXCEPT ![t] = "ok"]
                /\ UNCHANGED <<next, step, holds, registry, docker, history>>

\* With a context of its own, and its error ignored.
ContainerRemove(a) == /\ Goto(a, "remove", "done")
                      /\ containers' = [containers EXCEPT ![a] = "gone"]
                      /\ UNCHANGED <<next, step, result, holds, registry, networks, joined, history>>

RemoveFails(a) == /\ Goto(a, "remove", "done")
                  /\ Slip(a, "remove")
                  /\ UNCHANGED <<next, step, result, holds, registry, docker, clash, exited, lost>>

\* StopContainer, asked for by "down"; when it fails nothing changes.
StopContainer(d) ==
    /\ d \in Daemons /\ result[d] = "ok" /\ containers[d] # "gone"
    /\ containers' = [containers EXCEPT ![d] = "gone"]
    /\ UNCHANGED <<pc, next, step, result, holds, registry, networks, joined, history>>

\* The main process ends: AutoRemove is set for targets and not for daemons.
Die(a) == /\ containers[a] = "running"
          /\ containers' = [containers EXCEPT ![a] = IF a \in Targets THEN "gone" ELSE "exited"]
          /\ UNCHANGED <<pc, next, step, result, holds, registry, networks, joined, history>>

----------------------------------------------------------------------------
Prepare(a) == PullImage(a) \/ PullFails(a) \/ EnsureVolumes(a) \/ VolumesFail(a)
                  \/ ContainerCreate(a) \/ CreateFails(a)

Step(t) == BeginStep(t) \/ StepSucceeds(t) \/ StreamCut(t) \/ StepFails(t) \/ StepsDone(t)

Act(a) == \/ Prepare(a) \/ EnsureNetwork(a)
          \/ NetworkConnect(a) \/ ConnectFails(a) \/ ContainerStart(a) \/ StartFails(a)
          \/ (a \in Targets /\ Step(a))
          \/ ContainerRemove(a) \/ RemoveFails(a)

Next == \E a \in Actors : Act(a) \/ StopContainer(a) \/ Die(a)

Spec == Init /\ [][Next]_vars

\* Docker answers every call in the end.
FairSpec == Spec /\ \A a \in Actors : WF_vars(Act(a))
----------------------------------------------------------------------------
(* Properties.                                                             *)

States == {"none", "created", "running", "exited", "gone"}
Slips == {"create", "stream", "remove"}

\* The type invariant.
TypeOK == /\ pc \in [Actors -> {"pull", "volumes", "create", "net", "ensure", "connect",
                                "start", "steps", "stream", "remove", "done"}]
          /\ next \in [Actors -> Nat] /\ step \in [Targets -> Nat]
          /\ result \in [Actors -> {"none", "ok", "error"}]
          /\ holds \subseteq Actors
          /\ netMu \in [Registries -> Actors \union {None}]
          /\ netIDs \in [Registries -> SUBSET Names]
          /\ networks \in [Names -> Registries \union {None}]
          /\ containers \in [Actors -> States]
          /\ joined \in [Actors -> SUBSET Names]
          /\ clash \in [Actors -> Names \union {None}]
          /\ exited \in [Targets -> Nat]
          /\ slips \in [Actors -> SUBSET Slips] /\ lost \subseteq Registries \X Names

\* A target that returned, with or without an error, and a daemon that failed to
\* start leave no container behind, unless Docker never told its ID or refused to
\* remove it.
CleanedUp == \A a \in Actors :
    /\ pc[a] = "done" /\ (a \in Targets \/ result[a] = "error")
    /\ slips[a] \intersect {"create", "remove"} = {}
    => containers[a] \in {"none", "gone"}

\* "The first target (in execution order) that references a name creates the
\* network; later targets attach to the same one" (docs/bakefile-reference.md):
\* a target is never refused a network its own run made, unless the run never
\* learnt that it was made.
OwnNetworks == \A a \in Actors : clash[a] # None /\ networks[clash[a]] = Registry[a] =>
                  <<Registry[a], clash[a]>> \in lost

\* Run returns nil only when each of the steps ended with code 0 in a container on
\* all the target's networks; StartDaemonContainer only for such a container.
HonestResult == \A a \in Actors : result[a] = "ok" =>
    /\ joined[a] = Range(Nets[a])
    /\ a \in Targets /\ "stream" \notin slips[a] => exited[a] = Steps[a]

\* Every target returns and every daemon is started or not, whatever fails and
\* whoever waits for the registry's mutex.
Returns == \A a \in Actors : <>(pc[a] = "done")

\* "EnsureNetwork creates the network if it does not exist" (registry.go): no one is
\* refused a network because it exists.
ExistingIsFine == \A a \in Actors : clash[a] = None

\* "step [...] exited with code" is an error (executor.go): no step that did not end
\* with code 0 counts as done.
OkMeansExited == \A t \in Targets : result[t] = "ok" => exited[t] = Steps[t]
=============================================================================
