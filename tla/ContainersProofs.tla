-------------------------- MODULE ContainersProofs --------------------------
(***************************************************************************)
(* Proofs about Containers, for every set of targets and daemons, whatever *)
(* networks they name and however many steps they have.                    *)
(***************************************************************************)
EXTENDS Containers, TLAPS

BeforeContainer == {"pull", "volumes", "create"}
InContainer == {"connect", "start", "steps", "stream", "remove"}

\* Where an actor is determines whether it has a container and which network and
\* step it is at.
Control(a) ==
    /\ pc[a] \in BeforeContainer => a \notin holds
    /\ pc[a] \in InContainer => a \in holds
    /\ pc[a] \in {"steps", "stream"} => a \in Targets
    /\ a \notin holds => next[a] = 1
    /\ pc[a] \in {"net", "ensure", "connect"} => next[a] \in DOMAIN Nets[a]
    /\ result[a] = "ok" => a \in holds /\ pc[a] \in {"remove", "done"}

\* A container whose ID is not known exists only if Docker did not tell it; a target
\* or a failure that is over has removed its container or failed to.
Removal(a) ==
    /\ a \notin holds /\ "create" \notin slips[a] => containers[a] = "none"
    /\ pc[a] = "done" /\ (a \in Targets \/ result[a] # "ok")
         => \/ slips[a] \intersect {"create", "remove"} # {}
            \/ containers[a] \in {"none", "gone"}

Attached(a) == {Nets[a][i] : i \in {j \in DOMAIN Nets[a] : j < next[a]}}

\* The container is on the networks the loop has passed.
Joining(a) ==
    /\ pc[a] \in {"net", "ensure", "connect"} /\ a \in holds => joined[a] = Attached(a)
    /\ pc[a] \in {"start", "steps", "stream"} => joined[a] = Range(Nets[a])
    /\ result[a] = "ok" => joined[a] = Range(Nets[a])

\* The steps that are behind the loop have ended with code 0.
Counting(a) == a \in Targets =>
    /\ step[a] \in 1..(Steps[a] + 1)
    /\ pc[a] = "stream" => step[a] <= Steps[a]
    /\ result[a] = "ok" => step[a] = Steps[a] + 1
    /\ "stream" \notin slips[a] => exited[a] = step[a] - 1

\* Every network is in the map of the registry that made it, unless that registry
\* did not learn of it; a network that was refused is there, and the run that was
\* refused it did not make it or did not learn of it.
Registered ==
    /\ \A n \in Names : networks[n] # None =>
         n \in netIDs[networks[n]] \/ <<networks[n], n>> \in lost
    /\ \A a \in Actors : clash[a] # None =>
         /\ networks[clash[a]] # None
         /\ networks[clash[a]] = Registry[a] => <<Registry[a], clash[a]>> \in lost

ContainerInv ==
    /\ TypeOK /\ Registered
    /\ \A a \in Actors : Control(a) /\ Removal(a) /\ Joining(a) /\ Counting(a)

----------------------------------------------------------------------------
LEMMA RegistryOf == \A a \in Actors : Registry[a] \in Registries
BY RegistryAssumption DEF Registries, Range

LEMMA ContainerInit == Init => ContainerInv
BY RegistryAssumption
   DEF Init, ContainerInv, TypeOK, Control, Removal, Registered, Joining, Counting, Actors,
       States, Slips, BeforeContainer, InContainer

LEMMA TypeNext == TypeOK /\ (\A a \in Actors : Control(a)) /\ [Next]_vars => TypeOK'
<1> SUFFICES ASSUME TypeOK, \A a \in Actors : Control(a), [Next]_vars PROVE TypeOK'
  OBVIOUS
<1> USE RegistryAssumption, RegistryOf
    DEF TypeOK, Goto, Fail, Slip, docker, registry, history, States, Slips, Wanted, Unlock
<1>1. ASSUME NEW a \in Actors, Act(a) PROVE TypeOK'
  <2>0. pc[a] \in {"ensure", "connect"} => Wanted(a) \in Names
    BY DEF Control
  <2>1. CASE PullImage(a) BY <2>1 DEF PullImage
  <2>2. CASE PullFails(a) BY <2>2 DEF PullFails
  <2>3. CASE EnsureVolumes(a) BY <2>3 DEF EnsureVolumes
  <2>4. CASE VolumesFail(a) BY <2>4 DEF VolumesFail
  <2>5. CASE ContainerCreate(a) BY <2>5 DEF ContainerCreate, Created, Network
  <2>6. CASE CreateFails(a)
    <3>1. /\ joined' \in [Actors -> SUBSET Names] /\ slips' \in [Actors -> SUBSET Slips]
          /\ containers' \in [Actors -> States] /\ networks' = networks
      <4>1. CASE UNCHANGED <<docker, slips>> BY <4>1
      <4>2. CASE Created(a) /\ Slip(a, "create") BY <4>2 DEF Created
      <4> QED BY <2>6, <4>1, <4>2 DEF CreateFails
    <3>2. pc' \in [Actors -> {"pull", "volumes", "create", "net", "ensure", "connect",
                              "start", "steps", "stream", "remove", "done"}]
      BY <2>6 DEF CreateFails
    <3> QED BY <2>6, <3>1, <3>2 DEF CreateFails
  <2>7. CASE LockNetworks(a) BY <2>7 DEF LockNetworks
  <2>8. CASE Reuse(a) BY <2>8 DEF Reuse, Ensured
  <2>9. CASE NetworkCreate(a) BY <2>0, <2>9 DEF NetworkCreate, Ensured, NetworkMade
  <2>10. CASE NetworkFails(a)
    <3>1. Wanted(a) \in Names BY <2>0, <2>10 DEF NetworkFails
    <3>2. /\ networks' \in [Names -> Registries \union {None}]
          /\ lost' \subseteq Registries \X Names
      <4>1. <<Registry[a], Wanted(a)>> \in Registries \X Names BY <3>1
      <4>2. CASE UNCHANGED <<networks, lost>> BY <4>2
      <4>3. CASE NetworkMade(a) /\ lost' = lost \union {<<Registry[a], Wanted(a)>>}
        BY <4>1, <4>3 DEF NetworkMade
      <4> QED BY <2>10, <4>2, <4>3 DEF NetworkFails
    <3> QED BY <2>10, <3>2 DEF NetworkFails
  <2>11. CASE NetworkExists(a) BY <2>0, <2>11 DEF NetworkExists
  <2>12. CASE NetworkConnect(a) BY <2>0, <2>12 DEF NetworkConnect, Network
  <2>13. CASE ConnectFails(a)
    <3>1. Wanted(a) \in Names BY <2>0, <2>13 DEF ConnectFails
    <3>2. [joined EXCEPT ![a] = @ \union {Wanted(a)}] \in [Actors -> SUBSET Names] BY <3>1
    <3>3. joined' \in [Actors -> SUBSET Names] BY <2>13, <3>2 DEF ConnectFails
    <3> QED BY <2>13, <3>3 DEF ConnectFails
  <2>14. CASE ContainerStart(a)
    <3>1. containers' \in [Actors -> States] BY <2>14 DEF ContainerStart, Started
    <3>2. CASE a \in Targets /\ Goto(a, "start", "steps") /\ UNCHANGED result
      BY <2>14, <3>1, <3>2 DEF ContainerStart, Started
    <3>3. CASE /\ a \in Daemons /\ Goto(a, "start", "done")
               /\ result' = [result EXCEPT ![a] = "ok"]
      BY <2>14, <3>1, <3>3 DEF ContainerStart, Started
    <3> QED BY <2>14, <3>2, <3>3 DEF ContainerStart
  <2>15. CASE StartFails(a) BY <2>15 DEF StartFails, Started
  <2>16. ASSUME a \in Targets, Step(a) PROVE TypeOK'
    <3>1. CASE BeginStep(a) BY <3>1 DEF BeginStep
    <3>2. CASE StepSucceeds(a) BY <2>16, <3>2 DEF StepSucceeds, NextStep
    <3>3. CASE StreamCut(a) BY <2>16, <3>3 DEF StreamCut, NextStep
    <3>4. CASE StepFails(a)
      <4>1. CASE Fail(a, "stream") BY <3>4, <4>1 DEF StepFails
      <4>2. CASE Fail(a, "steps") BY <3>4, <4>2 DEF StepFails
      <4> QED BY <3>4, <4>1, <4>2 DEF StepFails
    <3>5. CASE StepsDone(a) BY <3>5 DEF StepsDone
    <3> QED BY <2>16, <3>1, <3>2, <3>3, <3>4, <3>5 DEF Step
  <2>17. CASE ContainerRemove(a) BY <2>17 DEF ContainerRemove
  <2>18. CASE RemoveFails(a) BY <2>18 DEF RemoveFails
  <2> QED
    BY <1>1, <2>1, <2>2, <2>3, <2>4, <2>5, <2>6, <2>7, <2>8, <2>9, <2>10, <2>11, <2>12, <2>13,
       <2>14, <2>15, <2>16, <2>17, <2>18 DEF Act, Prepare, EnsureNetwork
<1>2. ASSUME NEW a \in Actors, StopContainer(a) \/ Die(a) PROVE TypeOK'
  <2>1. containers' \in [Actors -> States] BY <1>2 DEF StopContainer, Die
  <2> QED BY <1>2, <2>1 DEF StopContainer, Die
<1>3. CASE UNCHANGED vars BY <1>3 DEF vars
<1> QED BY <1>1, <1>2, <1>3 DEF Next

\* A step of one actor leaves the others as they are.
Same(b) == /\ pc'[b] = pc[b] /\ next'[b] = next[b] /\ result'[b] = result[b]
           /\ b \in holds' <=> b \in holds
           /\ slips'[b] = slips[b] /\ joined'[b] = joined[b]
           /\ containers'[b] = containers[b] /\ clash'[b] = clash[b]
           /\ b \in Targets => step'[b] = step[b] /\ exited'[b] = exited[b]

LEMMA Frame ==
  ASSUME TypeOK, NEW a \in Actors, Act(a) \/ StopContainer(a) \/ Die(a),
         NEW b \in Actors, b # a
  PROVE  Same(b)
<1> USE DEF Same, TypeOK, Goto, Fail, Slip, docker, registry, history
<1>1. CASE Prepare(a)
  BY <1>1 DEF Prepare, PullImage, PullFails, EnsureVolumes, VolumesFail, ContainerCreate,
              CreateFails, Created
<1>2. CASE EnsureNetwork(a)
  BY <1>2 DEF EnsureNetwork, LockNetworks, Reuse, Ensured, NetworkCreate, NetworkMade,
              NetworkFails, NetworkExists
<1>3. CASE NetworkConnect(a) \/ ConnectFails(a)
  BY <1>3 DEF NetworkConnect, ConnectFails
<1>4. CASE ContainerStart(a) \/ StartFails(a)
  BY <1>4 DEF ContainerStart, StartFails, Started
<1>5. CASE a \in Targets /\ Step(a)
  BY <1>5 DEF Step, BeginStep, StepSucceeds, StreamCut, StepFails, StepsDone, NextStep
<1>6. CASE ContainerRemove(a) \/ RemoveFails(a)
  BY <1>6 DEF ContainerRemove, RemoveFails
<1>7. CASE StopContainer(a) \/ Die(a)
  BY <1>7 DEF StopContainer, Die
<1> QED BY <1>1, <1>2, <1>3, <1>4, <1>5, <1>6, <1>7 DEF Act

LEMMA Others ==
  ASSUME NEW b \in Actors, Same(b), Control(b), Removal(b), Joining(b), Counting(b)
  PROVE  Control(b)' /\ Removal(b)' /\ Joining(b)' /\ Counting(b)'
BY DEF Same, Control, Removal, Joining, Counting, Attached

----------------------------------------------------------------------------
(* What an actor's step does to its own part of the invariant.             *)

Local(a) == Control(a) /\ Removal(a) /\ Joining(a) /\ Counting(a)

LEMMA PrepareNext ==
  ASSUME ContainerInv, NEW a \in Actors, Prepare(a)
  PROVE  Local(a)'
<1> USE RegistryAssumption
    DEF ContainerInv, TypeOK, Control, Removal, Counting, Local, Goto, Fail, Slip, docker,
        registry, history, BeforeContainer, InContainer
<1>1. CASE PullImage(a) BY <1>1 DEF PullImage, Joining
<1>2. CASE PullFails(a) BY <1>2 DEF PullFails, Joining
<1>3. CASE EnsureVolumes(a) BY <1>3 DEF EnsureVolumes, Joining
<1>4. CASE VolumesFail(a) BY <1>4 DEF VolumesFail, Joining
<1>5. CASE ContainerCreate(a)
  <2>1. joined'[a] = {Nets[a][i] : i \in {1} \intersect DOMAIN Nets[a]}
    BY <1>5 DEF ContainerCreate, Created
  <2>2. pc'[a] = (IF 2 <= Len(Nets[a]) THEN "net" ELSE "start") /\ next'[a] = 2
    BY <1>5 DEF ContainerCreate, Network
  <2>3. Nets[a] \in Seq(Names) OBVIOUS
  <2>4. Joining(a)'
    BY <1>5, <2>1, <2>2, <2>3 DEF ContainerCreate, Joining, Attached, Range
  <2>5. Control(a)' /\ Removal(a)' /\ Counting(a)'
    BY <1>5, <2>2, <2>3 DEF ContainerCreate
  <2> QED BY <2>4, <2>5
<1>6. CASE CreateFails(a)
  <2>1. CASE UNCHANGED <<docker, slips>> BY <1>6, <2>1 DEF CreateFails, Joining
  <2>2. CASE Created(a) /\ Slip(a, "create") BY <1>6, <2>2 DEF CreateFails, Created, Joining
  <2> QED BY <1>6, <2>1, <2>2 DEF CreateFails
<1> QED BY <1>1, <1>2, <1>3, <1>4, <1>5, <1>6 DEF Prepare

LEMMA NetworkNext ==
  ASSUME ContainerInv, NEW a \in Actors, EnsureNetwork(a) \/ NetworkConnect(a) \/ ConnectFails(a)
  PROVE  Local(a)'
<1> USE RegistryAssumption
    DEF ContainerInv, TypeOK, Control, Removal, Counting, Local, Goto, Fail, docker,
        registry, history, BeforeContainer, InContainer
<1>1. CASE LockNetworks(a)
  <2>1. Attached(a)' = Attached(a) BY <1>1 DEF LockNetworks, Attached
  <2> QED BY <1>1, <2>1 DEF LockNetworks, Joining
<1>2. CASE Reuse(a) BY <1>2 DEF Reuse, Ensured, Joining, Attached
<1>3. CASE NetworkCreate(a) BY <1>3 DEF NetworkCreate, Ensured, Joining, Attached
<1>4. CASE NetworkFails(a) BY <1>4 DEF NetworkFails, Joining
<1>5. CASE NetworkExists(a) BY <1>5 DEF NetworkExists, Joining
<1>6. CASE NetworkConnect(a)
  <2>1. joined'[a] = Attached(a) \union {Nets[a][next[a]]} /\ next'[a] = next[a] + 1
    BY <1>6 DEF NetworkConnect, Wanted, Joining
  <2>2. pc'[a] = (IF next[a] + 1 <= Len(Nets[a]) THEN "net" ELSE "start")
    BY <1>6 DEF NetworkConnect, Network
  <2>3. Nets[a] \in Seq(Names) /\ next[a] \in DOMAIN Nets[a] BY <1>6 DEF NetworkConnect
  <2>4. joined'[a] = Attached(a)' BY <2>1, <2>3 DEF Attached
  <2>5. pc'[a] = "start" => Attached(a)' = Range(Nets[a])
    BY <2>1, <2>2, <2>3 DEF Attached, Range
  <2>6. Joining(a)' BY <1>6, <2>2, <2>4, <2>5 DEF NetworkConnect, Joining
  <2>7. Control(a)'
    <3>1. DOMAIN Nets[a] = 1..Len(Nets[a]) /\ Len(Nets[a]) \in Nat BY <2>3
    <3>2. next'[a] \in Nat \ {0} BY <2>1, <2>3, <3>1
    <3>3. a \in holds' /\ result'[a] # "ok" BY <1>6 DEF NetworkConnect
    <3> QED BY <2>2, <2>1, <3>1, <3>2, <3>3
  <2>8. Removal(a)' /\ Counting(a)' BY <1>6, <2>2 DEF NetworkConnect
  <2> QED BY <2>6, <2>7, <2>8
<1>7. CASE ConnectFails(a) BY <1>7 DEF ConnectFails, Joining
<1> QED BY <1>1, <1>2, <1>3, <1>4, <1>5, <1>6, <1>7 DEF EnsureNetwork

LEMMA ContainerNext ==
  ASSUME ContainerInv, NEW a \in Actors,
         \/ ContainerStart(a) \/ StartFails(a) \/ ContainerRemove(a) \/ RemoveFails(a)
         \/ StopContainer(a) \/ Die(a)
  PROVE  Local(a)'
<1> USE RegistryAssumption
    DEF ContainerInv, TypeOK, Control, Removal, Joining, Counting, Local, Goto, Fail, Slip,
        docker, registry, history, BeforeContainer, InContainer, Attached
<1>1. CASE ContainerStart(a)
  <2>1. CASE a \in Targets /\ Goto(a, "start", "steps") /\ UNCHANGED result
    BY <1>1, <2>1 DEF ContainerStart, Started
  <2>2. CASE /\ a \in Daemons /\ Goto(a, "start", "done")
             /\ result' = [result EXCEPT ![a] = "ok"]
    BY <1>1, <2>2 DEF ContainerStart, Started
  <2> QED BY <1>1, <2>1, <2>2 DEF ContainerStart
<1>2. CASE StartFails(a) BY <1>2 DEF StartFails, Started
<1>3. CASE ContainerRemove(a) BY <1>3 DEF ContainerRemove
<1>4. CASE RemoveFails(a) BY <1>4 DEF RemoveFails
<1>5. CASE StopContainer(a) \/ Die(a)
  <2>1. Attached(a)' = Attached(a) BY <1>5 DEF StopContainer, Die
  <2>2. Joining(a)' /\ Control(a)' /\ Counting(a)' BY <1>5, <2>1 DEF StopContainer, Die
  <2>3. Removal(a)' BY <1>5 DEF StopContainer, Die
  <2> QED BY <2>2, <2>3
<1> QED BY <1>1, <1>2, <1>3, <1>4, <1>5

LEMMA StepNext ==
  ASSUME ContainerInv, NEW a \in Targets, Step(a)
  PROVE  Local(a)'
<1> USE RegistryAssumption
    DEF ContainerInv, TypeOK, Control, Removal, Joining, Counting, Local, Goto, Fail, Slip,
        docker, registry, history, BeforeContainer, InContainer, Attached, Actors
<1>1. CASE BeginStep(a) BY <1>1 DEF BeginStep
<1>2. CASE StepSucceeds(a) BY <1>2 DEF StepSucceeds, NextStep
<1>3. CASE StreamCut(a) BY <1>3 DEF StreamCut, NextStep
<1>4. CASE StepFails(a) BY <1>4 DEF StepFails
<1>5. CASE StepsDone(a) BY <1>5 DEF StepsDone
<1> QED BY <1>1, <1>2, <1>3, <1>4, <1>5 DEF Step

----------------------------------------------------------------------------
(* The networks.                                                           *)

LEMMA RegisteredNext ==
  ASSUME ContainerInv, NEW a \in Actors, Act(a) \/ StopContainer(a) \/ Die(a)
  PROVE  Registered'
<1> USE RegistryAssumption, RegistryOf
    DEF ContainerInv, TypeOK, Registered, docker, registry, history
<1>0. pc[a] = "ensure" => Wanted(a) \in Names
  BY DEF Control, Wanted
<1>1. CASE NetworkCreate(a)
  BY <1>1 DEF NetworkCreate, NetworkMade
<1>2. CASE NetworkFails(a)
  <2>1. CASE UNCHANGED <<networks, lost>> BY <1>2, <2>1 DEF NetworkFails
  <2>2. CASE NetworkMade(a) /\ lost' = lost \union {<<Registry[a], Wanted(a)>>}
    BY <1>2, <2>2 DEF NetworkFails, NetworkMade
  <2> QED BY <1>2, <2>1, <2>2 DEF NetworkFails
<1>3. CASE NetworkExists(a)
  BY <1>0, <1>3 DEF NetworkExists, Fail, Goto
<1>4. ASSUME UNCHANGED <<networks, netIDs, lost, clash>> PROVE Registered'
  BY <1>4
<1>5. CASE LockNetworks(a) \/ Reuse(a) BY <1>4, <1>5 DEF LockNetworks, Reuse
<1>6. CASE Prepare(a)
  BY <1>4, <1>6 DEF Prepare, PullImage, PullFails, EnsureVolumes, VolumesFail, ContainerCreate,
                    CreateFails, Created
<1>7. CASE \/ NetworkConnect(a) \/ ConnectFails(a) \/ ContainerStart(a) \/ StartFails(a)
           \/ ContainerRemove(a) \/ RemoveFails(a) \/ StopContainer(a) \/ Die(a)
  BY <1>4, <1>7 DEF NetworkConnect, ConnectFails, ContainerStart, StartFails, Started,
                    ContainerRemove, RemoveFails, StopContainer, Die
<1>8. CASE Step(a)
  BY <1>4, <1>8 DEF Step, BeginStep, StepSucceeds, StreamCut, StepFails, StepsDone
<1> QED BY <1>1, <1>2, <1>3, <1>5, <1>6, <1>7, <1>8 DEF Act, EnsureNetwork

LEMMA ContainerInvNext == ContainerInv /\ [Next]_vars => ContainerInv'
<1> SUFFICES ASSUME ContainerInv, [Next]_vars PROVE ContainerInv'
  OBVIOUS
<1>1. ASSUME NEW a \in Actors, Act(a) \/ StopContainer(a) \/ Die(a)
      PROVE  Registered' /\ \A b \in Actors : Local(b)'
  <2>1. Local(a)'
    BY <1>1, PrepareNext, NetworkNext, ContainerNext, StepNext DEF Act
  <2>2. ASSUME NEW b \in Actors, b # a PROVE Local(b)'
    <3>1. Same(b) BY <1>1, <2>2, Frame DEF ContainerInv
    <3> QED BY <3>1, Others DEF ContainerInv, Local
  <2> QED BY <1>1, <2>1, <2>2, RegisteredNext
<1>2. CASE UNCHANGED vars
  BY <1>2 DEF vars, docker, registry, history, ContainerInv, TypeOK, Registered, Control,
              Removal, Joining, Counting, Attached
<1>3. CASE Next BY <1>1, <1>3, TypeNext DEF Next, ContainerInv, Local
<1> QED BY <1>2, <1>3

THEOREM ContainerInvariant == Spec => []ContainerInv
BY ContainerInit, ContainerInvNext, PTL DEF Spec

\* The type invariant holds, whatever Docker refuses.
THEOREM TypeCorrect == Spec => []TypeOK
<1>1. ContainerInv => TypeOK BY DEF ContainerInv
<1> QED BY <1>1, ContainerInvariant, PTL

\* A target that returned and a daemon that failed to start leave no container
\* behind, unless Docker hid its ID or refused to remove it.
THEOREM ContainersCleanedUp == Spec => []CleanedUp
<1>1. ContainerInv => CleanedUp BY DEF ContainerInv, Removal, CleanedUp
<1> QED BY <1>1, ContainerInvariant, PTL

\* A target is never refused a network that its own run made and knows of.
THEOREM NetworksAreOwn == Spec => []OwnNetworks
<1>1. ContainerInv => OwnNetworks
  <2> SUFFICES ASSUME ContainerInv, NEW a \in Actors,
                      clash[a] # None, networks[clash[a]] = Registry[a]
               PROVE  <<Registry[a], clash[a]>> \in lost
    BY DEF OwnNetworks
  <2> QED BY DEF ContainerInv, Registered
<1> QED BY <1>1, ContainerInvariant, PTL

\* Success means that all steps ended with code 0 in a container on all networks.
THEOREM ResultIsHonest == Spec => []HonestResult
<1>1. ContainerInv => HonestResult
  BY RegistryAssumption DEF ContainerInv, TypeOK, Joining, Counting, HonestResult
<1> QED BY <1>1, ContainerInvariant, PTL
=============================================================================
