--------------------------- MODULE StartupProofs ---------------------------
(***************************************************************************)
(* Theorems about the start of replicas and the offerings they take, for   *)
(* any replicas, builds and calls.  What is known of the migrations comes  *)
(* with the fact that a step of the start is a step of Migration or none.  *)
(***************************************************************************)
EXTENDS Startup, MigrationProofs

(* What main has come to holds for the goroutine, the package variable and  *)
(* the calls of its replica.                                                *)
StartInv ==
    /\ StartupTypeOK
    /\ \A r \in Replicas : subscription[r] # "off" => stage[r] # "migrate"
    /\ \A r \in Replicas : stage[r] \in {"server", "serving"} => notifier[r]
    /\ \A c \in Calls : call[c].step \in InProgress =>
          /\ stage[call[c].at] # "migrate"
          /\ call[c].taken # "clients" => notifier[call[c].at]

(* What a step of the start keeps of the parts about calls.                 *)
CallOK(c) ==
    /\ call[c] \in [step : Steps, taken : Stages, at : Replicas \union {Nobody}]
    /\ call[c].step \in InProgress =>
          /\ call[c].at \in Replicas
          /\ stage[call[c].at] # "migrate"
          /\ call[c].taken # "clients" => notifier[call[c].at]

(* The replica r: its stage, its goroutine and its variable.                *)
ReplicaOK(r) ==
    /\ stage[r] # "migrate" => pc[r] = "running"
    /\ subscription[r] # "off" => stage[r] # "migrate"
    /\ stage[r] \in {"server", "serving"} => notifier[r]

Shape ==
    /\ stage \in [Replicas -> Stages]
    /\ subscription \in [Replicas -> {"off", "opening", "open", "ended"}]
    /\ notifier \in [Replicas -> BOOLEAN]
    /\ call \in [Calls -> [step : Steps, taken : Stages, at : Replicas \union {Nobody}]]

-----------------------------------------------------------------------------
(* The invariant replica by replica and call by call.                       *)
LEMMA StartInvParts ==
    /\ StartInv <=> /\ Shape
                    /\ \A r \in Replicas : ReplicaOK(r)
                    /\ \A c \in Calls : CallOK(c)
    /\ StartInv' <=> /\ Shape'
                     /\ \A r \in Replicas : ReplicaOK(r)'
                     /\ \A c \in Calls : CallOK(c)'
<1>1. StartInv <=> /\ Shape
                   /\ \A r \in Replicas : ReplicaOK(r)
                   /\ \A c \in Calls : CallOK(c)
  BY DEF StartInv, StartupTypeOK, Shape, ReplicaOK, CallOK
<1>2. StartInv' <=> /\ Shape'
                    /\ \A r \in Replicas : ReplicaOK(r)'
                    /\ \A c \in Calls : CallOK(c)'
  BY DEF StartInv, StartupTypeOK, Shape, ReplicaOK, CallOK
<1> QED
  BY <1>1, <1>2

LEMMA StartInit == StartupInit => StartInv
<1> SUFFICES ASSUME StartupInit PROVE StartInv
  OBVIOUS
<1>1. Shape
  BY DEF StartupInit, Shape, Idle, Steps, Stages
<1>2. \A r \in Replicas : ReplicaOK(r)
  BY DEF StartupInit, ReplicaOK
<1>3. \A c \in Calls : CallOK(c)
  BY DEF StartupInit, CallOK, Idle, Steps, Stages, InProgress
<1> QED
  BY <1>1, <1>2, <1>3, StartInvParts

-----------------------------------------------------------------------------
(* Every step is a step of Migration or leaves its variables alone.         *)
LEMMA StepMigrates ==
    [StartupNext]_<<vars, startVars>> => [Next]_vars
<1> SUFFICES ASSUME [StartupNext]_<<vars, startVars>> PROVE [Next]_vars
  OBVIOUS
<1>1. ASSUME NEW r \in Replicas, Stop(r) PROVE Next
  BY <1>1 DEF Stop, Next
<1>2. CASE StartupCalm
  BY <1>2 DEF StartupCalm, Next, Calm
<1> QED
  BY <1>1, <1>2 DEF StartupNext

THEOREM StartupMigrates == StartupSpec => Spec
<1>1. StartupInit => Init
  BY DEF StartupInit
<1> QED
  BY <1>1, StepMigrates, PTL DEF StartupSpec, Spec

-----------------------------------------------------------------------------
(* A replica that runs takes no step of the migrations.                     *)
LEMMA MigratingKeepsRunning ==
    ASSUME TypeOK, NEW r \in Replicas, Migrate(r) \/ Restart(r)
    PROVE  \A q \in Replicas : pc[q] = "running" => pc'[q] = "running"
<1>1. pc[r] # "running"
  BY DEF Migrate, ReadState, MarkDirty, ExecStatement, MarkClean, Restart
<1>2. \A q \in Replicas : q # r => pc'[q] = pc[q]
  BY DEF TypeOK, Migrate, ReadState, MarkDirty, ExecStatement, MarkClean, Restart,
         NextVersion, Exit, PutDirty, PutStatement, PutClean
<1> QED
  BY <1>1, <1>2

LEMMA MigratingKeeps ==
    ASSUME StartInv, TypeOK, NEW r \in Replicas,
           Migrate(r) \/ Restart(r), UNCHANGED startVars
    PROVE  StartInv'
<1>1. \A q \in Replicas : pc[q] = "running" => pc'[q] = "running"
  BY MigratingKeepsRunning
<1>2. Shape'
  BY StartInvParts DEF Shape, startVars
<1>3. \A q \in Replicas : ReplicaOK(q)'
  BY <1>1, StartInvParts DEF ReplicaOK, startVars
<1>4. \A c \in Calls : CallOK(c)'
  BY StartInvParts DEF CallOK, startVars
<1> QED
  BY <1>2, <1>3, <1>4, StartInvParts

(* main and its goroutine only go forward.                                  *)
LEMMA StartKeeps ==
    ASSUME StartInv, NEW r \in Replicas, Start(r), UNCHANGED vars
    PROVE  StartInv'
<1>1. Shape /\ (\A q \in Replicas : ReplicaOK(q)) /\ (\A c \in Calls : CallOK(c))
  BY StartInvParts
<1>2. Shape'
  BY <1>1 DEF Shape, Stages, Start, StartMessageSubscription, SubCtx,
              SubscriptionHandled, CreatePublicationClient, RunServer
<1>3. ASSUME NEW q \in Replicas PROVE ReplicaOK(q)'
  <2>1. CASE StartMessageSubscription(r)
    BY <1>1, <2>1 DEF StartMessageSubscription, Shape, ReplicaOK, vars
  <2>2. CASE SubCtx(r)
    BY <1>1, <2>2 DEF SubCtx, Shape, ReplicaOK, vars
  <2>3. CASE CreatePublicationClient(r)
    BY <1>1, <2>3 DEF CreatePublicationClient, Shape, ReplicaOK, vars
  <2>4. CASE RunServer(r)
    BY <1>1, <2>4 DEF RunServer, Shape, ReplicaOK, vars
  <2>5. CASE SubscriptionHandled(r)
    BY <1>1, <2>5 DEF SubscriptionHandled, Shape, ReplicaOK, vars
  <2> QED
    BY <2>1, <2>2, <2>3, <2>4, <2>5 DEF Start
<1>4. \A q \in Replicas : /\ stage[q] # "migrate" => stage'[q] # "migrate"
                          /\ notifier[q] => notifier'[q]
  BY <1>1 DEF Shape, Start, StartMessageSubscription, SubCtx, SubscriptionHandled,
              CreatePublicationClient, RunServer
<1>5. \A c \in Calls : CallOK(c)'
  BY <1>1, <1>4 DEF CallOK, Start, StartMessageSubscription, SubCtx,
                    SubscriptionHandled, CreatePublicationClient, RunServer
<1> QED
  BY <1>2, <1>3, <1>5, StartInvParts

(* A call is taken by a replica that is past the migrations, and by one     *)
(* that can announce unless main has still to create its clients.           *)
LEMMA ArrivalKeeps ==
    ASSUME StartInv, NEW d \in Calls, NEW r \in Replicas,
           Receive(d, r) \/ Request(d, r), UNCHANGED vars
    PROVE  StartInv'
<1>1. Shape /\ (\A q \in Replicas : ReplicaOK(q)) /\ (\A c \in Calls : CallOK(c))
  BY StartInvParts
<1>2. UNCHANGED <<stage, subscription, notifier, pc>>
  BY DEF Receive, Request, Arrive, vars
<1>3. /\ call' = [call EXCEPT ![d] = [step |-> "store", taken |-> stage[r], at |-> r]]
      /\ stage[r] \in Stages \ {"migrate"}
      /\ stage[r] # "clients" => notifier[r]
  BY <1>1 DEF Receive, Request, Arrive, ReplicaOK, Shape, Stages
<1>4. Shape'
  BY <1>1, <1>2, <1>3 DEF Shape, Steps, InProgress
<1>5. \A q \in Replicas : ReplicaOK(q)'
  BY <1>1, <1>2 DEF ReplicaOK
<1>6. \A c \in Calls : CallOK(c)'
  BY <1>1, <1>2, <1>3 DEF CallOK, Shape, Steps, Stages, InProgress
<1> QED
  BY <1>4, <1>5, <1>6, StartInvParts

(* The steps of a call.                                                     *)
LEMMA StoringKeeps ==
    ASSUME StartInv, NEW d \in Calls, StoreOffering(d), UNCHANGED vars
    PROVE  StartInv'
<1>1. Shape /\ (\A q \in Replicas : ReplicaOK(q)) /\ (\A c \in Calls : CallOK(c))
  BY StartInvParts
<1>2. /\ UNCHANGED <<stage, subscription, notifier, pc>>
      /\ call[d].step = "store"
      /\ call' = [call EXCEPT ![d].step = "notify"]
  BY DEF StoreOffering, vars
<1>3. Shape'
  BY <1>1, <1>2 DEF Shape, Steps, InProgress
<1>4. \A q \in Replicas : ReplicaOK(q)'
  BY <1>1, <1>2 DEF ReplicaOK
<1>5. \A c \in Calls : CallOK(c)'
  BY <1>1, <1>2 DEF CallOK, Shape, Steps, InProgress
<1> QED
  BY <1>3, <1>4, <1>5, StartInvParts

LEMMA EndingKeeps ==
    ASSUME StartInv, NEW d \in Calls, NotifyRetrieval(d) \/ CallFails(d), UNCHANGED vars
    PROVE  StartInv'
<1>1. Shape /\ (\A q \in Replicas : ReplicaOK(q)) /\ (\A c \in Calls : CallOK(c))
  BY StartInvParts
<1>2. UNCHANGED <<stage, subscription, notifier, pc>>
  BY DEF NotifyRetrieval, CallFails, vars
<1>3. PICK step \in {"announced", "failed"} : call' = [call EXCEPT ![d] = Idle(step)]
  BY DEF NotifyRetrieval, CallFails
<1> DEFINE new == Idle(step)
<1>n. /\ new \in [step : Steps, taken : Stages, at : Replicas \union {Nobody}]
      /\ new.step \notin InProgress
      /\ call' = [call EXCEPT ![d] = new]
  BY <1>3 DEF Idle, Steps, Stages, InProgress
<1> HIDE DEF new
<1>4. Shape'
  BY <1>1, <1>2, <1>n DEF Shape
<1>5. \A q \in Replicas : ReplicaOK(q)'
  BY <1>1, <1>2 DEF ReplicaOK
<1>6. \A c \in Calls : CallOK(c)'
  BY <1>1, <1>2, <1>n DEF CallOK, Shape
<1> QED
  BY <1>4, <1>5, <1>6, StartInvParts

(* A process that ends takes its calls with it.                             *)
LEMMA StopKeeps ==
    ASSUME StartInv, TypeOK, NEW r \in Replicas, Stop(r)
    PROVE  StartInv'
<1>1. Shape /\ (\A q \in Replicas : ReplicaOK(q)) /\ (\A c \in Calls : CallOK(c))
  BY StartInvParts
<1>2. \A q \in Replicas : q # r => pc'[q] = pc[q]
  BY DEF Stop, Fault, Exit, TypeOK
<1>3. Shape'
  BY <1>1 DEF Stop, Abort, Shape, Idle, Steps, Stages, InProgress
<1>4. \A q \in Replicas : ReplicaOK(q)'
  BY <1>1, <1>2 DEF Stop, ReplicaOK, Shape, Stages
<1>5. \A c \in Calls : CallOK(c)'
  BY <1>1 DEF Stop, Abort, CallOK, Shape, Idle, Steps, Stages, InProgress
<1> QED
  BY <1>3, <1>4, <1>5, StartInvParts

LEMMA StartNext ==
    StartInv /\ TypeOK /\ [StartupNext]_<<vars, startVars>> => StartInv'
<1> SUFFICES ASSUME StartInv, TypeOK, [StartupNext]_<<vars, startVars>> PROVE StartInv'
  OBVIOUS
<1>1. ASSUME NEW r \in Replicas, Migrate(r) \/ Restart(r), UNCHANGED startVars
      PROVE  StartInv'
  BY <1>1, MigratingKeeps
<1>2. ASSUME NEW r \in Replicas, Start(r), UNCHANGED vars PROVE StartInv'
  BY <1>2, StartKeeps
<1>3. ASSUME NEW c \in Calls, NEW r \in Replicas,
             Receive(c, r) \/ Request(c, r), UNCHANGED vars
      PROVE  StartInv'
  BY <1>3, ArrivalKeeps
<1>4. ASSUME NEW c \in Calls, Serve(c) \/ CallFails(c), UNCHANGED vars PROVE StartInv'
  BY <1>4, StoringKeeps, EndingKeeps DEF Serve
<1>5. ASSUME NEW r \in Replicas, Stop(r) PROVE StartInv'
  BY <1>5, StopKeeps
<1>6. CASE UNCHANGED <<vars, startVars>>
  BY <1>6 DEF vars, startVars, StartInv, StartupTypeOK
<1> QED
  BY <1>1, <1>2, <1>3, <1>4, <1>5, <1>6 DEF StartupNext, StartupCalm

LEMMA StartInvariance == StartupSpec => []StartInv
<1>1. StartupSpec => []TypeOK
  BY StartupMigrates, MigrationTypes, PTL
<1> QED
  BY <1>1, StartInit, StartNext, PTL DEF StartupSpec

-----------------------------------------------------------------------------
(* The type invariant of the start.                                         *)
THEOREM StartupTypes == StartupSpec => []StartupTypeOK
<1>1. StartInv => StartupTypeOK
  BY DEF StartInv
<1> QED
  BY <1>1, StartInvariance, PTL

(* No call is handled by a replica whose schema is not there, in its own    *)
(* build's version or, where replicas contested one, another's.             *)
THEOREM SchemaFound == StartupSpec => []CallsFindSchema
<1>1. StartInv /\ StartedIsMigrated => CallsFindSchema
  BY DEF StartInv, StartupTypeOK, StartedIsMigrated, CallsFindSchema
<1>2. StartupSpec => []StartedIsMigrated
  BY StartupMigrates, StartedMigrated, PTL
<1> QED
  BY <1>1, <1>2, StartInvariance, PTL

(* A stored offering finds the client to be announced with, unless it is an *)
(* event that came before CreateOtherClients.                               *)
THEOREM ClientFound == StartupSpec => []ClientMissedOnlyEarly
<1>1. StartInv => ClientMissedOnlyEarly
  BY DEF StartInv, ClientMissedOnlyEarly, InProgress
<1> QED
  BY <1>1, StartInvariance, PTL
=============================================================================
