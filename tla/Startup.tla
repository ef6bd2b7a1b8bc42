------------------------------ MODULE Startup ------------------------------
(***************************************************************************)
(* The start of a replica in main.go, around the migrations it runs, and   *)
(* the offerings it takes meanwhile.  The subscription is served by a      *)
(* goroutine of its own: events arrive as soon as it is open, whatever     *)
(* main has come to.  An offering is here no more than its way through a   *)
(* replica; Processing has the rest.                                       *)
(***************************************************************************)
EXTENDS Migration

CONSTANTS Calls,     \* the offerings that arrive, by event or by request
          Nobody     \* the replica of a call that has not arrived

ASSUME NobodyAssumption == Nobody \notin Replicas

VARIABLES stage,         \* stage[r]: where main is
          subscription,  \* subscription[r]: the goroutine of SubCtx
          notifier,      \* notifier[r]: the package variable has been set
          call           \* call[c]: the step of call c, its replica, and what
                         \* main of the replica had come to when it took c

startVars == <<stage, subscription, notifier, call>>

Stages == {"migrate", "clients", "server", "serving"}
InProgress == {"store", "notify"}
Steps == {"new", "announced", "failed"} \union InProgress

(* A call that no replica has, and whose way there no longer matters.       *)
Idle(step) == [step |-> step, taken |-> "serving", at |-> Nobody]

StartupTypeOK ==
    /\ stage \in [Replicas -> Stages]
    /\ \A r \in Replicas : stage[r] # "migrate" => pc[r] = "running"
    /\ subscription \in [Replicas -> {"off", "opening", "open", "ended"}]
    /\ notifier \in [Replicas -> BOOLEAN]
    /\ call \in [Calls -> [step : Steps, taken : Stages, at : Replicas \union {Nobody}]]
    /\ \A c \in Calls : call[c].step \in InProgress => call[c].at \in Replicas

StartupInit ==
    /\ Init
    /\ stage = [r \in Replicas |-> "migrate"]
    /\ subscription = [r \in Replicas |-> "off"]
    /\ notifier = [r \in Replicas |-> FALSE]
    /\ call = [c \in Calls |-> Idle("new")]

-----------------------------------------------------------------------------
(* Mutant: the subscription is started before the migrations.               *)
SubscribeEarly(r) ==
    /\ pc[r] # "exited" /\ stage[r] = "migrate"
    /\ stage' = [stage EXCEPT ![r] = "clients"]
    /\ subscription' = [subscription EXCEPT ![r] = "opening"]
    /\ UNCHANGED <<notifier, call>>

(* Mutant: SubCtx is called without a goroutine of its own; main waits.     *)
SubscribeInMain(r) ==
    /\ pc[r] = "running" /\ stage[r] = "migrate" /\ subscription[r] = "off"
    /\ subscription' = [subscription EXCEPT ![r] = "opening"]
    /\ UNCHANGED <<stage, notifier, call>>

StartMessageSubscription(r) ==
    /\ pc[r] = "running" /\ stage[r] = "migrate"
    /\ stage' = [stage EXCEPT ![r] = "clients"]
    /\ subscription' = [subscription EXCEPT ![r] = "opening"]
    /\ UNCHANGED <<notifier, call>>

SubCtx(r) ==
    /\ subscription[r] = "opening"
    /\ subscription' = [subscription EXCEPT ![r] = "open"]
    /\ UNCHANGED <<stage, notifier, call>>

(* SubCtx returns without an error: that is logged, and main goes on.  (One *)
(* that returns an error ends the process.)                                 *)
SubscriptionHandled(r) ==
    /\ subscription[r] \in {"opening", "open"}
    /\ subscription' = [subscription EXCEPT ![r] = "ended"]
    /\ UNCHANGED <<stage, notifier, call>>

(* Mutant: the client is created and not kept.                              *)
ClientForgotten(r) ==
    /\ stage[r] = "clients"
    /\ stage' = [stage EXCEPT ![r] = "server"]
    /\ UNCHANGED <<subscription, notifier, call>>

CreatePublicationClient(r) ==
    /\ stage[r] = "clients"
    /\ stage' = [stage EXCEPT ![r] = "server"]
    /\ notifier' = [notifier EXCEPT ![r] = TRUE]
    /\ UNCHANGED <<subscription, call>>

RunServer(r) ==
    /\ stage[r] = "server"
    /\ stage' = [stage EXCEPT ![r] = "serving"]
    /\ UNCHANGED <<subscription, notifier, call>>

Start(r) ==
    \/ StartMessageSubscription(r) \/ SubCtx(r) \/ SubscriptionHandled(r)
    \/ CreatePublicationClient(r) \/ RunServer(r)

-----------------------------------------------------------------------------
(* An event goes to one replica of the queue group that has subscribed, a   *)
(* request to one that listens.                                             *)
Arrive(c, r) ==
    /\ call[c].step = "new"
    /\ call' = [call EXCEPT ![c] = [step |-> "store", taken |-> stage[r], at |-> r]]
    /\ UNCHANGED <<stage, subscription, notifier>>

Receive(c, r) == subscription[r] = "open" /\ Arrive(c, r)
Request(c, r) == stage[r] = "serving" /\ Arrive(c, r)

StoreOffering(c) ==
    /\ call[c].step = "store"
    /\ call' = [call EXCEPT ![c].step = "notify"]
    /\ UNCHANGED <<stage, subscription, notifier>>

(* PubCtx of the client that the package variable holds; the zero client    *)
(* that it holds before it is set returns an error.  (If it panics, or is   *)
(* read half assigned, that is a Stop.)                                     *)
NotifyRetrieval(c) ==
    /\ call[c].step = "notify"
    /\ call' = [call EXCEPT ![c] =
                   Idle(IF notifier[@.at] THEN "announced" ELSE "failed")]
    /\ UNCHANGED <<stage, subscription, notifier>>

(* An I/O of the call fails.                                                *)
CallFails(c) ==
    /\ call[c].step \in InProgress
    /\ call' = [call EXCEPT ![c] = Idle("failed")]
    /\ UNCHANGED <<stage, subscription, notifier>>

Serve(c) == StoreOffering(c) \/ NotifyRetrieval(c)

(* The calls of r end with its process.                                     *)
Abort(r) ==
    call' = [c \in Calls |-> IF call[c].at = r THEN Idle("failed") ELSE call[c]]

(* Mutant: the replica goes on where its former life has ended.             *)
StopInPlace(r) ==
    /\ Fault(r)
    /\ Abort(r)
    /\ UNCHANGED <<stage, subscription, notifier>>

(* The process ends: os.Exit or log.Fatalf of a step above or of the        *)
(* goroutine, or a kill.  What it was doing is lost.                        *)
Stop(r) ==
    /\ Fault(r)
    /\ stage' = [stage EXCEPT ![r] = "migrate"]
    /\ subscription' = [subscription EXCEPT ![r] = "off"]
    /\ notifier' = [notifier EXCEPT ![r] = FALSE]
    /\ Abort(r)

StartupCalm ==
    \/ \E r \in Replicas : (Migrate(r) \/ Restart(r)) /\ UNCHANGED startVars
    \/ /\ \/ \E r \in Replicas : Start(r)
          \/ \E c \in Calls, r \in Replicas : Receive(c, r) \/ Request(c, r)
          \/ \E c \in Calls : Serve(c)
       /\ UNCHANGED vars

StartupNext ==
    \/ StartupCalm
    \/ \E r \in Replicas : Stop(r)
    \/ (\E c \in Calls : CallFails(c)) /\ UNCHANGED vars

StartupSpec == StartupInit /\ [][StartupNext]_<<vars, startVars>>

(* The steps of main and of its goroutine are taken, and a replica that has *)
(* ended is started again.                                                  *)
StartupFairSpec ==
    /\ StartupSpec
    /\ \A r \in Replicas :
          /\ WF_<<vars, startVars>>((Migrate(r) \/ Restart(r)) /\ UNCHANGED startVars)
          /\ WF_<<vars, startVars>>(StartMessageSubscription(r) /\ UNCHANGED vars)
          /\ WF_<<vars, startVars>>(SubCtx(r) /\ UNCHANGED vars)
          /\ WF_<<vars, startVars>>(CreatePublicationClient(r) /\ UNCHANGED vars)
          /\ WF_<<vars, startVars>>(RunServer(r) /\ UNCHANGED vars)

-----------------------------------------------------------------------------
(* No call works on a schema that is not there: whatever started or         *)
(* restarted together, the replica that handles a call has its migrations   *)
(* (main runs them before it subscribes and listens), its own build's or,   *)
(* for a contested version, another's.                                      *)
CallsFindSchema ==
    \A c \in Calls : call[c].step \in InProgress =>
        \A v \in VersionsOf(call[c].at) : HasVersion(call[c].at, v)

(* A stored offering that finds no client to be announced with is an event  *)
(* that came before CreateOtherClients, for whatever was taken later, a     *)
(* request in particular, finds it, in this life of the replica and in the  *)
(* next.  (An offering can stay unannounced in two other ways: the client   *)
(* that it finds fails, or the replica stops.)                              *)
ClientMissedOnlyEarly ==
    \A c \in Calls : call[c].step = "notify" /\ ~notifier[call[c].at] =>
        call[c].taken = "clients"

(* A row records another file than r's build has.                           *)
Outdated(r) ==
    \E v \in VersionsOf(r) : mark[v] # "absent" /\ checksum[v] # Embedded[r][v]

(* main listens, and has its subscription open unless SubCtx returned.      *)
Serving(r) == stage[r] = "serving" /\ subscription[r] \in {"open", "ended"}

(* Once faults have ceased, replicas that start together, and exit on each  *)
(* other's dirty marks, all come to take requests, and events as long as    *)
(* their subscription lasts (nothing starts it again), unless a fault has   *)
(* left a version dirty for good or the file of a build is not the one      *)
(* recorded.                                                                *)
AllServe ==
    /\ <>[][StartupCalm]_<<vars, startVars>>
    /\ []<>(\A v \in Versions : mark[v] # "dirty")
    => <>[](\A r \in Replicas : Serving(r) \/ Outdated(r))
=============================================================================
