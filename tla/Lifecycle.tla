----------------------------- MODULE Lifecycle -----------------------------
(***************************************************************************)
(* The processes of the three applications from their start to their end.  *)
(* Each reads its configuration, connects to all three stores, whether it  *)
(* uses them or not, and listens.  Stores go away and come back.           *)
(***************************************************************************)
EXTENDS Naturals

CONSTANT Apps

Stores == {"postgres", "mongo", "redis"}

VARIABLES
    phase,      \* of each process
    config,     \* what is in its .env
    client,     \* client[a][s]: the connection of a to s
    up          \* the stores that are up

vars == <<phase, config, client, up>>

\* missing: a value the schema requires is not there; noUser: POSTGRES_USER is
\* not, and the url says undefined; noPort: the port is a string, but no number
Configs == {"good", "missing", "noUser", "noPort"}
Phases == {"none", "config", "wiring", "starting", "listening", "mute", "exited"}

TypeOK ==
    /\ phase \in [Apps -> Phases] /\ config \in [Apps -> Configs]
    /\ client \in [Apps -> [Stores -> {"none", "connected", "broken"}]]
    /\ up \subseteq Stores

\* Every application imports the modules of all three
NoClients == [s \in Stores |-> "none"]

Init ==
    /\ phase = [a \in Apps |-> "none"] /\ config = [a \in Apps |-> "good"]
    /\ client = [a \in Apps |-> NoClients] /\ up = Stores

-----------------------------------------------------------------------------
Goto(a, p) == phase' = [phase EXCEPT ![a] = p]
Exit(a) == Goto(a, "exited") /\ client' = [client EXCEPT ![a] = NoClients]

\* Somebody starts the process, with the .env there is; nothing restarts it
Start(a) ==
    /\ phase[a] \in {"none", "exited"} /\ Goto(a, "config")
    /\ \E c \in Configs : config' = [config EXCEPT ![a] = c]
    /\ UNCHANGED <<client, up>>

\* SecretsSchema.parse: ports may be strings, a url with undefined in it is a url
Accepted(c) == c # "missing"

Validate(a) ==
    /\ phase[a] = "config"
    /\ IF Accepted(config[a]) THEN Goto(a, "wiring") /\ UNCHANGED client ELSE Exit(a)
    /\ UNCHANGED <<config, up>>

Reachable(a, s) == s \in up /\ (s = "postgres" => config[a] # "noUser")

\* The factories of the modules.  In the local environment that of Postgres also
\* synchronises the schema, which is Synchronise of Migrations
Connect(a, s) ==
    /\ phase[a] = "wiring" /\ client[a][s] = "none" /\ Reachable(a, s)
    /\ client' = [client EXCEPT ![a][s] = "connected"]
    /\ UNCHANGED <<phase, config, up>>

\* A factory gives up: Redis at once, the others after their retries
GiveUp(a, s) ==
    /\ phase[a] = "wiring" /\ client[a][s] = "none" /\ ~Reachable(a, s)
    /\ Exit(a)
    /\ UNCHANGED <<config, up>>

\* All modules are there: the handlers of uncaughtException and
\* unhandledRejection are set
Wire(a) ==
    /\ phase[a] = "wiring" /\ \A s \in Stores : client[a][s] # "none"
    /\ Goto(a, "starting")
    /\ UNCHANGED <<config, client, up>>

\* Mutant: a port that is taken is waited for
ListenPatiently(a) ==
    /\ phase[a] = "starting" /\ config[a] # "noPort" /\ Goto(a, "listening")
    /\ UNCHANGED <<config, client, up>>

\* app.listen; that nobody awaits bootstrap() shows when it fails: the rejection
\* is logged and the process stays, without a port
Listen(a) ==
    /\ phase[a] = "starting"
    /\ \/ config[a] # "noPort" /\ Goto(a, "listening")
       \/ Goto(a, "mute")
    /\ UNCHANGED <<config, client, up>>

\* A connection breaks.  The pool of Postgres opens another one when asked.
\* Mongo: logger.fatal and process.exit.  Redis has no listener for errors: the
\* exception ends the process, or, once it has a handler, only the client
Notice(a, s) ==
    /\ client[a][s] = "connected" /\ s \notin up
    /\ CASE s = "postgres" -> UNCHANGED <<phase, client>>
         [] s = "mongo" -> Exit(a)
         [] s = "redis" /\ phase[a] = "wiring" -> Exit(a)
         [] s = "redis" /\ phase[a] # "wiring" ->
                client' = [client EXCEPT ![a][s] = "broken"] /\ UNCHANGED phase
    /\ UNCHANGED <<config, up>>

Drop(s) == s \in up /\ up' = up \ {s} /\ UNCHANGED <<phase, config, client>>
Restore(s) == s \notin up /\ up' = up \cup {s} /\ UNCHANGED <<phase, config, client>>
Kill(a) == phase[a] # "none" /\ Exit(a) /\ UNCHANGED <<config, up>>
-----------------------------------------------------------------------------
Next ==
    \/ \E a \in Apps : Start(a) \/ Validate(a) \/ Wire(a) \/ Listen(a) \/ Kill(a)
    \/ \E a \in Apps, s \in Stores : Connect(a, s) \/ GiveUp(a, s) \/ Notice(a, s)
    \/ \E s \in Stores : Drop(s) \/ Restore(s)

\* What a process has begun it goes on with
Fairness ==
    /\ \A a \in Apps : WF_vars(Validate(a)) /\ WF_vars(Wire(a)) /\ WF_vars(Listen(a))
    /\ \A a \in Apps, s \in Stores : WF_vars(Connect(a, s) \/ GiveUp(a, s)) /\ WF_vars(Notice(a, s))

Spec == Init /\ [][Next]_vars
FairSpec == Spec /\ Fairness

-----------------------------------------------------------------------------
(***************************************************************************)
(* A process listens only when it had every store and what Postgres asks   *)
(* for, and while it listens only Redis may be lost to it.                 *)
(***************************************************************************)
ListensWired ==
    \A a \in Apps : phase[a] \in {"starting", "listening", "mute"} =>
        /\ config[a] \notin {"missing", "noUser"}
        /\ \A s \in Stores : client[a][s] = "connected" \/ (s = "redis" /\ client[a][s] = "broken")

(***************************************************************************)
(* A start comes to an end: the process listens, is gone, or is mute,      *)
(* however stores come and go meanwhile.                                   *)
(***************************************************************************)
StartsEnd == \A a \in Apps : phase[a] = "config" ~> phase[a] \in {"listening", "mute", "exited"}

(***************************************************************************)
(* When Mongo stays away, no process stays, whether it uses it or not:     *)
(* none listens that has not started again since, and none of those gets   *)
(* as far.                                                                 *)
(***************************************************************************)
NobodyWithoutMongo ==
    \A a \in Apps : <>[]("mongo" \notin up) => []<>(phase[a] # "listening")

(***************************************************************************)
(* The inductive invariant: a process has no connection before it wires    *)
(* its modules, and while it does so each one it has is as it was made.    *)
(***************************************************************************)
ConnectsInOrder ==
    \A a \in Apps :
        /\ phase[a] \in {"none", "config", "exited"} => client[a] = NoClients
        /\ phase[a] = "wiring" =>
              /\ config[a] # "missing" /\ \A s \in Stores : client[a][s] # "broken"
              /\ client[a]["postgres"] = "connected" => config[a] # "noUser"
LifecycleInv == TypeOK /\ ConnectsInOrder /\ ListensWired
=============================================================================
