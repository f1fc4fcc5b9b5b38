------------------------------ MODULE Startup -------------------------------
(***************************************************************************)
(* From the start of the process to the point where it serves: the         *)
(* configuration (crates/app/src/config.rs), the database, the first load  *)
(* of the rules, the spawning of the actors and of the reload task         *)
(* (crates/app/src/main.rs), and the AMQP task's way to the broker, which  *)
(* is Connection's.  A process that fails is started again by whoever      *)
(* runs it; only the world around it is the same then.                     *)
(***************************************************************************)
EXTENDS Connection

CONSTANTS
    Unset,              \* no interval, or one that is not Unicode
    Garbage,            \* an interval that is not a number
    Secs,               \* intervals that are
    MaxRepairs          \* bound: changes to environment and database

ASSUME StartupBounds ==
    /\ Secs \subseteq Nat
    /\ Unset \notin Nat /\ Garbage \notin Nat /\ Unset # Garbage
    /\ MaxRepairs \in Nat

VARIABLES
    env,                \* the environment, .env file included
    database,           \* "down", "bad_rule", or "good"
    repairs,            \* changes made to these two
    main,               \* how far main is
    loaded,             \* this process has loaded its first rules
    refresher           \* the task of start_rules_cache_refresh

mainVars == << main, loaded, refresher >>
vars == << connVars, env, database, repairs, mainVars >>

\* DATABASE_URL, AMQP_URL and RUST_LOG, and RULES_REFRESH_INTERVAL_SECS.
Envs == [urls : {"all", "some"}, interval : {Unset, Garbage} \cup Secs]

MainSteps == {"config", "pool", "rules", "spawn", "refresh", "serving",
              "failed", "aborted"}

TypeOK ==
    /\ ConnTypeOK
    /\ env \in Envs
    /\ database \in {"down", "bad_rule", "good"}
    /\ repairs \in 0 .. MaxRepairs
    /\ main \in MainSteps
    /\ loaded \in BOOLEAN
    /\ refresher \in {"none", "spawned", "looping", "panicked"}

Init ==
    /\ ConnInit
    /\ env \in Envs
    /\ database \in {"down", "bad_rule", "good"}
    /\ repairs = 0
    /\ main = "config"
    /\ loaded = FALSE
    /\ refresher = "none"

-----------------------------------------------------------------------------
(* main.                                                                   *)

\* from_env succeeds.
Configured == env.urls = "all" /\ env.interval # Garbage

\* The seconds between two reloads: 60 unless the environment says otherwise.
Interval == IF env.interval = Unset THEN 60 ELSE env.interval

\* An await of main ends with Ok, or `?' makes main return the Err.
Proceeds(from, ok, to) ==
    /\ main = from
    /\ main' = IF ok THEN to ELSE "failed"

FromEnv ==
    /\ Proceeds("config", Configured, "pool")
    /\ UNCHANGED << connVars, env, database, repairs, loaded, refresher >>

ConnectPool ==
    /\ Proceeds("pool", database # "down", "rules")
    /\ UNCHANGED << connVars, env, database, repairs, loaded, refresher >>

\* Mutant: a failed load is logged and the engine starts with no rules.
LoadRulesOrNone ==
    /\ Proceeds("rules", TRUE, "spawn")
    /\ loaded' = (database = "good")
    /\ UNCHANGED << connVars, env, database, repairs, refresher >>

\* load_active_rules: an unknown rule type fails it as well.
LoadRules ==
    /\ Proceeds("rules", database = "good", "spawn")
    /\ loaded' = (database = "good")
    /\ UNCHANGED << connVars, env, database, repairs, refresher >>

\* The three actors are spawned; the consumer is told StartConsuming, whose
\* handler spawns the AMQP task.
SpawnActors ==
    /\ Proceeds("spawn", TRUE, "refresh")
    /\ step' = "connect"
    /\ UNCHANGED << reachable, topology, backoff, connHist, env, database,
                    repairs, loaded, refresher >>

StartRefresh ==
    /\ Proceeds("refresh", TRUE, "serving")
    /\ refresher' = "spawned"
    /\ UNCHANGED << connVars, env, database, repairs, loaded >>

\* What a process that has ended leaves of the AMQP task: nothing.
NoTask ==
    /\ step' = "none"
    /\ backoff' = 1
    /\ failures' = 0
    /\ consumed' = FALSE
    /\ UNCHANGED << reachable, topology, deletions, tampered >>

\* Mutant: a build without panic = "abort": only the task goes.
RefresherPanicsAlone ==
    /\ refresher = "spawned"
    /\ Interval = 0
    /\ refresher' = "panicked"
    /\ UNCHANGED << connVars, env, database, repairs, main, loaded >>

\* tokio's interval panics on a period of zero; panic = "abort" (Cargo.toml).
RefresherPanics ==
    /\ refresher = "spawned"
    /\ Interval = 0
    /\ refresher' = "panicked"
    /\ main' = "aborted"
    /\ NoTask
    /\ UNCHANGED << env, database, repairs, loaded >>

\* The first tick, which is immediate, and into the loop.
RefresherTicks ==
    /\ refresher = "spawned"
    /\ Interval > 0
    /\ refresher' = "looping"
    /\ UNCHANGED << connVars, env, database, repairs, main, loaded >>

-----------------------------------------------------------------------------
(* Around the process.                                                     *)

\* It is started again after it has failed, or after it was killed.
Restart ==
    /\ main' = "config"
    /\ loaded' = FALSE
    /\ refresher' = "none"
    /\ NoTask
    /\ UNCHANGED << env, database, repairs >>

RestartFailed == main \in {"failed", "aborted"} /\ Restart
Killed == main \notin {"failed", "aborted", "config"} /\ Restart

\* The environment is a running process's own: changes count from the next
\* start on, the database's from now on.
Repair ==
    /\ repairs < MaxRepairs
    /\ repairs' = repairs + 1
    /\ \/ /\ main \in {"failed", "aborted"}
          /\ env' \in Envs
          /\ UNCHANGED database
       \/ /\ database' \in {"down", "bad_rule", "good"}
          /\ UNCHANGED env
    /\ UNCHANGED << connVars, mainVars >>

MainStep ==
    \/ FromEnv \/ ConnectPool \/ LoadRules \/ SpawnActors \/ StartRefresh
RefresherStep == RefresherPanics \/ RefresherTicks
AmqpStep == TaskStep /\ UNCHANGED << env, database, repairs, mainVars >>
AmqpBroker == BrokerStep /\ UNCHANGED << env, database, repairs, mainVars >>

Next ==
    \/ MainStep \/ RefresherStep \/ AmqpStep
    \/ AmqpBroker \/ RestartFailed \/ Killed \/ Repair

Spec == Init /\ [][Next]_vars

(***************************************************************************)
(* Fairness: the tasks of a process that can go on do; the sleep of the    *)
(* backoff ends; a process that has failed is started again.  Nothing says *)
(* that the broker, the database or the environment gets better.           *)
(***************************************************************************)
Fairness ==
    /\ WF_vars(MainStep)
    /\ WF_vars(RefresherStep)
    /\ WF_vars(AmqpStep)
    /\ WF_vars(RestartFailed)

FairSpec == Spec /\ Fairness

-----------------------------------------------------------------------------
(* Properties.                                                             *)

\* The task connects, declares and consumes only in a process that had a
\* complete configuration, reached its database and loaded its rules: no
\* delivery is ever judged by an engine that has none because a load failed.
\* A database that fails later changes nothing.
ConsumesUnderRules ==
    step # "none" =>
        /\ loaded /\ Configured
        /\ main \in {"refresh", "serving"}

\* A process never goes on serving without its reload task, under rules that
\* nobody would update any more: the task gets into its loop, or the process
\* ends with it (an interval of 0), or is killed.
RefresherGuards ==
    main = "serving" ~> refresher = "looping" \/ main # "serving"

\* When the world around it is in order and stays so, the process ends up
\* serving, with rules, reload task and a consumer, whatever it went through:
\* failed starts, half-made handshakes, deleted queues.
InOrder ==
    /\ Configured /\ Interval > 0
    /\ database = "good"
    /\ reachable /\ work # "plain"

Serves ==
    <>[][InOrder /\ ~ Killed /\ ~ Delete]_vars /\ <>[]InOrder
        => <>[](main = "serving" /\ refresher = "looping" /\ step = "consuming")
=============================================================================
