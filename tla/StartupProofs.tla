--------------------------- MODULE StartupProofs ----------------------------
(***************************************************************************)
(* What holds of every start of the process and every handshake, for any   *)
(* intervals and any number of repairs and deletions.                      *)
(*                                                                         *)
(* The three properties need to know what a step further on rests on: what *)
(* main has established so far, what the handshake has established so far, *)
(* and that the task sleeps only after a failure.                          *)
(***************************************************************************)
EXTENDS Startup, TLAPS

Established ==
    /\ main \in {"pool", "rules", "spawn", "refresh", "serving"} => Configured
    /\ main \in {"spawn", "refresh", "serving"} => loaded
    /\ step # "none" => main \in {"refresh", "serving"}

\* What was bound stays bound unless it is tampered with; what was declared
\* with the right arguments is not removed as a queue with the wrong ones.
Declared ==
    /\ step \in {"queue", "consume", "consuming"} =>
           tampered \/ (exchange /\ dlq /\ bound)
    /\ step \in {"consume", "consuming"} => work = "dead_letter"

Counted ==
    /\ BackoffCounts
    /\ step = "sleep" => failures > 0

StartupInv == TypeOK /\ Established /\ Declared /\ Counted

-----------------------------------------------------------------------------

\* The delays, and what makes each of them of the one before.
LEMMA DelaysDouble ==
    /\ Delays[1] = 1 /\ Delays[7] = 60 /\ Delays[8] = 60
    /\ \A n \in 1 .. 8 : Delays[n] \in 1 .. 60
    /\ \A n \in 1 .. 7 :
           Delays[n + 1] = IF 2 * Delays[n] < 60 THEN 2 * Delays[n] ELSE 60
<1>1. ASSUME NEW n \in 1 .. 7
      PROVE  Delays[n + 1] = IF 2 * Delays[n] < 60 THEN 2 * Delays[n] ELSE 60
  <2>1. n = 1 \/ n = 2 \/ n = 3 \/ n = 4 \/ n = 5 \/ n = 6 \/ n = 7
    OBVIOUS
  <2> QED BY <2>1 DEF Delays
<1>2. ASSUME NEW n \in 1 .. 8 PROVE Delays[n] \in 1 .. 60
  <2>1. n = 1 \/ n = 2 \/ n = 3 \/ n = 4 \/ n = 5 \/ n = 6 \/ n = 7 \/ n = 8
    OBVIOUS
  <2> QED BY <2>1 DEF Delays
<1>3. Delays[1] = 1 /\ Delays[7] = 60 /\ Delays[8] = 60
  BY DEF Delays
<1> QED BY <1>1, <1>2, <1>3

\* The names of the steps, written out.
LEMMA StepNames ==
    Steps = {"connect", "exchange", "dlq", "bind", "queue", "consume", "none",
             "consuming", "sleep"}
<1>1. { Handshake[i] : i \in 1 .. 6 } =
          {"connect", "exchange", "dlq", "bind", "queue", "consume"}
  <2>1. \A i \in 1 .. 6 : i = 1 \/ i = 2 \/ i = 3 \/ i = 4 \/ i = 5 \/ i = 6
    OBVIOUS
  <2> QED BY <2>1 DEF Handshake
<1> QED BY <1>1 DEF Steps

\* Everything starts well.
LEMMA StartupInit == Init => StartupInv
<1> SUFFICES ASSUME Init PROVE StartupInv
  OBVIOUS
<1>1. ConnTypeOK
  <2>1. 0 \in 0 .. MaxDeletions /\ 0 \in 0 .. Enough /\ 1 \in 1 .. 60
    BY ConnectionBounds DEF ConnectionBounds, Enough
  <2>2. "none" \in Steps
    BY StepNames
  <2> QED BY <2>1, <2>2 DEF Init, ConnInit, ConnTypeOK
<1>2. TypeOK
  <2>1. 0 \in 0 .. MaxRepairs
    BY StartupBounds DEF StartupBounds
  <2> QED BY <1>1, <2>1 DEF Init, TypeOK, MainSteps
<1>3. Established /\ Declared
  BY DEF Init, ConnInit, Established, Declared
<1>4. Counted
  BY DelaysDouble DEF Init, ConnInit, Counted, BackoffCounts
<1> QED BY <1>2, <1>3, <1>4 DEF StartupInv

\* A step of main that goes on, or fails and ends the process.
LEMMA MainKeeps == ASSUME StartupInv, MainStep PROVE StartupInv'
<1> USE DEF StartupInv, MainStep, FromEnv, ConnectPool, LoadRules, SpawnActors,
            StartRefresh, Proceeds
<1>1. ConnTypeOK'
  BY StepNames
     DEF TypeOK, ConnTypeOK, connVars, topology, connHist
<1>2. TypeOK'
  BY <1>1 DEF TypeOK, MainSteps
<1>3. Established'
  BY DEF Established, Configured, connVars
<1>4. Declared'
  BY DEF Declared, connVars, topology, connHist
<1>5. Counted'
  <2>1. \/ UNCHANGED << step, backoff, failures >>
        \/ step = "none" /\ step' = "connect" /\ UNCHANGED << backoff, failures >>
    BY DEF Established, connVars, connHist
  <2> QED BY <2>1 DEF Counted, BackoffCounts
<1> QED BY <1>2, <1>3, <1>4, <1>5

\* A process that ends takes the task with it.
LEMMA NoTaskKeeps ==
    ASSUME ConnTypeOK, NoTask
    PROVE  ConnTypeOK' /\ step' = "none" /\ Declared' /\ Counted'
<1> USE DEF NoTask, topology
<1>1. ConnTypeOK'
  <2>1. 0 \in 0 .. Enough /\ 1 \in 1 .. 60 /\ "none" \in Steps
    BY StepNames DEF Enough
  <2> QED BY <2>1 DEF ConnTypeOK
<1>2. Declared'
  BY DEF Declared
<1>3. Counted'
  BY DelaysDouble DEF Counted, BackoffCounts
<1> QED BY <1>1, <1>2, <1>3

\* The reload task starts its loop or ends the process; the process ends and
\* starts again; someone repairs what was wrong.
LEMMA ProcessKeeps ==
    ASSUME StartupInv, RefresherStep \/ RestartFailed \/ Killed \/ Repair
    PROVE  StartupInv'
<1> USE DEF StartupInv
<1>1. CASE RefresherTicks \/ Repair
  <2>1. UNCHANGED connVars
    BY <1>1 DEF RefresherTicks, Repair
  <2>2. ConnTypeOK' /\ Declared' /\ Counted'
    BY <2>1 DEF TypeOK, ConnTypeOK, Declared, Counted, BackoffCounts, connVars,
                topology, connHist
  <2>3. TypeOK'
    BY <1>1, <2>2, StartupBounds
       DEF RefresherTicks, Repair, TypeOK, mainVars, StartupBounds
  <2>4. Established'
    BY <1>1, <2>1
       DEF RefresherTicks, Repair, Established, Configured, connVars, mainVars
  <2> QED BY <2>2, <2>3, <2>4
<1>2. CASE RefresherPanics \/ RestartFailed \/ Killed
  <2>1. NoTask /\ UNCHANGED << env, database, repairs >>
        /\ main' \in {"aborted", "config"}
        /\ loaded' \in {loaded, FALSE} /\ refresher' \in {"panicked", "none"}
    BY <1>2 DEF RefresherPanics, RestartFailed, Killed, Restart
  <2>2. ConnTypeOK' /\ step' = "none" /\ Declared' /\ Counted'
    BY <2>1, NoTaskKeeps DEF TypeOK
  <2>3. TypeOK'
    BY <2>1, <2>2 DEF TypeOK, MainSteps
  <2>4. Established'
    BY <2>1, <2>2 DEF Established
  <2> QED BY <2>2, <2>3, <2>4
<1> QED BY <1>1, <1>2 DEF RefresherStep

-----------------------------------------------------------------------------
(* The task.                                                               *)

\* A call of the handshake that is answered.
LEMMA HandshakeKeeps ==
    ASSUME ConnTypeOK, Declared, Counted, HandshakeStep
    PROVE  /\ ConnTypeOK' /\ Declared' /\ Counted'
           /\ step # "none"
<1> USE DEF HandshakeStep, ConnectBroker, DeclareExchange, DeclareDlq, BindDlq,
            DeclareQueue, BasicConsume, Answered, topology
<1>1. ConnTypeOK'
  BY StepNames DEF ConnTypeOK
<1>2. Declared'
  BY DEF Declared
<1>3. Counted'
  <2>1. step # "sleep" /\ step' # "sleep" /\ UNCHANGED << backoff, failures >>
    OBVIOUS
  <2> QED BY <2>1 DEF Counted, BackoffCounts
<1> QED BY <1>1, <1>2, <1>3

\* A failure is counted, and the sleep that follows it is the one for it.
LEMMA FailsKeeps ==
    ASSUME ConnTypeOK, Counted, Fails
    PROVE  ConnTypeOK' /\ Declared' /\ Counted' /\ step # "none"
<1> USE DEF Fails, topology, Enough
<1>0. failures \in 0 .. 7 /\ failures' \in 1 .. 7 /\ "sleep" \in Steps
  BY StepNames DEF ConnTypeOK
<1>1. ConnTypeOK'
  BY <1>0 DEF ConnTypeOK
<1>2. Counted'
  <2>1. backoff' = Delays[failures + 1]
    BY DEF Counted, BackoffCounts
  <2>2. Delays[failures + 1] = Delays[failures']
    BY <1>0, DelaysDouble
  <2> QED BY <1>0, <2>1, <2>2 DEF Counted, BackoffCounts
<1> QED BY <1>1, <1>2 DEF Declared

\* After the sleep the delay is doubled, up to a minute.
LEMMA AwakeKeeps ==
    ASSUME ConnTypeOK, Counted, Awake
    PROVE  ConnTypeOK' /\ Declared' /\ Counted' /\ step # "none"
<1> USE DEF Awake, topology, Enough
<1>0. failures \in 1 .. 7 /\ failures' = failures /\ "connect" \in Steps
  BY StepNames DEF ConnTypeOK, Counted
<1>1. backoff = Delays[failures]
  BY DEF Counted, BackoffCounts
<1>2. backoff' = Delays[failures + 1]
  BY <1>0, <1>1, DelaysDouble
<1>3. backoff' \in 1 .. 60
  BY <1>0, <1>2, DelaysDouble
<1>4. ConnTypeOK'
  BY <1>0, <1>3 DEF ConnTypeOK
<1>5. Counted'
  BY <1>0, <1>2 DEF Counted, BackoffCounts
<1> QED BY <1>4, <1>5 DEF Declared

\* What happens to the broker and to what was declared.
LEMMA BrokerKeeps ==
    ASSUME ConnTypeOK, Declared, Counted, BrokerStep
    PROVE  ConnTypeOK' /\ Declared' /\ Counted' /\ step' = step
<1> USE DEF BrokerStep, BrokerFlips, Delete, RemovePlainQueue, topology, connHist
<1>1. ConnTypeOK'
  <2>1. CASE BrokerFlips
    BY <2>1 DEF ConnTypeOK
  <2>2. CASE Delete
    <3>1. deletions' \in 0 .. MaxDeletions
      BY <2>2, ConnectionBounds DEF ConnTypeOK, ConnectionBounds
    <3> QED BY <2>2, <3>1 DEF ConnTypeOK
  <2>3. CASE RemovePlainQueue
    BY <2>3 DEF ConnTypeOK
  <2> QED BY <2>1, <2>2, <2>3
<1>2. Declared'
  BY DEF Declared
<1>3. Counted'
  BY DEF Counted, BackoffCounts
<1> QED BY <1>1, <1>2, <1>3

\* Neither has to do with main.
LEMMA ConnectionKeeps ==
    ASSUME StartupInv, AmqpStep \/ AmqpBroker PROVE StartupInv'
<1> USE DEF StartupInv
<1>1. /\ ConnTypeOK' /\ Declared' /\ Counted'
      /\ step' # "none" => step # "none"
      /\ UNCHANGED << env, database, repairs, mainVars >>
  BY HandshakeKeeps, FailsKeeps, AwakeKeeps, BrokerKeeps
     DEF AmqpStep, AmqpBroker, TaskStep, TypeOK
<1>2. TypeOK'
  BY <1>1 DEF TypeOK, mainVars
<1>3. Established'
  BY <1>1 DEF Established, Configured, mainVars
<1> QED BY <1>1, <1>2, <1>3

\* The inductive invariant of start and handshake.
THEOREM StartupInvariant == Spec => []StartupInv
<1>1. StartupInv /\ UNCHANGED vars => StartupInv'
  BY DEF StartupInv, TypeOK, ConnTypeOK, Established, Configured, Declared,
         Counted, BackoffCounts, vars, connVars, topology, connHist, mainVars
<1>2. StartupInv /\ [Next]_vars => StartupInv'
  BY <1>1, MainKeeps, ProcessKeeps, ConnectionKeeps DEF Next
<1> QED BY StartupInit, <1>2, PTL DEF Spec

-----------------------------------------------------------------------------
(* The results.                                                            *)

\* Startup and connection are well typed; in particular the backoff stays
\* between a second and a minute.
THEOREM StartupTypeCorrect == Spec => []TypeOK
<1>1. StartupInv => TypeOK
  BY DEF StartupInv
<1> QED BY <1>1, StartupInvariant, PTL

\* Whatever is restarted, repaired or interrupted: the AMQP task runs only in
\* a process that was configured and has loaded its rules.
THEOREM TaskRunsUnderRules == Spec => []ConsumesUnderRules
<1>1. StartupInv => ConsumesUnderRules
  BY DEF StartupInv, Established, ConsumesUnderRules
<1> QED BY <1>1, StartupInvariant, PTL

\* However many handshakes were cut short and however much was deleted in
\* between: who consumes has a dead-letter queue, unless what it had bound was
\* deleted since.
THEOREM DeadLetterQueueReady == Spec => []DeadLetterReady
<1>1. StartupInv => DeadLetterReady
  BY DEF StartupInv, Declared, DeadLetterReady
<1> QED BY <1>1, StartupInvariant, PTL

\* The wait before the next attempt is that of the number of failures, never
\* more than a minute and never less for a connection that has worked.
THEOREM BackoffFollowsFailures == Spec => []BackoffCounts
<1>1. StartupInv => BackoffCounts
  BY DEF StartupInv, Counted
<1> QED BY <1>1, StartupInvariant, PTL
=============================================================================
