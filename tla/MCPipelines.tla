------------------------------ MODULE MCPipelines ------------------------------
(* What runs beside the API, a part at a time, as no other state is shared: two   *)
(* executions of the training notebook with a worker that loads its models, or    *)
(* with an evaluation that triggers the second of them; the ingestion notebook;   *)
(* the simulator and its producer.                                                *)
EXTENDS MCModelLoading, MCBronze, Drift, Streaming

CONSTANTS a1, a2

VARIABLE part   \* the part that moves

Parts == {"loading", "drift", "bronze", "streaming"}

Reading(psi, alerts, false) == [psi |-> psi, alerts |-> alerts, false |-> false]

\* On both sides of each threshold, at it, and with a table of no alerts.
SomeReadings ==
    { Reading([risk_score |-> 26], 0, 0),
      Reading([risk_score |-> 25], 100, 15),
      Reading([anomaly_score |-> 12, confidence |-> 26], 100, 15),
      Reading(<<>>, 100, 16) }

\* The other two patterns take the same path through the loop and leave the target alone.
SomeCounts == [p \in Patterns |->
    CASE p = "SMURFING" -> {2} [] p = "ROUND_TRIPPING" -> {3} [] OTHER -> {}]

-----------------------------------------------------------------------------
PipelinesInit ==
    /\ part \in Parts
    /\ Init /\ DriftInit /\ BronzeInit /\ StreamInit

\* To a worker the two executions are alike: t1 is the one that registers first.
T1RegistersFirst == registry' # << >> => registry'[1].by = t1

PipelinesNext ==
    /\ \/ part = "loading" /\ Next /\ T1RegistersFirst /\ UNCHANGED <<dvars, bronzeVars, streamVars>>
       \/ part = "drift" /\ DriftNext /\ UNCHANGED <<lvars, bronzeVars, streamVars>>
       \/ part = "bronze" /\ BronzeNext /\ UNCHANGED <<vars, dvars, streamVars>>
       \/ part = "streaming" /\ StreamNext /\ UNCHANGED <<vars, dvars, bronzeVars>>
    /\ UNCHANGED part

allVars == <<vars, dvars, bronzeVars, streamVars, part>>

\* The fairness of FairSpec, DriftFairSpec, FairBronzeSpec and StreamFairSpec, owed to the
\* part that moves.
Moving(p, A) == part = p /\ A

PipelinesSpec ==
    /\ PipelinesInit /\ [][PipelinesNext]_allVars
    /\ \A w \in Workers : WF_vars(Moving("loading", LoadStep(w)))
    /\ WF_driftVars(Moving("drift", Drifting))
    /\ WF_driftVars(Moving("drift", Training(Triggered)))
    /\ WF_bronzeVars(Moving("bronze", BeginBatch \/ WriteBronze \/ LogMetrics \/ CommitBatch))
    /\ WF_streamVars(Moving("streaming", SendAcked \/ SendRaises))
    /\ WF_streamVars(Moving("streaming", DlqAcked \/ DlqRaises))
    /\ WF_streamVars(Moving("streaming", Stop))
=============================================================================
