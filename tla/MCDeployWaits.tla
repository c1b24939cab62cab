----------------------------- MODULE MCDeployWaits -----------------------------
(* Instance of DeployWaits for TLC: each gate with its dependency, the chain  *)
(* of three, otel_collector without clickhouse, and a ring of three.          *)
EXTENDS DeployWaits

FiveBuckets ==
    {{"zookeeper", "postgres"}, {"kafka_controller", "kafka_broker"},
     {"clickhouse_keeper", "clickhouse", "otel_collector"}, {"otel_collector"}, {"cassandra"}}
TwoOrThree == [j \in Jobs |-> IF j = "cassandra" THEN 3 ELSE 2]
=============================================================================
