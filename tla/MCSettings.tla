----------------------------- MODULE MCSettings -----------------------------
(* Instances of Settings for TLC. *)
EXTENDS Settings

\* The defaults' keys and the callers', as sort orders them: "-" < "." < "a".
DottedKeys ==
  <<<<"", "storage">>, <<"election-interval">>, <<"log-level">>,
    <<"raftdb", "max-open-files">>, <<"raftstore", "pd-store-heartbeat-tick-interval">>,
    <<"replication">>, <<"replication", "max-replicas">>,
    <<"rocksdb", "max-open-files">>, <<"schedule", "low-space-ratio">>,
    <<"schedule", "patrol-region-interval">>, <<"server", "graceful-shutdown-timeout">>,
    <<"storage">>, <<"storage", "">>, <<"storage", "api-version">>,
    <<"storage", "block-cache">>, <<"storage", "block-cache", "capacity">>,
    <<"storage", "reserve-raft-space">>, <<"storage", "reserve-space">>,
    <<"storage", "reserve-space", "", "deep">>, <<"storage", "reserve-space", "deep">>,
    <<"tick-interval">>>>

CallerKeys ==
  {<<"", "storage">>, <<"log-level">>, <<"replication">>, <<"replication", "max-replicas">>,
   <<"storage">>, <<"storage", "">>, <<"storage", "api-version">>, <<"storage", "block-cache">>,
   <<"storage", "reserve-space">>, <<"storage", "reserve-space", "", "deep">>,
   <<"storage", "reserve-space", "deep">>}

\* Up to three keys, each with any kind of value.
SmallOverrides ==
  UNION {[ks -> {"override", "nil", "table"}] :
           ks \in UNION {kSubset(n, CallerKeys) : n \in 0..3}}
=============================================================================
