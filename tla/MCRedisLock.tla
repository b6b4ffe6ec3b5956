---------------------------- MODULE MCRedisLock ----------------------------
(* Instances of RedisLock: a waiting caller with a few attempts, and the    *)
(* options runAsClusterSingleton passes.                                    *)
EXTENDS RedisLock

\* { ttl: job.lockTtlMs, maxRetries: 0 }, src/src/common/scheduling/cluster-singleton.ts:25
ClusterSingletonRetries == 0
=============================================================================
