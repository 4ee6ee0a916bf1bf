---------------------------- MODULE MCRedisCodec ----------------------------
(* Instances of RedisCodec for TLC. *)
EXTENDS RedisCodec, TLC

Interchangeable == Permutations(Conns) \cup Permutations(Messages)

=============================================================================
