---------------------------- MODULE MCElasticJob ----------------------------
(***************************************************************************)
(* Small instances of ElasticJob: a plain job and a cyclic one, each the   *)
(* only user of its key, its lock and, when both are there, of one tag.    *)
(***************************************************************************)
EXTENDS ElasticJob, TLC

AsIs == [j \in Job |-> j]
OneTag == [j \in Job |-> "tag"]
NodeSymmetry == Permutations(Node)
=============================================================================
