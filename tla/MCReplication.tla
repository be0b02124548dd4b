--------------------------- MODULE MCReplication ---------------------------
(***************************************************************************)
(* Instances of Replication: commands of different lengths, direct writes  *)
(* and transactions of two, WAIT with and without a timeout.               *)
(***************************************************************************)
EXTENDS Replication, TLC

CONSTANTS c1, c2, r1

MCSize == [op \in Kinds |-> CASE op = "WRITE" -> 2 [] op = "GETACK" -> 3 [] OTHER -> 1]

OneReplica == {[required |-> 1, timeout |-> FALSE]}
AnyRequest == [required : {1, 2}, timeout : BOOLEAN]

ClientSymmetry == Permutations(Clients)
=============================================================================
