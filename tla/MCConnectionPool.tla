-------------------------- MODULE MCConnectionPool --------------------------
(* Instances of ConnectionPool for TLC. *)
EXTENDS ConnectionPool, TLC

CONSTANTS t1, t2

(* Two callers; max_connections = 2 and min_connections = 3, which the    *)
(* constructor accepts and _create_connection clips to two connections.    *)
MCThreads2 == {t1, t2}

(* One caller, for the self-deadlock of acquire. *)
MCThreads1 == {t1}

(* Callers are interchangeable. *)
MCSymmetry2 == Permutations(MCThreads2)

=============================================================================
