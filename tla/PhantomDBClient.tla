--------------------------- MODULE PhantomDBClient ---------------------------
(***************************************************************************)
(* The PhantomDB REST client (src/src/clients/phantomdb.py) as the tools   *)
(* see it: each method is one HTTP request through _make_request(), which  *)
(* returns the server's answer or raises PhantomDBError.  The server is    *)
(* not part of this repository; its catalogue is the set of databases and  *)
(* the set of <<database, table>> pairs, and it rejects (HTTP error, so    *)
(* raise_for_status() raises) a request that names a missing database or   *)
(* table or creates one that exists.                                        *)
(*                                                                         *)
(* The network may lose a request before the server sees it, or lose the  *)
(* reply after the server applied it; either way requests raises and       *)
(* _make_request turns it into PhantomDBError.  A module that calls the    *)
(* client picks an outcome o \in Outcomes for each call, evaluates         *)
(* Raised(ok, o) in the state before the call, and conjoins the operator   *)
(* of the method with Applied(ok, o).                                       *)
(***************************************************************************)
EXTENDS Naturals

CONSTANTS
    DbNames,        \* the database names a caller may use
    TableNames,     \* the table names a caller may use
    RequestsFail    \* TRUE: the network may lose requests and replies

ASSUME ClientConstantsAssumption == RequestsFail \in BOOLEAN

VARIABLES
    dbs,            \* the databases the server has
    tables          \* the <<database, table>> pairs the server has

serverVars == <<dbs, tables>>

(* How a request fares on the network. *)
Outcomes ==
    IF RequestsFail THEN {"answered", "lost_request", "lost_reply"}
                    ELSE {"answered"}

(* _make_request(): the server applies a request it accepts unless the   *)
(* request is lost on the way; the caller sees PhantomDBError when the     *)
(* server rejects it (raise_for_status) or when either message is lost.    *)
Applied(ok, o) == ok /\ o # "lost_request"

Raised(ok, o) == ~ok \/ o # "answered"

(* Whether the server accepts each request. *)
CreateDatabaseOk(n) == n \notin dbs

DropDatabaseOk(n) == n \in dbs

CreateTableOk(n, t) == n \in dbs /\ <<n, t>> \notin tables

DropTableOk(n, t) == <<n, t>> \in tables

(* create_database(name): POST /databases. *)
CreateDatabase(n, applied) ==
    /\ dbs' = IF applied THEN dbs \cup {n} ELSE dbs
    /\ UNCHANGED tables

(* drop_database(name): DELETE /databases/{name}; the tables go with it. *)
DropDatabase(n, applied) ==
    /\ dbs' = IF applied THEN dbs \ {n} ELSE dbs
    /\ tables' = IF applied THEN {x \in tables : x[1] # n} ELSE tables

(* create_table(database, name, columns): POST .../tables. *)
CreateTable(n, t, applied) ==
    /\ tables' = IF applied THEN tables \cup {<<n, t>>} ELSE tables
    /\ UNCHANGED dbs

(* drop_table(database, name): DELETE .../tables/{name}. *)
DropTable(n, t, applied) ==
    /\ tables' = IF applied THEN tables \ {<<n, t>>} ELSE tables
    /\ UNCHANGED dbs

ServerTypeOK ==
    /\ dbs \subseteq DbNames
    /\ tables \subseteq DbNames \X TableNames
=============================================================================
