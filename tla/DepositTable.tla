---------------------------- MODULE DepositTable ----------------------------
(***************************************************************************)
(* The `deposits` table that the data syncer and the faucet share.  A      *)
(* table is a sequence of rows: the position of a row is its               *)
(* AUTO_INCREMENT id.  (InnoDB may skip ids after a rollback; nothing in   *)
(* the program depends on the ids being consecutive.)                      *)
(*                                                                         *)
(* The queries select by status.  None has an ORDER BY, but the status is  *)
(* read through `idx_status` or by a scan of the primary key, and InnoDB   *)
(* returns the rows of one status in id order either way.                  *)
(***************************************************************************)
EXTENDS Integers, Sequences, FiniteSets

Unprocessed == "unprocessed"
Processing  == "processing"
Done        == "done"
Ignored     == "ignored"

DepositStatus == {Unprocessed, Processing, Done, Ignored}

\* The ids of the rows of `table` that have the status s.
IdsWithStatus(table, s) == {i \in DOMAIN table : table[i].status = s}

\* SELECT ... LIMIT n: the n least of a set of ids.
FirstIds(ids, n) == {i \in ids : Cardinality({j \in ids : j < i}) < n}

\* i is the row the consumer of a stream receives next.
IsNext(i, ids) == i \in ids /\ \A j \in ids : i <= j

\* UPDATE `deposits` SET `status`=s WHERE `id`=i.
SetStatus(table, i, s) == [table EXCEPT ![i].status = s]
=============================================================================
