---- MODULE MCSqlReaders ----
(* An instance of SqlReaders: one run describes a table or lists the values *)
(* of dimensions while others execute the model's SQL.                      *)
EXTENDS SqlReaders

CONSTANT u1

DescribeAndQuery ==
    [u \in Runs |-> IF u = u1 THEN {"tables", "dimensions"} ELSE {"execute"}]
====
