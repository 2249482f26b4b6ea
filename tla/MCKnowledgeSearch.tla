-------------------------- MODULE MCKnowledgeSearch --------------------------
(* DataSinkers and KnowledgeSearch for TLC: one descriptor about files and one *)
(* about tables whose collection's name is too long, so that PostgreSQL keeps  *)
(* the documents of both in one table.  The expert knows the second.           *)
EXTENDS KnowledgeSearch

Dd(ns, n, s) == [namespace |-> ns, name |-> n, source |-> s]
MCNamePart == {"a", "b", "c", "d"}
Long == Dd(<<"a">>, <<"b", "c", "d">>, "postgres")
Files == Dd(<<"a", "b">>, <<"c">>, "minio")
MCDescriptor == {Files, Long}
MCKnown == <<Long>>
=============================================================================
