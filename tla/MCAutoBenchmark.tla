-------------------------- MODULE MCAutoBenchmark --------------------------
(* A finite instance of AutoBenchmark for TLC. *)
EXTENDS AutoBenchmark

Generators == <<"flat", "vanilla">>
StorageConfigs == <<"nostorage", "pg_raw", "pg_jsonb">>

\* The chunk in the middle, and one whose packet is shorter than the read,
\* which takes a second pass.
Reads == <<<<"c1">>, <<"c2", "c2">>>>
=============================================================================
