-------------------------- MODULE MCFinancePipeline --------------------------
(* FinancePipeline for the run of day 4 over day 2 (3 is a holiday), with a *)
(* contract on the books and one that may join them at any point, two       *)
(* interchangeable workers and two ingesters of the price of day 2.         *)
EXTENDS FinancePipeline, TLC

AnyWorker == Permutations(Workers)
=============================================================================
