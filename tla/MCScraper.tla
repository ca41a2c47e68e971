-------------------------------- MODULE MCScraper -------------------------------
(* An instance of ScraperChain: LinkedIn with two pages of two jobs and a detail *)
(* cap of three, Wuzzuf with pages of one job.                                   *)
EXTENDS ScraperChain

CONSTANTS l1, l2, l3, l4, w1, w2

MCJobs == {l1, l2, l3, l4, w1, w2}
MCInitial == [p \in Platforms |-> IF p = "LinkedIn" THEN <<l3, l2, l1>> ELSE <<w1>>]
MCToPost == [p \in Platforms |-> IF p = "LinkedIn" THEN <<l4>> ELSE <<w2>>]
MCNoText == {l2, w2}
MCPerPage == [p \in Platforms |-> IF p = "LinkedIn" THEN 2 ELSE 1]
MCMaxPages == [p \in Platforms |-> 2]
=============================================================================
