---------------------------- MODULE MCAlertPipeline ----------------------------
(***************************************************************************)
(* AlertPipeline on a small instance: one rule on failures of both jobs and *)
(* one on the success rate of one of them, which can fire at any event.     *)
(***************************************************************************)
EXTENDS AlertPipeline

CONSTANTS a, b, onFailure, onSla, chan

\* The second rule has no channel, so that only one rule pages.
RuleRows ==
  [r \in Rules |->
    IF r = onFailure
    THEN [cond |-> "failed", jobs |-> Jobs, chans |-> {chan}, repeats |-> FALSE, hours |-> FALSE]
    ELSE [cond |-> "sla_breach", jobs |-> {a}, chans |-> {}, repeats |-> TRUE, hours |-> TRUE]]

\* Two rules that page about the same job.
PagingRows == [r \in Rules |-> [RuleRows[r] EXCEPT !.chans = {chan}]]
================================================================================
