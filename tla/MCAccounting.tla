---------------------------- MODULE MCAccounting ----------------------------
(* Small instances for TLC: days of two ticks, months of three days.       *)
EXTENDS Accounting

\* One kind of event at a time, and pages read while checks fail.
MCScenes == {{"traffic"}, {"money"}, {"stops"}, {"crashes"}, {"requests", "errors"}}

=============================================================================
