------------------------------- MODULE MCFunnel -------------------------------
(***************************************************************************)
(* What the stores may report in a day: one source, two that are put in    *)
(* one bucket, one of which is a download again.                           *)
(***************************************************************************)
EXTENDS TrafficFunnel

Line(name, count, new) == [source |-> name, units |-> count, first |-> new]

MCAppleDays == {
    <<Line("App Referrer", 1, TRUE), Line("Web Referrer", 2, TRUE)>>,
    <<Line("App Store Search", 2, TRUE), Line("App Store Search", 1, FALSE)>>}

MCPlayDays == {
    <<Line("Play Store search", 1, FALSE)>>,
    <<Line("Google Ads", 0, FALSE), Line("Third-party referrers", 1, FALSE)>>}
===============================================================================
