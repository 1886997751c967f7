------------------------------ MODULE MCWebsite ------------------------------
(* Values for the constants of Website.                                    *)
EXTENDS Website

CONSTANTS a, b, factory

MCThresholds == {[bottom |-> -50000, target |-> 60]}
MCDefaultThresholds == [bottom |-> -50000, target |-> 60]

WebsiteBudget == [crash |-> 1, error |-> 1, delete |-> 1, cut |-> 1, visit |-> 4, any |-> 4]
=============================================================================
