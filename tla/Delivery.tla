------------------------------- MODULE Delivery --------------------------------
(***************************************************************************)
(* What is done in a customer's name once something is built: approvals    *)
(* and the wiring of an application, the marketplace, and compliance.  The *)
(* three share the client and nothing else, so a behaviour is of one.      *)
(***************************************************************************)
EXTENDS Approvals, Listings, Compliance

vars == <<errand, approvalVars, listingVars, complianceVars>>

Init ==
  /\ ErrandInit /\ ApprovalInit
  /\ IF task = "market" THEN ListingInit ELSE listing = NoListing /\ seller = "none"
  /\ IF task = "compliance" THEN ComplianceInit
     ELSE record = Sound /\ key = "withheld"

ServerStep ==
  /\ ~Idle
  /\ \/ ApprovalStep /\ UNCHANGED <<listingVars, complianceVars>>
     \/ ListingStep /\ UNCHANGED <<approvalVars, complianceVars>>
     \/ ComplianceStep /\ UNCHANGED <<approvalVars, listingVars>>

Caller ==
  \/ task = "approvals" /\ ApprovalCall /\ UNCHANGED <<listingVars, complianceVars>>
  \/ task = "market" /\ ListingCall /\ UNCHANGED <<approvalVars, complianceVars>>
  \/ task = "compliance" /\ ComplianceCall /\ UNCHANGED <<approvalVars, listingVars>>

World ==
  \/ task = "approvals" /\ Review /\ UNCHANGED <<listingVars, complianceVars>>
  \/ task = "market" /\ Changed /\ UNCHANGED <<approvalVars, complianceVars>>
  \/ task = "compliance" /\ Ages /\ UNCHANGED <<approvalVars, listingVars>>

Next == ServerStep \/ Caller \/ World

Spec == Init /\ [][Next]_vars
================================================================================
