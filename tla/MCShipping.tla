------------------------------ MODULE MCShipping ------------------------------
(* An instance of Shipping for TLC.                                          *)
EXTENDS Shipping

MCKinds == DOMAIN ADAPTERS
MCCallable ==
  [building |-> {"build", "status", "steer", "validate", "refine", "create"},
   using |-> {"run", "preview", "deploy", "teardown", "verify"}]
MCMaxCalls == [building |-> 5, using |-> 1]
MCMaxTrouble == [building |-> 2, using |-> 3]
MCMaxEdits == [building |-> 0, using |-> 1]

MCProviders == {"google_sheets"}
MCAccounts == {"Google Sheets", "Sheets of Google", "Unknown"}
MCPlain ==
  [p \in MCProviders \cup MCAccounts |->
    CASE p \in {"google_sheets", "Google Sheets"} -> "googlesheets" [] p = "Unknown" -> "unknown" [] OTHER -> "sheetsofgoogle"]
=============================================================================
