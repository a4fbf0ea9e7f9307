------------------------------ MODULE Accounts ------------------------------
(* What the components of the API server share: the accounts.               *)

CONSTANTS
  Users,   \* accounts
  None     \* absent key, field or row

ASSUME AccountsAssumption == None \notin Users

=============================================================================
