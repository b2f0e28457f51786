-------------------------------- MODULE Services --------------------------------
(***************************************************************************)
(* What the services behind the HTTP API share: the accounts that call them,*)
(* the slots of the requests in flight, and the absence of a value.         *)
(***************************************************************************)
CONSTANTS
    Users,     \* identifiers of accounts
    Requests,  \* slots for requests in flight
    None       \* no user, row, token or text

ASSUME ServicesAssumption == None \notin Users \cup Requests

=============================================================================
