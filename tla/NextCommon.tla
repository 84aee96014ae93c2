----------------------------- MODULE NextCommon -----------------------------
(***************************************************************************)
(* What the services of the Next.js backend have in common: the people who *)
(* ask, each known by the normalised e-mail address.                       *)
(***************************************************************************)
CONSTANTS
    Users,             \* e-mail addresses
    None               \* nobody, and what is missing

ASSUME NextCommonAssumption == None \notin Users
=============================================================================
