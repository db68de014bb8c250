-------------------------- MODULE MCClientSession --------------------------
(***************************************************************************)
(* A tab used by one user of every role in turn.                           *)
(***************************************************************************)
EXTENDS ClientSession

MCUsers == Roles
MCArrivals == {"system_admin", "employee"}
\* Other pages are reached by links.
MCAddresses == {"/master-data/assets/r", "/profile", "/fm-tickets/f/edit"}
MCMaxAsks == 2
MCMaxSaves == 1

=============================================================================
