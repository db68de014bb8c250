-------------------------- MODULE ClientAgreement --------------------------
(***************************************************************************)
(* The gates of the pages of the client and those of the server's requests *)
(* agree, and the pages the client sends its user to are there. These are  *)
(* closed formulas over the tables of the client, without parameters or    *)
(* variables: TLC evaluates them in every run of a module that extends     *)
(* this one, for every page and every role.                                *)
(***************************************************************************)
EXTENDS ClientGates

ASSUME GatesAssumption == GatesAgree
ASSUME PagesAssumption ==
    {"/dashboard", "/my-requests", "/my-requests/new", "/my-requests/f"} \subseteq DOMAIN Pages

=============================================================================
