-------------------------- MODULE MCTicketWorkOrder --------------------------
(***************************************************************************)
(* Small instances of TicketWorkOrder for TLC.  Behaviours start with a    *)
(* new, fully described ticket (update_ticket takes it to the other        *)
(* profiles), or with a generated work order: that saves the bound on      *)
(* requests for the ones that race.                                        *)
(***************************************************************************)
EXTENDS TicketWorkOrder, TLC

RacesInit == (Init /\ ticket.profile = "with_asset") \/ GeneratedInit
RacesSpec == RacesInit /\ [][Next]_vars
AnsweredSpec == RacesSpec /\ Fairness

Symmetry == Permutations(Sessions)
=============================================================================
