--------------------------- MODULE MCTicketIntake ---------------------------
(***************************************************************************)
(* Instances of TicketIntake for TLC: concerns with all the photos that    *)
(* nobody reviews, from the form on; a concern with one photo and one      *)
(* analysis, reviewed on the ticket's page and on its edit form with two   *)
(* decisions under way at most; and a requester's with one photo, from the *)
(* page of the ticket on, reviewed on the edit form while a second         *)
(* analysis is asked for.                                                  *)
(***************************************************************************)
EXTENDS TicketIntake

OnePhoto == {CHOOSE p \in Photos : TRUE}

MCConcerns == {
    [form |-> "requester", photos |-> Photos, reviewed |-> {}, decisions |-> 0,
     start |-> "filling"],
    [form |-> "staff", photos |-> Photos, reviewed |-> {}, decisions |-> 0, start |-> "filling"],
    [form |-> "staff", photos |-> OnePhoto, reviewed |-> {"ticket", "form"}, decisions |-> 2,
     start |-> "filling"],
    [form |-> "requester", photos |-> OnePhoto, reviewed |-> {"form"}, decisions |-> 1,
     start |-> "page"]}
=============================================================================
