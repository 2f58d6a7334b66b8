---------------------------- MODULE MCJobClient ----------------------------
(* One call of the SDK next to one request of another job. *)
EXTENDS JobClient

MCRequests == Posts \cup {<<"other", 1>>}
=============================================================================
