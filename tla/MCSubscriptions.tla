-------------------------- MODULE MCSubscriptions --------------------------
(***************************************************************************)
(* One subscription for TLC: two handlers at a time, two customers, plans of *)
(* two days or one unit of data, deleted the day after their end.             *)
(***************************************************************************)
EXTENDS Subscriptions

CONSTANTS sub, c1, c2, h1, h2

MCFirst == [s \in Schemes |->
    [status |-> "active", name |-> "old", owner |-> c1,
     plan |-> IF s = "appends" THEN "data" ELSE "time"]]
=============================================================================
