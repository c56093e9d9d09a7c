---------------------------- MODULE MC_Frontend ----------------------------
(* Small values for the module Frontend.                                   *)
EXTENDS Frontend, TLC

CONSTANTS alice, bob

(* The calls, rejected requests and changes of the key of each page; none  *)
(* when another part is in use.                                            *)
MCPages ==
    LET Bound(c, l, k) == [calls |-> c, lost |-> l, keys |-> k] IN
    ({} :> Bound(0, 0, 0) @@ {"row"} :> Bound(3, 0, 0)
     @@ {"card"} :> Bound(2, 0, 1) @@ {"browse"} :> Bound(0, 0, 0)
     @@ {"card", "row"} :> Bound(1, 1, 1) @@ {"form"} :> Bound(2, 1, 0)
     @@ {"create"} :> Bound(2, 1, 0))

(* One account with two pages of history, one with a single page.          *)
MCHistoryPages == (alice :> 2 @@ bob :> 1)

(* Two campaigns of one reward and one of another; a list that is shorter. *)
MCTableRows ==
    LET Row(id, reward) == [id |-> id, reward_amount |-> reward,
                            active |-> TRUE]
    IN  {<<Row(1, 2), Row(2, 1), Row(3, 2)>>, <<Row(3, 2)>>}

MCSearches == ("" :> {1, 2, 3} @@ "1" :> {1} @@ "4" :> {})

MCListed == <<1, 2, 3>>

MCFinds == ("x" :> <<1>> @@ "y" :> <<1, 2>> @@ "z" :> <<>>)
=============================================================================
