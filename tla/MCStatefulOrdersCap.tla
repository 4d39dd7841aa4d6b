------------------------- MODULE MCStatefulOrdersCap -------------------------
(* Two symbols of one session share the leverage cap. *)
EXTENDS StatefulOrders

CapSetups ==
    {[symbols |-> 2, stop |-> 2, latency |-> 1, retainDebt |-> FALSE,
      carry |-> TRUE, short |-> TRUE, kind |-> "market", settle |-> FALSE,
      profile |-> FALSE, roster |-> {}, direct |-> {}, orders |-> 0,
      positions |-> {-1, 0, 2}, flows |-> {0}, costs |-> {0}, volumes |-> {0, 3}]}
=============================================================================
