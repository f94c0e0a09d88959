------------------------------ MODULE MCEncoders -----------------------------
(* Encoders with short trains: the edges keep their order, no two trains   *)
(* have the same period or rise together throughout.                       *)
EXTENDS Encoders

MCEdge ==
  [t \in Train |-> CASE t = "A" -> <<2, 5, 6, 7>>       []  t = "B" -> <<2, 3, 4, 6>>
                    [] t = "A_speed" -> <<1, 3, 4, 5>> []  t = "B_speed" -> <<1, 2, 3, 4>>]

==============================================================================
