------------------------------- MODULE MCBoard --------------------------------
(* Geometries of one to four channels with words of two bytes: good ones,   *)
(* from a hugepage per unit to one of more units than a bitmap holds, and   *)
(* for each check one that only it refuses; and one bank of three lanes,    *)
(* whose BF16 has three bits of exponent and one of fraction.               *)
EXTENDS PimBoard, PimBank

P(nch, nbank, row, hugepage, nr, page, map) ==
  [nch |-> nch, nbank |-> nbank, row |-> row, map |-> map, hugepage |-> hugepage, page |-> page,
   base |-> 2 * hugepage, span |-> (nr * hugepage) \div nch, gbase |-> 3 * page, gsize |-> 3 * page]
Good ==
  UNION {{P(1, 1, 2, 8, 1, 2, map), P(2, 2, 2, 16, 2, 4, map), P(2, 1, 4, 8, 4, 4, map),
          P(4, 2, 2, 16, 4, 2, map), P(2, 2, 4, 16, 5, 4, map), P(1, 1, 2, 32, 1, 4, map)} : map \in Maps}
Default == P(2, 2, 4, 16, 4, 4, "RoChBaCo")
Bad ==
  {P(3, 2, 4, 32, 3, 4, "RoChBaCo"), P(2, 3, 4, 32, 2, 4, "RoChBaCo"), P(2, 2, 1, 16, 2, 4, "RoChBaCo"),
   P(4, 2, 4, 16, 4, 4, "RoChBaCo"), P(2, 2, 4, 24, 2, 4, "RoChBaCo"), P(2, 2, 4, 16, 2, 1, "RoChBaCo"),
   [Default EXCEPT !.base = 40], [Default EXCEPT !.gbase = 6], [Default EXCEPT !.gsize = 6],
   [Default EXCEPT !.span = 0], [Default EXCEPT !.gsize = 0], [Default EXCEPT !.span = 12]}
MCParameters == Good \cup Bad

(* Weights and operands far apart, subnormal, of both signs, and infinite.  *)
B(s, e, f) == [s |-> s, e |-> e, f |-> f]
MCOperand == {B(0, 3, 0), B(1, 3, 1), B(0, 6, 1), B(0, 0, 1), B(1, 1, 0)}
MCWeight == MCOperand \cup {B(0, 7, 0)}
MCStale == {BfZero, B(0, 6, 1), B(1, 7, 0)}

(* The two share no state: each moves while the other is at its start.      *)
MCInit == Init /\ Start
MCNext ==
  \/ bank = <<Empty, Empty, FALSE>> /\ Next /\ UNCHANGED bank
  \/ vars = <<NotLoaded, {}, NoCtx, NoRec>> /\ Feed /\ UNCHANGED vars
MCSpec == MCInit /\ [][MCNext]_<<vars, bank>>
==============================================================================
