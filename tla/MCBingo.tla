------------------------------- MODULE MCBingo -------------------------------
(* Bingo on a small card.                                                  *)
EXTENDS Bingo

FourPeople == <<"minsu", "jisu", "minsu", "hana">>
TheFirst   == {1}
(* The first player names the others in one cell or two, and themselves; the
   second has two cells, and a person for both.                            *)
TwoCards ==
    {<<1, 0, 2>>, <<1, 0, 3>>, <<1, 1, 3>>, <<1, 2, 4>>, <<1, 0, 1>>,
     <<2, 0, 1>>, <<2, 1, 1>>, <<2, 1, 3>>}
==============================================================================
