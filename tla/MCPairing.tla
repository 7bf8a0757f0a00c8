------------------------------ MODULE MCPairing ------------------------------
(***************************************************************************)
(* Three devices and two invites, from the beginnings a chamber has.       *)
(***************************************************************************)
EXTENDS Pairing

Beginning(room, up, links, near, invites, scans) ==
  [room |-> room, up |-> up, links |-> links, near |-> near, invites |-> invites,
   scans |-> scans, seats |-> {}, reloads |-> <<0, 0, 0>>]
Own    == <<1, 2, 3>>                   \* every device made a room of its own
Everybody == {1, 2, 3}
Chain  == {{1, 2}, {1, 3}}
All    == Chain \cup {{2, 3}}
Paired == {{1, 2}}

MCStarts == {
  \* 2 may join 1 and 3 may join either, before 2 has or after
  Beginning(Own, Everybody, {}, All, <<1, 1, 0>>, <<0, 1, 1>>),
  \* 1 shows two invites at once, and their replies may be mixed up
  Beginning(Own, Everybody, {}, All, <<2, 0, 0>>, <<0, 1, 1>>),
  \* both pages are still loading, and that of the newcomer may be opened again
  [Beginning(Own, {}, {}, Paired, <<1, 0, 0>>, <<0, 1, 0>>) EXCEPT !.reloads = <<0, 1, 0>>],
  \* a seat's code as well, before or after
  [Beginning(Own, {1, 2}, {}, Paired, <<1, 0, 0>>, <<0, 1, 0>>) EXCEPT !.seats = {2}],
  \* somebody who sorts first joins two, and calls whom it is told of
  Beginning(<<1, 3, 3>>, Everybody, {{2, 3}}, All, <<0, 1, 0>>, <<1, 0, 0>>),
  \* somebody who sorts last joins two, has no way to the second, and comes back
  [Beginning(<<1, 1, 3>>, Everybody, Paired, Chain, <<1, 0, 0>>, <<0, 0, 1>>)
     EXCEPT !.reloads = <<0, 0, 1>>],
  \* one of three comes back, scans one code, and calls the other
  [Beginning(<<1, 1, 1>>, Everybody, All, All, <<1, 0, 0>>, <<0, 0, 1>>)
     EXCEPT !.reloads = <<0, 0, 1>>]}
MCNewcomer == {Beginning(<<1, 1, 3>>, Everybody, Paired, All, <<1, 0, 0>>, <<0, 0, 1>>)}
=============================================================================
