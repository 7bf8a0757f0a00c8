---------------------------- MODULE MCReplication ----------------------------
(***************************************************************************)
(* Small chambers for Replication: each makes one of the cases that matter *)
(* happen, and keeps everything else still.                                *)
(***************************************************************************)
EXTENDS Replication

CONSTANTS a, b, c

Still ==
  [devices |-> {a, b}, reach |-> {{a, b}}, writers |-> {}, newcomers |-> {},
   absent |-> {}, carriers |-> {}, reloads |-> {}, torn |-> FALSE,
   sweeping |-> FALSE, drops |-> 0]

\* An op has to pass through b to get from a to c.
InALine == [Still EXCEPT !.devices = {a, b, c}, !.reach = {{a, b}, {b, c}},
                         !.writers = {a}]

\* c has met nobody; a wrote an op, gave it to b, and is gone.
Joins == [Still EXCEPT !.devices = {a, b, c}, !.reach = {{b, c}},
                       !.newcomers = {c}, !.absent = {a}, !.carriers = {b}]

\* a writes while the tab of b is reloaded.
Reloaded == [Still EXCEPT !.writers = {a}, !.reloads = {b}, !.sweeping = TRUE]

\* a writes while its link to b fails.
Dropped == [Still EXCEPT !.writers = {a}, !.drops = 1, !.sweeping = TRUE]

\* Two cousins write in a mesh with a cycle.
Chatter == [Still EXCEPT !.devices = {a, b, c},
                         !.reach = {{a, b}, {b, c}, {a, c}},
                         !.writers = {a, b}]

\* a dies before its storage has caught up.
Dies == [Still EXCEPT !.reloads = {a}, !.torn = TRUE]

Chambers == {InALine, Joins, Reloaded, Dropped, Chatter, Dies}

\* c, which never linked to a, is reloaded.
Forgets == {[Joins EXCEPT !.newcomers = {}, !.reloads = {c}, !.sweeping = TRUE]}

\* a writes, and dies before its storage has caught up.
Torn == {[Dies EXCEPT !.writers = {a}]}
=============================================================================
