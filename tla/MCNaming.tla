------------------------------- MODULE MCNaming -------------------------------
(***************************************************************************)
(* Small instances of Naming: two routers, or three in a row where the one *)
(* in the middle has a network to each side.                               *)
(***************************************************************************)
EXTENDS Naming, TLC

CONSTANTS a, b, c, v1, v2, left, right

MCXports == {x \in Routers \X Routers : x \in {<<a, b>>, <<b, a>>, <<b, c>>, <<c, b>>}}
MCNetOf == [x \in MCXports |-> IF c \in {x[1], x[2]} THEN right ELSE left]
MCHomeOf == [v \in Servers |-> IF v = v1 THEN a ELSE b]

\* A tree: what is on the near side of each transport
MCSide == [x \in MCXports |->
  Routers \cap (IF c \in {x[1], x[2]} THEN (IF x[1] = c THEN {c} ELSE {a, b})
                ELSE (IF x[1] = a THEN {a} ELSE {b, c}))]
ASSUME MCTree == NoCycle(MCSide) /\ Tree(MCSide) /\ Connected /\ OwnNetworks
=============================================================================
