---------------------------- MODULE MCLaneScheduler ----------------------------
(***************************************************************************)
(* LaneScheduler with three lanes of one slot each and two slots in all;   *)
(* MCLimit has the default limits, which let one lane take both.           *)
(***************************************************************************)
EXTENDS LaneScheduler

MCLaneOrder == <<"basic", "custom", "competition">>
MCLimit == [l \in Lanes |-> IF l = "basic" THEN 2 ELSE 1]
MCOneEach == [l \in Lanes |-> 1]
================================================================================
