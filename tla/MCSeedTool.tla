----------------------------- MODULE MCSeedTool -----------------------------
(* Two plans and two templates, the template of each plan having the id of *)
(* the other.                                                              *)
EXTENDS SeedTool

Shift(days) == [id |-> 1, start |-> 0, end |-> 1, days |-> days]
TemplatesTwo == <<<<Shift(<<1>>)>>, <<Shift(<<1, 2>>)>>>>
PlansCrossed == <<2, 1>>
=============================================================================
