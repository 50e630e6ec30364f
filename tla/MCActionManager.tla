--------------------------- MODULE MCActionManager ---------------------------
(* Three settings objects: the registered one, the ticker's and a handler's. *)
EXTENDS ActionManager

CONSTANTS o1, o2, o3, l1, l2, l3, g1, g2

AllObjects == {o1, o2, o3}
AllLists   == {l1, l2, l3}
AllGraphs  == {g1, g2}
=============================================================================
