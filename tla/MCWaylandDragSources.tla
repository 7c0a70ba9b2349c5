------------------------ MODULE MCWaylandDragSources ------------------------
(* One client with one data source and one surface, one extended drag     *)
(* source id and two toplevel drag ids (so two drags can name one source),*)
(* each id bound at most twice.                                            *)
EXTENDS WaylandDragSources

CONSTANTS d1, s1, e1, t1, t2

MCDataSources == {d1}
MCSurfaces == {s1}
MCExtSources == {e1}
MCToplevelDrags == {t1, t2}
=============================================================================
