------------------------- MODULE WaylandDragSources -------------------------
(***************************************************************************)
(* The objects a client attaches to a wl_data_source to drive a drag:     *)
(* the zcr_extended_drag_source_v1 of src/src/wayland/                     *)
(* extdrag_v1_interface.cpp and the xdg_toplevel_drag_v1 of                *)
(* src/src/wayland/xdgtopleveldrag_v1_interface.cpp.                       *)
(*                                                                         *)
(* Each registers itself in the data source's private part through a raw  *)
(* pointer (extendedDragSource, xdgToplevelDrag), which the compositor's  *)
(* drag code reads, and holds the data source and the surface or toplevel *)
(* it was given.  Every object lives until the client destroys its        *)
(* resource; the client may destroy them in any order, and libwayland     *)
(* reuses a destroyed object's id.                                         *)
(*                                                                         *)
(* A raw pointer is modelled by the id and incarnation of the object it   *)
(* was set to, so that it stays distinguishable from a later object at    *)
(* the same address.  A QPointer reads as Null once its object is gone.   *)
(***************************************************************************)
EXTENDS Naturals

CONSTANTS DataSources,   \* wl_data_source objects of the client
          Surfaces,      \* wl_surface objects (with an xdg_toplevel role)
          ExtSources,    \* ids of zcr_extended_drag_source_v1 objects
          ToplevelDrags, \* ids of xdg_toplevel_drag_v1 objects
          MaxIncarnation,\* bound on how often an id is reused
          Null           \* nullptr

VARIABLES
    live,       \* the incarnation of each live object, 0 when it is destroyed
    inc,        \* the incarnation each object id had last
    dsPriv,     \* DataSourceInterfacePrivate: [extendedDragSource, xdgToplevelDrag]
    ext,        \* ExtDragSourceV1InterfacePrivate: [dataSource, surface]
    tdrag       \* XdgToplevelDragV1InterfacePrivate: [dataSource, toplevel]

vars == <<live, inc, dsPriv, ext, tdrag>>

Objects == DataSources \cup Surfaces \cup ExtSources \cup ToplevelDrags

(* A pointer to the current incarnation of object o.                      *)
Ptr(o) == <<o, inc[o]>>

(* A raw pointer is dangling when its object is gone or was replaced.     *)
Alive(p) == p = Null \/ live[p[1]] = p[2]

(* Reading a QPointer: the object while it lives, Null after.             *)
QPointerGet(p) == IF p # Null /\ live[p[1]] = p[2] THEN p ELSE Null

IsLive(o) == live[o] # 0

Init ==
    /\ live = [o \in Objects |-> IF o \in DataSources \cup Surfaces THEN 1 ELSE 0]
    /\ inc = [o \in Objects |-> IF o \in DataSources \cup Surfaces THEN 1 ELSE 0]
    /\ dsPriv = [d \in DataSources |-> [extendedDragSource |-> Null,
                                         xdgToplevelDrag |-> Null]]
    /\ ext = [e \in ExtSources |-> [dataSource |-> Null, surface |-> Null]]
    /\ tdrag = [t \in ToplevelDrags |-> [dataSource |-> Null, toplevel |-> Null]]

(* Create the next incarnation of object o (a free id the client binds).  *)
Create(o) ==
    /\ ~IsLive(o) /\ inc[o] < MaxIncarnation
    /\ inc' = [inc EXCEPT ![o] = @ + 1]
    /\ live' = [live EXCEPT ![o] = inc[o] + 1]

(* Destroy object o; the pointers other objects hold stay as they are.    *)
Destroy(o) ==
    /\ IsLive(o)
    /\ live' = [live EXCEPT ![o] = 0]
    /\ UNCHANGED inc

(* The ExtDragSourceV1Interface constructor: store the data source and   *)
(* register the new object (incarnation inc[e] + 1) in it.                *)
ExtDragSourceCtor(e, d) ==
    /\ ext' = [ext EXCEPT ![e] = [dataSource |-> Ptr(d), surface |-> Null]]
    /\ dsPriv' = [dsPriv EXCEPT ![d].extendedDragSource = <<e, inc[e] + 1>>]

(* get_extended_drag_source: create the resource and the interface.  A   *)
(* failed wl_resource_create posts no_memory, a fatal error that ends the *)
(* client, and is not modelled.                                           *)
GetExtendedDragSource(e, d) ==
    /\ IsLive(d) /\ Create(e)
    /\ ExtDragSourceCtor(e, d)
    /\ UNCHANGED tdrag

(* zcr_extended_drag_source_v1.drag: remember the dragged surface.       *)
ExtDrag(e, s) ==
    /\ IsLive(e) /\ IsLive(s)
    /\ ext' = [ext EXCEPT ![e].surface = Ptr(s)]
    /\ UNCHANGED <<live, inc, dsPriv, tdrag>>

(* destroy: wl_resource_destroy, then destroy_resource deletes q; the    *)
(* destructor is defaulted.                                               *)
DestroyExtDragSource(e) ==
    /\ Destroy(e)
    /\ UNCHANGED <<dsPriv, ext, tdrag>>

(* The XdgToplevelDragV1Interface constructor: store the data source and *)
(* register the new object in it, replacing any earlier drag.             *)
XdgToplevelDragCtor(t, d) ==
    /\ tdrag' = [tdrag EXCEPT ![t] = [dataSource |-> Ptr(d), toplevel |-> Null]]
    /\ dsPriv' = [dsPriv EXCEPT ![d].xdgToplevelDrag = <<t, inc[t] + 1>>]

(* get_xdg_toplevel_drag: create the resource (a failure posts no_memory *)
(* and is not modelled) and the interface.                                *)
GetXdgToplevelDrag(t, d) ==
    /\ IsLive(d) /\ Create(t)
    /\ XdgToplevelDragCtor(t, d)
    /\ UNCHANGED ext

(* xdg_toplevel_drag_v1.attach: the "drag has ended" check is a constant *)
(* false, so the toplevel is always taken.                                *)
Attach(t, s) ==
    /\ IsLive(t) /\ IsLive(s)
    /\ tdrag' = [tdrag EXCEPT ![t].toplevel = Ptr(s)]
    /\ UNCHANGED <<live, inc, dsPriv, ext>>

(* The destructor without its check: the registration is left in place.  *)
ToplevelDragDtorNoClear(t) == dsPriv

(* ~XdgToplevelDragV1Interface: if the data source still lives, clear    *)
(* its xdgToplevelDrag.                                                   *)
ToplevelDragDtor(t) ==
    LET d == QPointerGet(tdrag[t].dataSource)
    IN IF d # Null THEN [dsPriv EXCEPT ![d[1]].xdgToplevelDrag = Null] ELSE dsPriv

(* destroy: wl_resource_destroy, destroy_resource deletes q.              *)
DestroyXdgToplevelDrag(t) ==
    /\ Destroy(t)
    /\ dsPriv' = ToplevelDragDtor(t)
    /\ UNCHANGED <<ext, tdrag>>

(* The client destroys a data source or a surface (its interfaces live   *)
(* outside these files; the QPointers to it clear).                       *)
DestroyDataSource(d) == Destroy(d) /\ UNCHANGED <<dsPriv, ext, tdrag>>

DestroySurface(s) == Destroy(s) /\ UNCHANGED <<dsPriv, ext, tdrag>>

(* The client creates a new data source or surface at a free id.         *)
CreateDataSource(d) ==
    /\ Create(d)
    /\ dsPriv' = [dsPriv EXCEPT ![d] = [extendedDragSource |-> Null,
                                         xdgToplevelDrag |-> Null]]
    /\ UNCHANGED <<ext, tdrag>>

CreateSurface(s) == Create(s) /\ UNCHANGED <<dsPriv, ext, tdrag>>

Next ==
    \/ \E e \in ExtSources, d \in DataSources : GetExtendedDragSource(e, d)
    \/ \E e \in ExtSources, s \in Surfaces : ExtDrag(e, s)
    \/ \E e \in ExtSources : DestroyExtDragSource(e)
    \/ \E t \in ToplevelDrags, d \in DataSources : GetXdgToplevelDrag(t, d)
    \/ \E t \in ToplevelDrags, s \in Surfaces : Attach(t, s)
    \/ \E t \in ToplevelDrags : DestroyXdgToplevelDrag(t)
    \/ \E d \in DataSources : DestroyDataSource(d) \/ CreateDataSource(d)
    \/ \E s \in Surfaces : DestroySurface(s) \/ CreateSurface(s)

Spec == Init /\ [][Next]_vars

-----------------------------------------------------------------------------
(* Properties.                                                             *)

(* What a live data source's xdgToplevelDrag() returns to the drag code   *)
(* is null or the live toplevel drag that registered last, however the    *)
(* client interleaves creating and destroying drags and data sources,     *)
(* two drags for one source and reuse of their ids included.             *)
ToplevelDragNotDangling ==
    \A d \in DataSources : IsLive(d) => Alive(dsPriv[d].xdgToplevelDrag)


=============================================================================
