------------------------------ MODULE DrmObject ------------------------------
(***************************************************************************)
(* A KMS object and the refresh of its property slots                     *)
(* (src/src/backends/drm/drm_object.cpp, DrmObject::updateProperties),    *)
(* composed with the enum translation of one of its properties            *)
(* (DrmProperty).                                                          *)
(*                                                                         *)
(* The object has one nullable slot per property definition.  A refresh  *)
(* asks the kernel for the object's properties; for each definition it    *)
(* keeps the existing DrmProperty and updates its current value, creates  *)
(* a new one, or resets the slot when the kernel did not report it (or    *)
(* drmModeGetProperty failed for it).  It then fails if a property        *)
(* required under the device's mode-setting strategy is missing.  The     *)
(* property EnumDef is the DrmProperty of module DrmProperty: recreating  *)
(* it rebuilds its maps, keeping it keeps whatever keys valueForEnum      *)
(* inserted.                                                               *)
(***************************************************************************)
EXTENDS DrmProperty

CONSTANTS Defs,          \* m_propertyDefinitions (model values)
          EnumDef,       \* the definition whose DrmProperty is modelled
          Requirement,   \* Defs -> {"Required", "RequiredForLegacy", "Optional"}
          KernelValues,  \* values the kernel may report for a property
          None           \* the kernel does not report the property

ASSUME EnumDef \in Defs /\ None \notin KernelValues

VARIABLES atomic,        \* m_gpu->atomicModeSetting()
          kernel,        \* what the kernel reports per definition, or None
          props,         \* m_props: per definition present or not, and current
          refreshed,     \* result of the last updateProperties, or "none"
          snapshot       \* what the kernel reported at the last refresh

objVars == <<atomic, kernel, props, refreshed, snapshot>>
allVars == <<vars, objVars>>

Absent == [present |-> FALSE, current |-> 0]

(* The DrmObject constructor: m_props.resize() leaves every slot null.    *)
ObjInit ==
    /\ Init
    /\ atomic \in BOOLEAN
    /\ kernel \in [Defs -> KernelValues \cup {None}]
    /\ props = [d \in Defs |-> Absent]
    /\ refreshed = "none"
    /\ snapshot = kernel

(* Whether a definition is required under the current strategy.           *)
Required(d) ==
    IF atomic THEN Requirement[d] = "Required"
    ELSE Requirement[d] = "RequiredForLegacy"

(* updateProperties without the reset of a slot that was not found.       *)
RefreshedKeepStale(d, found) ==
    IF found THEN [present |-> TRUE, current |-> kernel[d]] ELSE props[d]

(* The matching loop for one definition: found when the kernel reports    *)
(* it and drmModeGetProperty did not fail.                                *)
Refreshed(d, found) ==
    IF found THEN [present |-> TRUE, current |-> kernel[d]] ELSE Absent

(* DrmObject::updateProperties.  drmModeObjectGetProperties may fail and  *)
(* return before any slot changes; otherwise every definition is matched, *)
(* where drmModeGetProperty failing for a property is skipped as if the    *)
(* kernel had not reported it.  A kept DrmProperty only gets setCurrent;  *)
(* a new one starts from initEnumMap.                                      *)
UpdateProperties ==
    \/ /\ refreshed' = "false"
       /\ UNCHANGED <<atomic, kernel, props, snapshot>> /\ UNCHANGED vars
    \/ \E lost \in SUBSET Defs :
         LET found(d) == kernel[d] # None /\ d \notin lost
             new == [d \in Defs |-> Refreshed(d, found(d))]
         IN /\ props' = new
            /\ enumToProp' = IF new[EnumDef].present /\ props[EnumDef].present
                             THEN enumToProp ELSE Registered
            /\ refreshed' = IF \E d \in Defs : Required(d) /\ ~new[d].present
                            THEN "false" ELSE "true"
            /\ snapshot' = kernel
            /\ UNCHANGED <<atomic, kernel, isBitmask, lastQuery, legacyWritten>>

(* A hotplug or driver change alters what the kernel reports.             *)
KernelChange(d, v) ==
    /\ kernel[d] # v
    /\ kernel' = [kernel EXCEPT ![d] = v]
    /\ UNCHANGED <<atomic, props, refreshed, snapshot>> /\ UNCHANGED vars

(* Callers use the enum property only through a non-null slot.            *)
UseProperty ==
    /\ props[EnumDef].present
    /\ \E e \in EnumInputs : ValueForEnum(e) \/ SetEnumLegacy(e)
    /\ UNCHANGED objVars

ObjNext ==
    \/ UpdateProperties
    \/ \E d \in Defs, v \in KernelValues \cup {None} : KernelChange(d, v)
    \/ UseProperty

ObjSpec == ObjInit /\ [][ObjNext]_allVars

-----------------------------------------------------------------------------
(* Properties.                                                             *)

(* A refresh that reports success leaves, for every property required     *)
(* under the current strategy, a slot that exists and holds the value the *)
(* kernel reported then, even after the kernel dropped a property that an *)
(* earlier refresh had found.                                              *)
RefreshSound ==
    refreshed = "true" =>
        \A d \in Defs : Required(d) =>
            props[d].present /\ snapshot[d] # None /\ props[d].current = snapshot[d]
=============================================================================
