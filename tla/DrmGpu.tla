--------------------------------- MODULE DrmGpu ---------------------------------
(***************************************************************************)
(* A DRM device and the outputs it surfaces: DrmGpu's constructor         *)
(* (atomic or legacy mode-setting), updateOutputs (the hotplug scan) and   *)
(* DrmOutput's reference count, against the kernel the DRM autotests      *)
(* drive (src/autotests/drm/mock_drm.h, drmTest.cpp).                      *)
(*                                                                         *)
(* DrmGpu and DrmOutput are not in this repository: their actions are     *)
(* written from spec.md (4.2, 3 "Output", 7 (a)-(b), 8).  The kernel side *)
(* is the mock's state: the connectors the mock GPU lists, each with its  *)
(* connection state, non-desktop flag and modes, and the device's atomic  *)
(* capability and planes.  Its changes are the steps the tests take.      *)
(*                                                                         *)
(* An output is a pair <<connector, n>>: the n-th output created for that *)
(* connector, so that a replugged connector's new output and the zombie   *)
(* of its old one are different objects.  A non-desktop connector is      *)
(* surfaced like any other (only its output's tag differs), so the flag   *)
(* is left out.  A freed output's memory is gone: its mode list is reset *)
(* so that freed outputs differ only in when they were freed.            *)
(***************************************************************************)
EXTENDS Naturals, FiniteSets

CONSTANTS Connectors,     \* MockConnector objects of the mock GPU
          Modes,          \* drmModeModeInfo values addMode can add
          MaxOutputs,     \* bound on outputs created per connector
          MaxRefs,        \* bound on references consumers hold on one output
          MaxGpus         \* bound on DrmGpu objects created

Outputs == Connectors \X (1..MaxOutputs)

VARIABLES
    listed,      \* mockGpu->connectors
    connection,  \* MockConnector::connection
    modes,       \* MockConnector::modes
    atomicCap,   \* mockGpu->deviceCaps[MOCKDRM_DEVICE_CAP_ATOMIC] # 0
    hasPlanes,   \* mockGpu->planes is not empty
    gpu,         \* "none", "alive" (the test's DrmGpu object), "destroyed"
    gpus,        \* DrmGpu objects created so far
    atomic,      \* DrmGpu::atomicModeSetting()
    status,      \* per output: "unborn", "live" (in drmOutputs()), "zombie", "freed"
    outModes,    \* per output: DrmOutput::modes()
    refs,        \* per output: the external reference count
    created,     \* per connector: outputs created for it so far
    scanned,     \* no kernel change since the last updateOutputs
    refreshed    \* per connector: did the last scan's property refresh succeed

kernelVars == <<listed, connection, modes, atomicCap, hasPlanes>>
gpuVars == <<gpu, gpus, atomic, status, outModes, refs, created>>
vars == <<kernelVars, gpuVars, scanned, refreshed>>

Init ==
    /\ listed = Connectors /\ connection = [c \in Connectors |-> "connected"]
    /\ modes \in [Connectors -> SUBSET Modes]
    /\ atomicCap \in BOOLEAN /\ hasPlanes \in BOOLEAN
    /\ gpu = "none" /\ gpus = 0 /\ atomic = FALSE
    /\ status = [o \in Outputs |-> "unborn"]
    /\ outModes = [o \in Outputs |-> {}]
    /\ refs = [o \in Outputs |-> 0]
    /\ created = [c \in Connectors |-> 0]
    /\ scanned = FALSE
    /\ refreshed = [c \in Connectors |-> FALSE]

LiveOutputsOf(c) == {o \in Outputs : o[1] = c /\ status[o] = "live"}

(* A connector discovery can surface: listed by the kernel and connected. *)
Usable(c) == c \in listed /\ connection[c] = "connected"

-----------------------------------------------------------------------------
(* The device.                                                             *)

(* DrmGpu's constructor: atomic mode-setting only when the kernel offers  *)
(* the capability and the device has a plane.                             *)
GpuCreate ==
    /\ gpu # "alive" /\ gpus < MaxGpus
    /\ gpu' = "alive" /\ gpus' = gpus + 1
    /\ atomic' = (atomicCap /\ hasPlanes)
    /\ scanned' = FALSE
    /\ UNCHANGED <<kernelVars, status, outModes, refs, created, refreshed>>

(* gpu.reset(): the destructor frees every output; the tests drop their   *)
(* references first.                                                       *)
GpuDestroy ==
    /\ gpu = "alive" /\ \A o \in Outputs : refs[o] = 0
    /\ gpu' = "destroyed"
    /\ status' = [o \in Outputs |-> IF status[o] = "unborn" THEN "unborn" ELSE "freed"]
    /\ outModes' = [o \in Outputs |-> {}]
    /\ UNCHANGED <<kernelVars, gpus, atomic, refs, created, scanned, refreshed>>

(* Retiring an output whose connector went away: free it unless a        *)
(* consumer still holds a reference, else keep it as a zombie.            *)
RetireFreeingAlways(o) == "freed"

Retire(o) == IF refs[o] = 0 THEN "freed" ELSE "zombie"

(* A scan that takes whatever modes it finds.                             *)
KeptModesDropping(old, m) == m

(* The modes an output keeps after a scan that finds m: the last known    *)
(* non-empty list is authoritative.                                        *)
KeptModes(old, m) == IF m # {} THEN m ELSE old

(* A scan that does not look for the connector's existing output.        *)
NeedsOutputDuplicating(c, refreshOk) ==
    Usable(c) /\ modes[c] # {} /\ refreshOk[c]

(* A scan creates an output for connector c when it is usable, has no     *)
(* output yet, has modes and its properties refreshed.                    *)
NeedsOutput(c, refreshOk) ==
    Usable(c) /\ LiveOutputsOf(c) = {} /\ modes[c] # {} /\ refreshOk[c]

(* updateOutputs, with refreshOk[c] the outcome of refreshing connector   *)
(* c's properties (DrmObject::updateProperties, which fails when a        *)
(* required property is missing).  For each connector: a live output whose *)
(* connector is gone or disconnected is retired; a live output of a usable *)
(* connector keeps its modes or takes the new ones; a usable connector    *)
(* without a live output, with modes and a successful refresh, gets a new *)
(* output (tagged non-desktop where the connector is).  Returns true.     *)
UpdateOutputs(refreshOk) ==
    /\ gpu = "alive"
    /\ \A c \in Connectors : created[c] < MaxOutputs \/ ~NeedsOutput(c, refreshOk)
    /\ LET born(c) == <<c, created[c] + 1>>
           birth(c) == NeedsOutput(c, refreshOk)
       IN /\ status' = [o \in Outputs |->
                 IF status[o] = "live" /\ ~Usable(o[1]) THEN Retire(o)
                 ELSE IF birth(o[1]) /\ o = born(o[1]) THEN "live"
                 ELSE status[o]]
          /\ outModes' = [o \in Outputs |->
                 IF status'[o] = "freed" THEN {}
                 ELSE IF status[o] = "live" /\ Usable(o[1])
                      THEN KeptModes(outModes[o], modes[o[1]])
                 ELSE IF birth(o[1]) /\ o = born(o[1]) THEN modes[o[1]]
                 ELSE outModes[o]]
          /\ created' = [c \in Connectors |-> IF birth(c) THEN created[c] + 1 ELSE created[c]]
    /\ scanned' = TRUE
    /\ refreshed' = [c \in Connectors |-> refreshOk[c] \/ LiveOutputsOf(c) # {}]
    /\ UNCHANGED <<kernelVars, gpu, gpus, atomic, refs>>

(* A consumer takes a reference on an output drmOutputs() lists.         *)
Ref(o) ==
    /\ gpu = "alive" /\ status[o] = "live" /\ refs[o] < MaxRefs
    /\ refs' = [refs EXCEPT ![o] = @ + 1]
    /\ UNCHANGED <<kernelVars, gpu, gpus, atomic, status, outModes, created, scanned,
                   refreshed>>

(* unref's effect on the outputs: the last reference to a zombie frees it.*)
UnrefStatus(o) ==
    IF refs[o] = 1 /\ status[o] = "zombie" THEN [status EXCEPT ![o] = "freed"] ELSE status

Unref(o) ==
    /\ refs[o] > 0
    /\ refs' = [refs EXCEPT ![o] = @ - 1]
    /\ status' = UnrefStatus(o)
    /\ outModes' = [p \in Outputs |-> IF status'[p] = "freed" THEN {} ELSE outModes[p]]
    /\ UNCHANGED <<kernelVars, gpu, gpus, atomic, created, scanned, refreshed>>

-----------------------------------------------------------------------------
(* The kernel, as the tests change the mock.                              *)

KernelStep(v) == v /\ scanned' = FALSE /\ UNCHANGED <<gpuVars, refreshed>>

(* mockGpu->connectors.removeOne(c), connectors.clear(), push_back(c).    *)
Unplug(c) == KernelStep(c \in listed /\ listed' = listed \ {c}
                        /\ UNCHANGED <<connection, modes, atomicCap, hasPlanes>>)

Plug(c) == KernelStep(c \notin listed /\ listed' = listed \cup {c}
                      /\ UNCHANGED <<connection, modes, atomicCap, hasPlanes>>)

(* c->connection = DRM_MODE_DISCONNECTED, and back.                       *)
SetConnection(c, s) ==
    KernelStep(connection[c] # s /\ connection' = [connection EXCEPT ![c] = s]
               /\ UNCHANGED <<listed, modes, atomicCap, hasPlanes>>)

(* c->modes.clear() and c->addMode(...).                                  *)
ClearModes(c) == KernelStep(modes[c] # {} /\ modes' = [modes EXCEPT ![c] = {}]
                            /\ UNCHANGED <<listed, connection, atomicCap, hasPlanes>>)

AddMode(c, m) == KernelStep(m \notin modes[c] /\ modes' = [modes EXCEPT ![c] = @ \cup {m}]
                            /\ UNCHANGED <<listed, connection, atomicCap, hasPlanes>>)

(* mockGpu->planes << plane, deviceCaps[MOCKDRM_DEVICE_CAP_ATOMIC] = 0,   *)
(* between two DrmGpu objects.                                            *)
SetDeviceCaps(cap, planes) ==
    KernelStep(gpu # "alive" /\ atomicCap' = cap /\ hasPlanes' = planes
               /\ UNCHANGED <<listed, connection, modes>>)

Next ==
    \/ GpuCreate \/ GpuDestroy
    \/ \E ok \in [Connectors -> BOOLEAN] : UpdateOutputs(ok)
    \/ \E o \in Outputs : Ref(o) \/ Unref(o)
    \/ \E c \in Connectors : Unplug(c) \/ Plug(c) \/ ClearModes(c)
    \/ \E c \in Connectors, s \in {"connected", "disconnected"} : SetConnection(c, s)
    \/ \E c \in Connectors, m \in Modes : AddMode(c, m)
    \/ \E cap, planes \in BOOLEAN : SetDeviceCaps(cap, planes)

Spec == Init /\ [][Next]_vars

-----------------------------------------------------------------------------
(* Properties.                                                             *)

(* After a scan, hotplug is tracked: each connector has at most one live  *)
(* output; a live output's connector is still listed and connected (a     *)
(* disconnect counts as a removal); and a connected connector with modes  *)
(* whose refresh succeeded has one, however connectors were unplugged,    *)
(* replugged, disconnected and re-moded between scans, while zombies of   *)
(* earlier outputs for the same connector are still referenced.           *)
HotplugTracked ==
    (gpu = "alive" /\ scanned) =>
        \A c \in Connectors :
            /\ Cardinality(LiveOutputsOf(c)) <= 1
            /\ LiveOutputsOf(c) # {} => Usable(c)
            /\ (Usable(c) /\ modes[c] # {} /\ refreshed[c]) => LiveOutputsOf(c) # {}

(* An output never loses its modes: a live or zombie output has the last  *)
(* non-empty mode list its connector reported, and after a scan a live    *)
(* output shows the connector's modes whenever the connector has any.     *)
ModesNeverLost ==
    \A o \in Outputs :
        /\ status[o] \in {"live", "zombie"} => outModes[o] # {}
        /\ (scanned /\ gpu = "alive" /\ status[o] = "live" /\ modes[o[1]] # {})
              => outModes[o] = modes[o[1]]

(* Output lifetime: an output a consumer holds a reference to is never    *)
(* freed, whatever hotplug happens between ref() and unref(); and an      *)
(* output retired from drmOutputs() is freed as soon as its last          *)
(* reference goes, so no zombie outlives its references.                  *)
OutputLifetime ==
    \A o \in Outputs :
        /\ refs[o] > 0 => status[o] \in {"live", "zombie"}
        /\ status[o] = "zombie" => refs[o] > 0

=============================================================================
