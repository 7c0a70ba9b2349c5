\* Hotplug scans, mode changes and output references on the mock GPU.
CONSTANTS
    one = one
    m10x10 = m10x10
    m20x20 = m20x20
    Connectors <- MCConnectors
    Modes <- MCModes
    MaxOutputs = 3
    MaxRefs = 2
    MaxGpus = 1
SYMMETRY ModeSymmetry
SPECIFICATION Spec
INVARIANT HotplugTracked
INVARIANT ModesNeverLost
INVARIANT OutputLifetime
