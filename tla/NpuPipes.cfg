CONSTANT Kernels <- AllKernels
SPECIFICATION Spec
INVARIANTS OrderKept NeverStuck EventsSpent
