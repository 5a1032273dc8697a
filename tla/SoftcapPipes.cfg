CONSTANT Kernels <- SoftcapKernels
SPECIFICATION Spec
INVARIANT OrderKept
