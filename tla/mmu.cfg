SPECIFICATION MCSpec
CONSTANTS
  Asid = {a1, a2}
  Vpn <- Pages
  Ppn = {p, q}
  Zero = a0
  Kernel <- KernelPages
  PageSize <- SizeOf
  RegionOf <- FirstPageOf
  NoHugePage = FALSE
  L1Enabled = TRUE
  StlbEnabled = TRUE
  MaxTime = 4
  L1Ways = 2
  StlbWays = 1
  StlbSets = 1
  FlushKinds = {"All", "ByASID"}
  SmallVpn <- SmallPages
  LowVpn <- LowPages
  MaskedAsid <- Masked
  AssociativeL1Ways = 2
  AssociativeStlbWays = 1
  AssociativeStlbSets = 1
  AssociativeFlushes = {"All"}
SYMMETRY Symmetry
INVARIANTS Consistent AssociativeConsistent
PROPERTIES EvictionIsLru
