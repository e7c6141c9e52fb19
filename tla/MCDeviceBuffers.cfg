SPECIFICATION Spec
CONSTANTS
  Buffers = {d_output, d_merkle_hashes, d_hash}
  Kept = {d_merkle_hashes}
  Trimmed = {d_hash}
  Addresses = {a1, a2, a3, a4}
  Null = Null
  App = App
  Free = Free
  Sizes = {1, 2}
  UnboundDestroy = FALSE
  AllocFails = TRUE
INVARIANTS
  SizedMeansOwned
  DestroyFreesItsList
PROPERTY
  OnlyRefreeHarms
