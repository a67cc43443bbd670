\* every fault but a failed write and a redirect
CONSTANTS
  ManifestKey = manifest
  BundleKey = bundle
  Keys = {manifest, bundle}
  Modes = {"atomic"}
  MaxVersion = 3
  MaxFaults = 6
  Faults = {"lost", "crash", "open", "rename", "refused", "no_length", "wasm", "manifest"}
  MaxRetries = 1
SPECIFICATION LoadSpec
INVARIANTS
  SuccessMeansCached
  LoadsSignedBundle
  PresentsCachedBundle
PROPERTIES
  KeepsStarting
