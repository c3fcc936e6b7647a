SPECIFICATION BundleSpec
CONSTANTS
  Specs = {"step0", "vocos", "hf"}
  HfOnly = {"hf"}
  Companions <- MCComp
  Onnx <- MCOnnx
  Hosts = {"nano", "nx"}
  MaxBuilds = 3
INVARIANT BundleComplete
CHECK_DEADLOCK FALSE
