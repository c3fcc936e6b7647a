---------------------------- MODULE EngineBundle ----------------------------
(***************************************************************************)
(* models/common/build_engine_bundle.py: the engines of one model are built   *)
(* on a device, packed into engines/<host>.tar.gz and described by the         *)
(* model's manifest.json, in an output tree that several devices publish       *)
(* from and that earlier runs have written to.                                 *)
(*                                                                          *)
(* The content of a file is its build number, Gone if there is none.  An        *)
(* engine of hf_only is never built here.  Companions are the engine files      *)
(* that must travel with an anchor: its build script writes the anchor first    *)
(* and then them, one after the other, and may fail or be killed after each.    *)
(* Exporting writes the ONNX inputs.                                            *)
(***************************************************************************)
EXTENDS Integers, FiniteSets

CONSTANTS Specs,           \* required_engines of the profile
          HfOnly,          \* those with hf_only
          Companions(_),   \* spec -> engine files beside its own
          Onnx(_),         \* spec -> ONNX and extra files published with it
          Hosts,           \* host signatures
          MaxBuilds

ASSUME BundleAssumption == HfOnly \subseteq Specs /\ MaxBuilds \in Nat

\* "only step0 is declared as a required engine" (_bundle_engine_paths): what
\* travels with an anchor is not a required engine of its own, nor with another
ASSUME CompanionsUndeclared ==
  \A s \in Specs :
    /\ Companions(s) \cap Specs = {}
    /\ \A t \in Specs \ {s} : Companions(s) \cap Companions(t) = {}

Gone == 0
EngineFiles == Specs \cup UNION {Companions(s) : s \in Specs}
OnnxFiles == UNION {Onnx(s) : s \in Specs}
NoTar == [kind |-> "none", files |-> <<>>]
NoManifest == [kind |-> "none"]

VARIABLES engine,      \* host -> engine file -> content
          onnx,        \* ONNX file -> content
          built,       \* number of builds so far
          tar,         \* host -> the bundle in the output tree
          copied,      \* ONNX file -> its copy in the output tree
          manifest,    \* models/<m>/manifest.json
          bpc,         \* idle, build, pack, describe
          host, skip_build, \* the running host, --skip-build
          left,        \* the specs still to build or to describe
          unwritten,   \* the engine files the running build script has still to write
          sums,        \* files: the digests collected for the manifest
          bexit        \* how the last run ended

bundleVars == <<engine, onnx, built, tar, copied, manifest, bpc, host, skip_build, left, unwritten, sums, bexit>>
files == <<engine, onnx, built, tar, copied, manifest>>

BundleInit ==
  /\ engine = [h \in Hosts |-> [f \in EngineFiles |-> Gone]]
  /\ onnx \in [OnnxFiles -> {Gone, 1}]
  /\ built = 1
  /\ tar = [h \in Hosts |-> NoTar]
  /\ copied = [f \in OnnxFiles |-> Gone]
  /\ manifest = NoManifest
  /\ bpc = "idle" /\ host \in Hosts /\ skip_build = FALSE /\ left = {} /\ unwritten = {} /\ sums = <<>>
  /\ bexit = "none"

Stop(how) == bpc' = "idle" /\ bexit' = how /\ left' = {} /\ unwritten' = {} /\ sums' = <<>>

\* --skip-build needs every engine that is not hf_only; companions are not asked for
BundleStart ==
  /\ bpc = "idle"
  /\ host' \in Hosts /\ skip_build' \in BOOLEAN
  /\ IF ~skip_build' THEN bpc' = "build" /\ left' = Specs /\ unwritten' = {} /\ sums' = <<>> /\ bexit' = "none"
     ELSE IF \E s \in Specs \ HfOnly : engine[host'][s] = Gone THEN Stop("raised")
     ELSE bpc' = "pack" /\ left' = {} /\ unwritten' = {} /\ sums' = <<>> /\ bexit' = "none"
  /\ UNCHANGED files

Travellers(s) == {s} \cup Companions(s)

\* _compile_one: the stale anchor is removed, its companions are not; then the
\* build script runs, which exports ONNX inputs that are missing or finds another
\* way to them
compileOne(s) ==
  /\ bpc = "build" /\ unwritten = {} /\ s \in left
  /\ left' = left \ {s}
  /\ \/ s \in HfOnly /\ UNCHANGED <<engine, onnx, built, unwritten>>
     \/ /\ s \notin HfOnly /\ built < MaxBuilds
        /\ built' = built + 1
        /\ engine' = [engine EXCEPT ![host] = [@ EXCEPT ![s] = Gone]]
        /\ onnx' \in {onnx, [f \in OnnxFiles |-> IF f \in Onnx(s) /\ onnx[f] = Gone THEN built + 1 ELSE onnx[f]]}
        /\ unwritten' = Travellers(s)
  /\ UNCHANGED <<tar, copied, manifest, bpc, host, skip_build, sums, bexit>>

\* the script's loop over the steps: the anchor, then a companion
writeEngine(f) ==
  /\ bpc = "build" /\ f \in unwritten /\ (unwritten \cap Specs # {} => f \in Specs)
  /\ engine' = [engine EXCEPT ![host] = [@ EXCEPT ![f] = built]]
  /\ unwritten' = unwritten \ {f}
  /\ UNCHANGED <<onnx, built, tar, copied, manifest, bpc, host, skip_build, left, sums, bexit>>

\* set -e: what was written stays
buildFails ==
  /\ bpc = "build"
  /\ Stop("raised")
  /\ UNCHANGED <<files, host, skip_build>>

BuildEnd ==
  /\ bpc = "build" /\ left = {} /\ unwritten = {}
  /\ bpc' = "pack"
  /\ UNCHANGED <<files, host, skip_build, left, unwritten, sums, bexit>>

\* Mutant: only the anchor named in the profile is packed.
bundleEnginePathsAnchor(s) == {f \in {s} : engine[host][f] # Gone}

\* the engine files that travel with a spec (_bundle_engine_paths and extras)
bundleEnginePaths(s) == {f \in Travellers(s) : engine[host][f] # Gone}

Packed == UNION {bundleEnginePaths(s) : s \in {x \in Specs \ HfOnly : engine[host][x] # Gone}}

\* the old bundle is removed, then the new one is written; killed in between
\* there is a part of it
UnlinkBundle ==
  /\ bpc = "pack"
  /\ tar' = [tar EXCEPT ![host] = [kind |-> "part", files |-> <<>>]]
  /\ bpc' = "tar"
  /\ UNCHANGED <<engine, onnx, built, copied, manifest, host, skip_build, left, unwritten, sums, bexit>>

PackBundle ==
  /\ bpc = "tar"
  /\ tar' = [tar EXCEPT ![host] = [kind |-> "ok", files |-> [f \in Packed |-> engine[host][f]]]]
  /\ bpc' = "describe" /\ left' = Specs
  /\ UNCHANGED <<engine, onnx, built, copied, manifest, host, skip_build, unwritten, sums, bexit>>

\* _bundle_onnx_paths, _bundle_extra_manifest_paths, _copy_manifest_file: files
\* that exist are copied, the digest is the copy's
bundleOnnxPaths(s) == {f \in Onnx(s) : onnx[f] # Gone}

CopyManifestFiles(s) ==
  /\ bpc = "describe" /\ s \in left
  /\ copied' = [f \in OnnxFiles |-> IF f \in bundleOnnxPaths(s) THEN onnx[f] ELSE copied[f]]
  /\ sums' = [f \in DOMAIN sums \cup bundleOnnxPaths(s) |->
                IF f \in bundleOnnxPaths(s) THEN onnx[f] ELSE sums[f]]
  /\ left' = left \ {s}
  /\ UNCHANGED <<engine, onnx, built, tar, manifest, bpc, host, skip_build, unwritten, bexit>>

WriteManifest ==
  /\ bpc = "describe" /\ left = {}
  /\ manifest' = [kind |-> "ok", host |-> host, tar |-> tar[host].files, files |-> sums]
  /\ Stop("ok")
  /\ UNCHANGED <<engine, onnx, built, tar, copied, host, skip_build>>

\* another export writes the ONNX inputs
Export(f) ==
  /\ bpc = "idle" /\ built < MaxBuilds
  /\ built' = built + 1
  /\ onnx' = [onnx EXCEPT ![f] = built + 1]
  /\ bexit' = "none"
  /\ UNCHANGED <<engine, tar, copied, manifest, bpc, host, skip_build, left, unwritten, sums>>

BundleKilled ==
  /\ bpc # "idle"
  /\ Stop("killed")
  /\ UNCHANGED <<files, host, skip_build>>

BundleNext ==
  \/ BundleStart \/ buildFails \/ BuildEnd \/ UnlinkBundle \/ PackBundle \/ WriteManifest \/ BundleKilled
  \/ \E s \in Specs : compileOne(s) \/ CopyManifestFiles(s)
  \/ \E f \in EngineFiles : writeEngine(f)
  \/ \E f \in OnnxFiles : Export(f)

BundleSpec == BundleInit /\ [][BundleNext]_bundleVars

-----------------------------------------------------------------------------
\* Whatever earlier runs and other devices left behind, after a run that ended
\* well the manifest describes this host's bundle and the copies beside it, the
\* bundle holds every engine that is not hf_only, as it is on this host, and no ONNX
\* input of this tree is left out; if the run built the engines itself, every
\* companion is in the bundle too and of the same build as its anchor
\* (_bundle_per_model 77-141).
BundlePublished ==
  bexit = "ok" =>
    /\ manifest.host = host /\ manifest.tar = tar[host].files
    /\ Specs \ HfOnly \subseteq DOMAIN tar[host].files
    /\ \A f \in DOMAIN tar[host].files : tar[host].files[f] = engine[host][f]
    /\ DOMAIN manifest.files = {f \in OnnxFiles : onnx[f] # Gone}
    /\ \A f \in DOMAIN manifest.files : manifest.files[f] = copied[f]
    /\ ~skip_build => \A s \in Specs \ HfOnly, f \in EngineFiles :
         f \in Travellers(s) =>
           f \in DOMAIN tar[host].files /\ tar[host].files[f] = tar[host].files[s]

\* "The build script creates all three, so the HF bundle must include all three
\* even though only step0 is declared as a required engine" (_bundle_engine_paths
\* 147-150): a published bundle holds the companions of every engine, of its
\* build.  The code does not keep this with --skip-build: a script that failed or
\* was killed behind the anchor leaves companions out or old, and nobody asks.
BundleComplete ==
  bexit = "ok" =>
    \A s \in Specs \ HfOnly, f \in EngineFiles :
      f \in Travellers(s) =>
        f \in DOMAIN tar[host].files /\ tar[host].files[f] = tar[host].files[s]

\* Every device whose bundle was published last by a run that ended well stays
\* described.  The code does not keep this: manifest.json is written from scratch
\* with the running host alone (host_signatures, line 137), so the next device's
\* run leaves this one's bundle in the tree but out of the manifest.
HostsStayDescribed ==
  [][manifest.kind = "ok" /\ manifest'.kind = "ok" => manifest'.host = manifest.host]_bundleVars
=============================================================================
