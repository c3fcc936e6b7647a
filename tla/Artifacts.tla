----------------------------- MODULE Artifacts -----------------------------
(***************************************************************************)
(* The way of a Qwen3 artifact set from the build machine to a device:        *)
(*   scripts/package_qwen3_artifacts.py stages the files of a built tree with *)
(*   an inventory of their digests; the stage is uploaded; and                *)
(*   scripts/deploy_qwen3_artifacts.py checks, downloads and verifies the set  *)
(*   on the device, or records the digests of a trusted tree in a sidecar.     *)
(*                                                                          *)
(* The content of a file is its build number, Absent or Torn; two files have   *)
(* the same digest when they have the same content.  Both tools may be killed  *)
(* between any two steps, and the trees change while they run.                 *)
(***************************************************************************)
EXTENDS Integers, FiniteSets

CONSTANTS Files,        \* every file some version of the manifest requires
          OldFiles,     \* what the manifest requires before it is updated
          MaxBuild

ASSUME ArtifactsAssumption == OldFiles \subseteq Files /\ MaxBuild \in Nat

Absent == 0
Torn == -1
Builds == 1..MaxBuild
NoInventory == [f \in {} |-> Absent]

VARIABLES source,       \* the built tree
          stage,        \* --out of the packager
          inventory,    \* stage/checksums/<set>.json
          hub,          \* the artifact repository
          root,         \* the artifact root of the device
          required,     \* required_files of the manifest on the device
          sidecar,      \* qwen3_checksums.json: absent, torn or its entries
          pc, args,     \* the running tool and its flags
          todo,         \* files the running loop has not reached
          found,        \* what the loop has collected
          exit,         \* exit code of the last tool, "none" once something changed since
          raced         \* the built tree changed while the packager ran

artifactsVars == <<source, stage, inventory, hub, root, required, sidecar, pc, args, todo, found, exit, raced>>
trees == <<source, stage, inventory, hub, root, required, sidecar>>

Flags(tool, check, sha, dry) == [tool |-> tool, verify |-> sha, checkOnly |-> check, dryRun |-> dry]
NoArgs == Flags("none", FALSE, FALSE, FALSE)
EmptySidecar == [kind |-> "absent", files |-> NoInventory]

ArtifactsInit ==
  /\ source \in [Files -> {Absent, 1}]
  /\ stage = [f \in Files |-> Absent]
  /\ inventory = NoInventory
  /\ hub = [f \in Files |-> IF f \in OldFiles THEN 1 ELSE Absent]
  /\ root = [f \in Files |-> Absent]
  /\ required = OldFiles
  /\ sidecar = EmptySidecar
  /\ pc = "idle" /\ args = NoArgs /\ todo = {} /\ found = NoInventory
  /\ exit = "none" /\ raced = FALSE

Exit(code) == pc' = "idle" /\ exit' = code /\ todo' = {} /\ found' = NoInventory

With(g, f, c) == [k \in DOMAIN g \cup {f} |-> IF k = f THEN c ELSE g[k]]

-----------------------------------------------------------------------------
(* package_qwen3_artifacts.py; the packager has the new manifest.             *)

PackageStart ==
  /\ pc = "idle"
  /\ \E dry \in BOOLEAN : args' = Flags("package", FALSE, FALSE, dry)
  /\ pc' = "package" /\ todo' = Files /\ found' = NoInventory
  /\ exit' = "none" /\ raced' = FALSE
  /\ UNCHANGED trees

\* Mutant: a file the stage already has is not copied again.
PackageCopyOnce(f) ==
  /\ pc = "copy" /\ f \in DOMAIN found /\ f \in todo
  /\ stage' = IF stage[f] = Absent THEN [stage EXCEPT ![f] = source[f]] ELSE stage
  /\ todo' = todo \ {f}
  /\ pc' = "package"
  /\ UNCHANGED <<source, inventory, hub, root, required, sidecar, args, found, exit, raced>>

\* resolve_source, stat and digest: a file without a source is noted as missing
PackageDigest(f) ==
  /\ pc = "package" /\ f \in todo
  /\ IF source[f] = Absent
     THEN /\ todo' = todo \ {f}
          /\ UNCHANGED <<pc, found>>
     ELSE /\ found' = With(found, f, source[f])
          /\ IF args.dryRun THEN todo' = todo \ {f} /\ UNCHANGED pc
                            ELSE pc' = "copy" /\ UNCHANGED todo
  /\ UNCHANGED <<trees, args, exit, raced>>

\* copy2 reads the source a second time
PackageCopy(f) ==
  /\ pc = "copy" /\ f \in DOMAIN found /\ f \in todo
  /\ stage' = [stage EXCEPT ![f] = source[f]]
  /\ todo' = todo \ {f}
  /\ pc' = "package"
  /\ UNCHANGED <<source, inventory, hub, root, required, sidecar, args, found, exit, raced>>

\* what was copied stays copied when a file is missing; the inventory is
\* written only for a complete stage
PackageEnd ==
  /\ pc = "package" /\ todo = {}
  /\ IF DOMAIN found # Files
     THEN Exit("2") /\ UNCHANGED inventory
     ELSE /\ inventory' = IF args.dryRun THEN inventory ELSE found
          /\ Exit("0")
  /\ UNCHANGED <<source, stage, hub, root, required, sidecar, args, raced>>

-----------------------------------------------------------------------------
(* deploy_qwen3_artifacts.py                                                  *)

\* required_paths and verify: existence only
verify == {f \in required : root[f] = Absent}

\* load_checksums on a torn file raises
Unreadable == sidecar.kind = "torn"

GenerateStart ==
  /\ pc = "idle"
  /\ args' = Flags("generate", FALSE, FALSE, FALSE)
  /\ IF verify # {} THEN Exit("4")
     ELSE IF Unreadable THEN Exit("1")
     ELSE pc' = "generate" /\ todo' = required /\ found' = NoInventory /\ exit' = "none"
  /\ UNCHANGED <<trees, raced>>

generate_sidecar(f) ==
  /\ pc = "generate" /\ f \in todo
  /\ found' = IF root[f] = Absent THEN found ELSE With(found, f, root[f])
  /\ todo' = todo \ {f}
  /\ UNCHANGED <<trees, pc, args, exit, raced>>

\* open(path, "w") truncates, then the whole document is written
write_checksums ==
  /\ pc = "generate" /\ todo = {}
  /\ sidecar' = [kind |-> "torn", files |-> NoInventory]
  /\ pc' = "write"
  /\ UNCHANGED <<source, stage, inventory, hub, root, required, args, todo, found, exit, raced>>

WriteDone ==
  /\ pc = "write"
  /\ sidecar' = [kind |-> "ok", files |-> found]
  /\ Exit("0")
  /\ UNCHANGED <<source, stage, inventory, hub, root, required, args, raced>>

\* after the files are there: done, or the digests
Present == IF args'.verify THEN pc' = "load" /\ todo' = {} /\ found' = NoInventory /\ exit' = "none"
                           ELSE Exit("0")

DeployStart ==
  /\ pc = "idle"
  /\ \E check, sha \in BOOLEAN : args' = Flags("deploy", check, sha, FALSE)
  /\ IF verify = {} THEN Present
     ELSE IF args'.checkOnly THEN Exit("2")
     ELSE pc' = "download" /\ todo' = required /\ found' = hub /\ exit' = "none"
  /\ UNCHANGED <<trees, raced>>

\* snapshot_download: the revision is resolved once, then each file that is
\* missing or differs is fetched and moved into place, in any order
snapshot_download(f) ==
  /\ pc = "download" /\ f \in todo
  /\ root' = IF found[f] = Absent THEN root ELSE [root EXCEPT ![f] = found[f]]
  /\ todo' = todo \ {f}
  /\ UNCHANGED <<source, stage, inventory, hub, required, sidecar, pc, args, found, exit, raced>>

\* no repository, no client, or the network fails
DownloadRaises ==
  /\ pc = "download"
  /\ Exit("1")
  /\ UNCHANGED <<trees, args, raced>>

Downloaded ==
  /\ pc = "download" /\ todo = {}
  /\ IF verify # {} THEN Exit("3") /\ UNCHANGED args
     ELSE UNCHANGED args /\ Present
  /\ UNCHANGED <<trees, raced>>

LoadChecksums ==
  /\ pc = "load"
  /\ IF Unreadable THEN Exit("1")
     ELSE pc' = "verify" /\ todo' = required \cap DOMAIN sidecar.files /\ found' = NoInventory /\ exit' = "none"
  /\ UNCHANGED <<trees, args, raced>>

\* Mutant: a size that fits is enough, and a torn write of a preallocated file
\* has the size of the file.
verify_checksumsSizeOnly(f) ==
  /\ pc = "verify" /\ f \in todo
  /\ found' = IF root[f] \in {sidecar.files[f], Torn} THEN found ELSE With(found, f, root[f])
  /\ todo' = todo \ {f}
  /\ UNCHANGED <<trees, pc, args, exit, raced>>

\* files without an entry are passed over; found collects the mismatches
verify_checksums(f) ==
  /\ pc = "verify" /\ f \in todo
  /\ found' = IF root[f] = sidecar.files[f] THEN found ELSE With(found, f, root[f])
  /\ todo' = todo \ {f}
  /\ UNCHANGED <<trees, pc, args, exit, raced>>

VerifyEnd ==
  /\ pc = "verify" /\ todo = {}
  /\ Exit(IF DOMAIN found = {} THEN "0" ELSE "5")
  /\ UNCHANGED <<trees, args, raced>>

-----------------------------------------------------------------------------
(* The rest of the world.                                                     *)

\* a build writes the tree the packager reads
Rebuild(f) ==
  /\ source[f] < MaxBuild
  /\ source' = [source EXCEPT ![f] = @ + 1]
  /\ raced' = (raced \/ pc \in {"package", "copy"})
  /\ UNCHANGED <<stage, inventory, hub, root, required, sidecar, pc, args, todo, found, exit>>

\* hf upload of the stage
Upload ==
  /\ pc = "idle" /\ exit = "0" /\ DOMAIN inventory = Files
  /\ hub' = [f \in Files |-> IF stage[f] = Absent THEN hub[f] ELSE stage[f]]
  /\ UNCHANGED <<source, stage, inventory, root, required, sidecar, pc, args, todo, found, exit, raced>>

\* the device's checkout is updated: the manifest grows, and the sidecar is the
\* one a trusted machine recorded for some build
Pull ==
  /\ pc = "idle"
  /\ required' = Files
  /\ \E v \in Builds : sidecar' = [kind |-> "ok", files |-> [f \in Files |-> v]]
  /\ exit' = "none"
  /\ UNCHANGED <<source, stage, inventory, hub, root, pc, args, todo, found, raced>>

\* a file on the device is removed or damaged
Damage(f) ==
  /\ pc = "idle" /\ root[f] # Absent
  /\ \E c \in {Absent, Torn} : root' = [root EXCEPT ![f] = c]
  /\ exit' = "none"
  /\ UNCHANGED <<source, stage, inventory, hub, required, sidecar, pc, args, todo, found, raced>>

Killed ==
  /\ pc # "idle"
  /\ Exit("killed")
  /\ UNCHANGED <<trees, args, raced>>

ArtifactsNext ==
  \/ PackageStart \/ PackageEnd
  \/ GenerateStart \/ write_checksums \/ WriteDone
  \/ DeployStart \/ DownloadRaises \/ Downloaded \/ LoadChecksums \/ VerifyEnd
  \/ Upload \/ Pull \/ Killed
  \/ \E f \in Files :
       \/ PackageDigest(f) \/ PackageCopy(f) \/ generate_sidecar(f)
       \/ snapshot_download(f) \/ verify_checksums(f) \/ Rebuild(f) \/ Damage(f)

ArtifactsSpec == ArtifactsInit /\ [][ArtifactsNext]_artifactsVars

-----------------------------------------------------------------------------
\* A deploy that ends with 0 leaves no required file missing, whatever the hub did
\* not have and whatever was lost or killed before, and under --verify-sha256 every
\* required file that has an entry is exactly as recorded: an upgrade that was
\* killed half-way, a damaged file or a half-written sidecar never passes, although
\* the files all exist and a plain deploy accepts them (main 249-288,
\* verify_checksums 104-133).
DeploySound ==
  (exit = "0" /\ args.tool = "deploy") =>
    /\ verify = {}
    /\ args.verify => /\ sidecar.kind # "torn"
                      /\ \A f \in required \cap DOMAIN sidecar.files : root[f] = sidecar.files[f]

\* "writes a checksum inventory so uploads are reproducible": after a packager
\* run that nobody rebuilt under, the inventory holds the digests of exactly the
\* staged files, whatever earlier runs left behind in the stage (main 81-116).
InventoryOfStage ==
  (exit = "0" /\ args.tool = "package" /\ ~args.dryRun /\ ~raced) => inventory = stage
=============================================================================
