---------------------------- MODULE TtsContract ----------------------------
(***************************************************************************)
(* scripts/verify_qwen3_tts_contract.py, which accepts a deployment of the     *)
(* product TTS backend, and the imports of the round trip beside it             *)
(* (scripts/verify_qwen3_tts_asr_roundtrip.py, _prepare_imports).               *)
(*                                                                          *)
(* sys.path is a sequence of directories; the product app has the package        *)
(* `backends`, and so may the native overlay, as a regular package or as a plain  *)
(* directory (a namespace package, which any regular one further down the path    *)
(* beats).  A deployment is described by what is wrong with it.                   *)
(***************************************************************************)
EXTENDS Integers, Sequences, SequencesExt, FiniteSetsExt, Subsequences

CONSTANTS StartPaths     \* sys.path when the program starts

ASSUME PathAssumption == \A p \in StartPaths : p \in Seq(ToSet(p))   \* lists

Defects == {"mode", "product", "module", "native", "missing", "groups", "seed",
            "talker", "cp", "length", "vocoder", "wav", "rate", "segmented", "meta", "frames"}

VARIABLES dep,        \* the deployment: app (its directory exists), legacy, wrong
          flags,      \* tensorrt importable, TTS_VOCODER_TRT, --expect-frame-cap, --run-sample
          program, cpc,
          path,       \* sys.path
          loaded,     \* where backends was imported from (sys.modules)
          cases,      \* cases the round trip has left
          cexit
contractVars == <<dep, flags, program, cpc, path, loaded, cases, cexit>>

ContractInit ==
  /\ dep \in [app : BOOLEAN, legacy : {"none", "namespace", "package"},
              wrong : {{}} \cup {{d} : d \in Defects} \cup {{"talker", "meta"}}]
  /\ flags \in [trt : BOOLEAN, vocoder : BOOLEAN, cap : BOOLEAN, sample : BOOLEAN]
  /\ program \in {"contract", "roundtrip"}
  /\ cpc = "path" /\ path \in StartPaths /\ loaded = "none" /\ cases = 2 /\ cexit = "none"

IsDir(d) == d # "app" \/ dep.app

\* the directory whose `backends` an import finds: the first regular package
Resolve(p) ==
  LET regular(d) == (d = "app" /\ dep.app) \/ (d = "overlay" /\ dep.legacy = "package")
      hits == {i \in DOMAIN p : regular(p[i])}
  IN  IF hits # {} THEN p[Min(hits)]
      ELSE IF dep.legacy = "namespace" /\ Contains(p, "overlay") THEN "overlay" ELSE "none"

CExit(code) == cpc' = "end" /\ cexit' = code

\* Mutant: what is on the path already stays where it is.
prepare_importsKeeping ==
  LET ordered == SelectSeq(<<"app", "overlay">>, LAMBDA d : IsDir(d) /\ ~Contains(path, d))
  IN  ordered \o path

\* _prepare_imports: both are taken off the path and put in front, app first
prepare_imports ==
  (IF dep.app THEN <<"app", "overlay">> ELSE <<"overlay">>)
    \o Picked(path, {i \in DOMAIN path : path[i] \notin {"app", "overlay"}})

\* collect_contract: each is inserted at 0 unless it is on the path
contractPath ==
  LET new == SelectSeq(<<"app", "overlay", "overlay/backends">>, LAMBDA d : IsDir(d) /\ ~Contains(path, d))
  IN  Reverse(new) \o path

\* every case of the round trip prepares the path; the first import stays in sys.modules
RoundtripCase ==
  /\ program = "roundtrip" /\ cpc = "path" /\ cases > 0
  /\ path' = prepare_imports
  /\ loaded' = IF loaded # "none" THEN loaded ELSE Resolve(path')
  /\ cases' = cases - 1
  /\ UNCHANGED <<dep, flags, program, cpc, cexit>>

RoundtripDone ==
  /\ program = "roundtrip" /\ cpc = "path" /\ cases = 0
  /\ CExit("0")
  /\ UNCHANGED <<dep, flags, program, path, loaded, cases>>

ContractImport ==
  /\ program = "contract" /\ cpc = "path"
  /\ path' = contractPath
  /\ loaded' = Resolve(path')
  /\ IF loaded' = "none" THEN CExit("1") ELSE cpc' = "load" /\ UNCHANGED cexit
  /\ UNCHANGED <<dep, flags, program, cases>>

\* _require: ContractError ends main with 2
Require(failing, then) ==
  /\ IF dep.wrong \cap failing # {} THEN CExit("2") ELSE cpc' = then /\ UNCHANGED cexit
  /\ UNCHANGED <<dep, flags, program, path, loaded, cases>>

\* preload may trip over a missing engine before anyone looks for it, with a
\* traceback; then the mode, the product backend and where the modules came from
RequireLoaded == program = "contract" /\ cpc = "load" /\ Require({"mode", "product", "module", "native"}, "files")
PreloadRaises ==
  /\ program = "contract" /\ cpc = "load" /\ "missing" \in dep.wrong
  /\ CExit("1")
  /\ UNCHANGED <<dep, flags, program, path, loaded, cases>>

RequireFiles == program = "contract" /\ cpc = "files" /\ Require({"missing", "groups", "seed"}, "engines")

\* Mutant: the metadata of the engines is not looked at.
RequireEnginesNever == program = "contract" /\ cpc = "engines" /\ Require({"length"}, "sample")

\* _inspect_engine: without the tensorrt module the tensors are not looked at
RequireEngines ==
  /\ program = "contract" /\ cpc = "engines"
  /\ Require((IF flags.trt THEN {"talker", "cp", "vocoder"} ELSE {})
               \cup (IF flags.vocoder /\ ~flags.cap THEN {"length"} ELSE {}), "sample")

RequireSample ==
  /\ program = "contract" /\ cpc = "sample"
  /\ Require(IF ~flags.sample THEN {}
             ELSE {"wav", "rate", "segmented", "meta"} \cup (IF flags.vocoder THEN {"frames"} ELSE {}), "ok")

ContractOk ==
  /\ program = "contract" /\ cpc = "ok"
  /\ CExit("0")
  /\ UNCHANGED <<dep, flags, program, path, loaded, cases>>

ContractNext ==
  \/ RoundtripCase \/ RoundtripDone \/ ContractImport \/ RequireLoaded \/ PreloadRaises
  \/ RequireFiles \/ RequireEngines \/ RequireSample \/ ContractOk

ContractSpec == ContractInit /\ [][ContractNext]_contractVars

-----------------------------------------------------------------------------
\* "The product app must win for the Python `backends` package": in the round trip
\* it does, wherever the overlay was on the path before and however often a case
\* prepares it, as long as the app's directory is there (_prepare_imports 82-90).
ProductAppWins == (program = "roundtrip" /\ loaded # "none" /\ dep.app) => loaded = "app"

\* CONTRACT_OK on a device with TensorRT, with the vocoder uncapped and a sample run,
\* is given only to a deployment with nothing wrong; a defect is reported with 2 or,
\* if preload trips over it first, with 1 (collect_contract 129-298).
OkMeansConforming ==
  (program = "contract" /\ flags.trt /\ flags.sample /\ flags.vocoder /\ ~flags.cap) =>
    /\ cexit = "0" => dep.wrong = {}
    /\ cexit = "2" => dep.wrong # {}

\* The same of the contract.  The code does not keep this: its three directories are
\* inserted at 0 one after the other, so that the overlay is in front of the app
\* and a legacy package there is what the contract verifies (138-140).
ContractUsesApp == (program = "contract" /\ cexit = "0" /\ dep.app) => loaded = "app"
=============================================================================
