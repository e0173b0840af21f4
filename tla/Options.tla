------------------------------- MODULE Options -------------------------------
(***************************************************************************)
(* The runtime options (options::...) that the annotation hooks of         *)
(* template.c and the file wrappers of record-runtime.cpp test.  They are  *)
(* read-only while the program runs, so each is a constant; the           *)
(* configurations give them their default values.                          *)
(***************************************************************************)
CONSTANTS DMT,                        \* options::DMT
          EnforceAnnotations,         \* options::enforce_annotations
          EnforceNonDetAnnotations,   \* options::enforce_non_det_annotations
          RRIgnoreRwRegularFile       \* options::RR_ignore_rw_regular_file

ASSUME DMT \in BOOLEAN
ASSUME EnforceAnnotations \in BOOLEAN
ASSUME EnforceNonDetAnnotations \in BOOLEAN
ASSUME RRIgnoreRwRegularFile \in BOOLEAN

(***************************************************************************)
(* The test of tern_lineup_*, tern_set_base_time*: Space::isApp() &&      *)
(* options::DMT && options::enforce_annotations.  The hooks are called by  *)
(* application threads, for which Space::isApp() holds.  When the test    *)
(* fails the hook is a no-op: no step of the model.                       *)
(***************************************************************************)
AnnotationsOn == DMT /\ EnforceAnnotations

\* tern_non_det_start/end additionally test options::enforce_non_det_annotations.
NonDetAnnotationsOn == AnnotationsOn /\ EnforceNonDetAnnotations
=============================================================================
