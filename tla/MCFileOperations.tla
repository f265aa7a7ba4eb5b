--------------------------- MODULE MCFileOperations ---------------------------
(* Model-checking instances of FileOperations: the scenes' thread and one     *)
(* background thread.                                                         *)
EXTENDS FileOperations

CONSTANTS scene, background

=============================================================================
