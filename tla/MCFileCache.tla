----------------------------- MODULE MCFileCache -----------------------------
(***************************************************************************)
(* A source of four bytes read by chunks of two into rings of three, two   *)
(* in front and one behind: they wrap, overwrite and cannot hold the file, *)
(* and a seek may lie inside, a little ahead of, far ahead of, behind or past*)
(* it.                                                                     *)
(***************************************************************************)
EXTENDS FileCache
=============================================================================
