--------------------------- MODULE MCRenderManager ---------------------------
(***************************************************************************)
(* Small instances of RenderManager: three pictures, of which the last has *)
(* other parameters, in a ring of three buffers.                           *)
(***************************************************************************)
EXTENDS RenderManager

AAB == <<"a", "a", "b">>
=============================================================================
