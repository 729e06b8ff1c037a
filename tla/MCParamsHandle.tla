--------------------------- MODULE MCParamsHandle ---------------------------
(* Bounded instances of ParamsHandle for TLC. *)
EXTENDS ParamsHandle

\* Two parameters, the first of two registers: with chunks of two registers the
\* second begins right behind the first chunk.
TwoKeys  == <<1, 3>>
TwoWidth == (1 :> 2) @@ (3 :> 1)
\* The same with single registers only.
NarrowWidth == (1 :> 1) @@ (3 :> 1)
=============================================================================
