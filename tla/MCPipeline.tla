----------------------------- MODULE MCPipeline -----------------------------
(***************************************************************************)
(* Two handlers for RshPipeline.                                           *)
(***************************************************************************)
EXTENDS RshPipeline, TLC

CONSTANTS h1, h2

\* The pipelines of one handler next to the single commands of the other.
LongAndSingle == (h1 :> 1 .. 3) @@ (h2 :> {1})

\* Pipelines of both.
Pairs == (h1 :> {2}) @@ (h2 :> {2})
=============================================================================
