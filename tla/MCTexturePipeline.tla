-------------------------- MODULE MCTexturePipeline --------------------------
(* Model-checking instances of TexturePipeline.                              *)
EXTENDS TexturePipeline

\* Three requests, or two of which one fails; the selection moves more than
\* once only if the list asks for nothing.
MCBudget ==
    {b \in (0 .. 3) \X (0 .. 3) \X (0 .. 1) :
        b[1] + b[2] + b[3] <= 3 /\ (b[1] > 0 => b[2] <= 1)}

=============================================================================
