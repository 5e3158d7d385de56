------------------------------ MODULE MCDefines ------------------------------
(* Model-checking instances of Defines, and of Resolver inside it.         *)
EXTENDS Defines

CONSTANT lib
IncludeDirs == <<lib>>
=============================================================================
