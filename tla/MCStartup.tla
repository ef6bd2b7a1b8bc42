----------------------------- MODULE MCStartup -----------------------------
(* A rolling update of builds with different versions: r1 has two, r2 and   *)
(* r3 one of them each, and r3 was built with a changed file.               *)
EXTENDS Startup, TLC

CONSTANTS r1, r2, r3, f1, f2, f3

RollingUpdate == (r1 :> <<f1, f2>>) @@ (r2 :> <<f1>>) @@ (r3 :> (2 :> f3))
=============================================================================
