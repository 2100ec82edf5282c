------------------------------- MODULE Parts --------------------------------
(* A behaviour of a module that checks several components is about one of    *)
(* them: part names it, and x1 to x18 are its variables.  The ones past the  *)
(* last that it has stay at 0: Zero_k says so of x_k and those after it, and *)
(* Idle_k is what a step of a component with k - 1 variables leaves alone.   *)
VARIABLES part, x1, x2, x3, x4, x5, x6, x7, x8, x9,
          x10, x11, x12, x13, x14, x15, x16, x17, x18

Zero18 == x18 = 0
Zero17 == x17 = 0 /\ Zero18
Zero16 == x16 = 0 /\ Zero17
Zero15 == x15 = 0 /\ Zero16
Zero14 == x14 = 0 /\ Zero15
Zero13 == x13 = 0 /\ Zero14
Zero12 == x12 = 0 /\ Zero13
Zero11 == x11 = 0 /\ Zero12
Zero10 == x10 = 0 /\ Zero11
Zero9 == x9 = 0 /\ Zero10
Zero8 == x8 = 0 /\ Zero9
Zero7 == x7 = 0 /\ Zero8
Zero6 == x6 = 0 /\ Zero7
Zero5 == x5 = 0 /\ Zero6
Zero4 == x4 = 0 /\ Zero5
Zero3 == x3 = 0 /\ Zero4
Zero2 == x2 = 0 /\ Zero3
Zero1 == x1 = 0 /\ Zero2

Idle19 == <<part>>
Idle18 == <<x18, Idle19>>
Idle17 == <<x17, Idle18>>
Idle16 == <<x16, Idle17>>
Idle15 == <<x15, Idle16>>
Idle14 == <<x14, Idle15>>
Idle13 == <<x13, Idle14>>
Idle12 == <<x12, Idle13>>
Idle11 == <<x11, Idle12>>
Idle10 == <<x10, Idle11>>
Idle9 == <<x9, Idle10>>
Idle8 == <<x8, Idle9>>
Idle7 == <<x7, Idle8>>
Idle6 == <<x6, Idle7>>
Idle5 == <<x5, Idle6>>
Idle4 == <<x4, Idle5>>
Idle3 == <<x3, Idle4>>
Idle2 == <<x2, Idle3>>
Idle1 == <<x1, Idle2>>

partVars == Idle1
=============================================================================
