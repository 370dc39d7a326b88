----------------------------- MODULE MCCommands -----------------------------
(***************************************************************************)
(* A small instance of Commands: one scenario that releases and one that   *)
(* a registry's answer refuses, and two that need the opt-in, one of which *)
(* releases.  Three have one candidate.                                    *)
(***************************************************************************)
EXTENDS Commands

Row(candidate, verdict, asks, unsafe) ==
    [candidate |-> candidate, verdict |-> verdict, asks |-> asks, unsafe |-> unsafe]

MCDefaults == <<"safe", "missing">>

MCGuarded == <<"shadow", "against-shadow">>

MCData ==
    [s \in {"safe", "missing", "shadow", "against-shadow"} |->
       CASE s = "safe"           -> Row("ready", "APPROVE", {"default"}, FALSE)
         [] s = "missing"        -> Row("unsafe", None, {"default"}, TRUE)
         [] s = "shadow"         -> Row("unsafe", "APPROVE", Halves, TRUE)
         [] s = "against-shadow" -> Row("unsafe", "REJECT", Halves, TRUE)]

MCHalfFixes == <<"shadow">>

MCControls == <<"against-shadow", "safe">>
=============================================================================
