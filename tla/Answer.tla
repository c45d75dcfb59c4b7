------------------------------- MODULE Answer -------------------------------
(* What a chat promises, whatever happens to the computers behind it: an      *)
(* answer is the model's continuation of exactly what was asked, token by     *)
(* token; what was shown is never taken back; a turn is reported as done only *)
(* when its answer is complete, and otherwise as failed.                      *)
EXTENDS Naturals, Sequences
CONSTANTS Prompts,      \* what may be asked
          Pick(_),      \* the token the model picks after a history
          Eos, Wanted
VARIABLES asked, answer, mode

Complete == Len(answer) = Wanted \/ (answer # <<>> /\ answer[Len(answer)] = Eos)
Init == asked = <<>> /\ answer = <<>> /\ mode = "done"
Ask == /\ mode # "busy" /\ mode' = "busy"
       /\ asked' \in Prompts /\ answer' = <<>>
Say == /\ mode = "busy" /\ ~Complete
       /\ answer' = Append(answer, Pick(asked \o answer))
       /\ UNCHANGED <<asked, mode>>
Finish == mode = "busy" /\ Complete /\ mode' = "done" /\ UNCHANGED <<asked, answer>>
Fail == mode = "busy" /\ mode' = "failed" /\ UNCHANGED <<asked, answer>>
Next == Ask \/ Say \/ Finish \/ Fail
Spec == Init /\ [][Next]_<<asked, answer, mode>>
=============================================================================
