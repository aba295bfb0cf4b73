---------------------------- MODULE AnswerStream -----------------------------
(***************************************************************************)
(* What Agent.run promises its caller: text fragments, then one answer     *)
(* that is exactly the text streamed, or no answer at all.  It is what     *)
(* AgentService relies on when it publishes the fragments first and saves  *)
(* the answer afterwards.                                                  *)
(***************************************************************************)
EXTENDS Sequences

CONSTANTS Fragments, None

VARIABLES streamed,  (* the fragments yielded, in order                    *)
          answer,    (* the answer yielded, or None                        *)
          over       (* whether the generator has ended                    *)

Init == streamed = <<>> /\ answer = None /\ over = "no"

Stream ==
  /\ over = "no"
  /\ \E f \in Fragments : streamed' = Append(streamed, f)
  /\ UNCHANGED <<answer, over>>

Answer ==
  /\ over = "no"
  /\ answer' = streamed
  /\ over' = "yes"
  /\ UNCHANGED streamed

GiveUp ==
  /\ over = "no"
  /\ over' = "yes"
  /\ UNCHANGED <<streamed, answer>>

Next == Stream \/ Answer \/ GiveUp

Spec == Init /\ [][Next]_<<streamed, answer, over>>
=============================================================================
