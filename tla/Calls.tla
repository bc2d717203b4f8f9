-------------------------------- MODULE Calls --------------------------------
(* One call of a library operation: its topic and input are chosen at the start, *)
(* the operation returns once. Modules that extend this one add the operations   *)
(* of a component, as actions, and what their results must satisfy.              *)
EXTENDS Naturals, Sequences

CONSTANT None
VARIABLES call, result

calls == <<call, result>>

Pending(topic, inputs) == result = None /\ \E i \in inputs : call = <<topic, i>>
Input == call[2]
Asked(topic) == call[1] = topic /\ result = None /\ UNCHANGED call
\* A call that takes several steps keeps its work in the result, with the stage it is at.
At(topic, stage) == call[1] = topic /\ result # None /\ result.stage = stage /\ UNCHANGED call
Returned(topic) == call[1] = topic /\ result # None

-----------------------------------------------------------------------------
(* The transcript of a prover or of a verifier of an argument: what it observed  *)
(* and drew, in order. What is drawn comes from a tape, whose values stand for   *)
(* the answers of the random oracle.                                             *)

new_transcript(tape) == [tape |-> tape, at |-> 0, script |-> <<>>]

observe(ch, value) == [ch EXCEPT !.script = Append(@, <<"value", value>>)]
observe_slice(ch, values) == [ch EXCEPT !.script = Append(@, <<"slice", values>>)]
observe_label(ch, label) == [ch EXCEPT !.script = Append(@, <<"label", label>>)]
grind_pow(ch) == [ch EXCEPT !.script = Append(@, <<"pow">>)]

\* The values drawn next, and the transcript after them, drawn at once or one by one.
Sampled(ch, n) == [i \in 0 .. n - 1 |-> ch.tape[ch.at + i]]
After(ch, n) == [ch EXCEPT !.at = @ + n, !.script = Append(@, <<"sample", n>>)]
AfterEach(ch, n) == [ch EXCEPT !.at = @ + n, !.script = @ \o [k \in 1 .. n |-> <<"sample", 1>>]]
Next1(ch) == ch.tape[ch.at]
=============================================================================
