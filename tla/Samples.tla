------------------------------ MODULE Samples ------------------------------
(* What the instances of MCSafeParts and MCLiveParts are made of. *)
EXTENDS Naturals

\* Extensions: names and aliases that meet, a source that raises in the middle, one that
\* raises at its end, and one that cannot be imported.
Cmd(name, aliases) == [command |-> name, aliases |-> aliases]
Listens(disables) == [disables |-> disables]
SomeSources == {
    [members |-> <<Cmd("a", <<"b">>)>>, ends |-> "whole"],
    [members |-> <<Listens(TRUE), Cmd("c", <<"a">>)>>, ends |-> "whole"],
    [members |-> <<Cmd("d", << >>), Listens(FALSE)>>, ends |-> "init"],
    [members |-> <<Listens(FALSE)>>, ends |-> "whole"],
    [members |-> << >>, ends |-> "import"]}

\* PrefixedCalls: a group with a subcommand, and a function of each sort; the last five are
\* refused by _parse_parameters.
Marked(kind, number, marks) == [kind |-> kind, number |-> number, marks |-> marks, default |-> "missing"]
Word == Marked("normal", FALSE, {})
Number == Marked("normal", TRUE, {})
Greedy(kind) == Marked(kind, TRUE, {"greedy"})
Several == Marked("varpos", TRUE, {})
Rest(number) == Marked("kwonly", number, {})
Tuple(kind, marks) == Marked(kind, TRUE, {"tuple"} \cup marks)
Defaulted(p) == [p EXCEPT !.default = "some"]
Free(p) == [p EXCEPT !.marks = @ \cup {"free"}]
Maybe == Marked("normal", TRUE, {"maybe"})
Group == {<<"g">>, <<"g", "s">>}
Functions == {
    << >>,
    <<Number, Word>>,
    <<Defaulted(Number), Defaulted(Word)>>,
    <<Maybe, Maybe>>,
    <<Number, Rest(FALSE)>>,
    <<Number, Marked("normal", FALSE, {"rest"})>>,
    <<Word, Defaulted(Rest(TRUE))>>,
    <<Greedy("posonly"), Marked("posonly", FALSE, {})>>,
    <<Greedy("posonly"), Defaulted(Marked("posonly", FALSE, {})), Several>>,
    <<Defaulted(Greedy("posonly")), Defaulted(Word)>>,
    <<Defaulted(Greedy("posonly")), Defaulted(Greedy("posonly")), Defaulted(Greedy("posonly")), Several>>,
    <<Marked("posonly", TRUE, {"greedy", "maybe"}), Word>>,
    <<Number, Several>>,
    <<Marked("posonly", FALSE, {}), Several>>,
    <<Tuple("normal", {})>>,
    <<Word, Tuple("normal", {"rest"})>>,
    <<Number, Tuple("posonly", {"maybe"})>>,
    <<Tuple("posonly", {"greedy"})>>,
    <<Free(Number), Word>>,
    <<Free(Greedy("posonly")), Marked("posonly", FALSE, {})>>,
    <<Number, Free(Rest(FALSE))>>,
    <<Several, Rest(FALSE)>>, <<Greedy("kwonly")>>, <<Tuple("kwonly", {"greedy"})>>,
    <<Defaulted(Tuple("normal", {}))>>, <<Marked("varpos", TRUE, {"maybe"})>>}

\* Command: every sort of command that is enabled, and some that are not.
AnyCommand == {c \in [concurrent : {1, 2}, wait : BOOLEAN, enabled : BOOLEAN, checked : BOOLEAN, byRole : BOOLEAN] :
               c.enabled \/ (c.wait /\ c.checked)}

\* Tasks: one trigger of each kind.
OneOfEach == {[kind |-> "interval", per |-> <<2>>], [kind |-> "or", per |-> <<1, 2>>],
              [kind |-> "date", per |-> <<2>>]}
=============================================================================
