--------------------------- MODULE PrefixedCalls ---------------------------
(***************************************************************************)
(* A message that calls a prefixed command:                                *)
(* _dispatch_prefixed_commands (Interfluxer/client/mixins/prefixed.py),    *)
(* which waits for the message, finds the command and dispatches what came *)
(* of it, and PrefixedCommand.call_callback (models/internal/prefixed/     *)
(* command.py), which hands the words that are left to the parameters.     *)
(*                                                                         *)
(* A word is kept by its position, and by whether a converter to int takes *)
(* it.  The function that is called is Python's: it refuses arguments that *)
(* do not fit its parameters.  Checks and the limits of BaseCommand are in *)
(* Command; prefixes, quotes and the conversions are left out.             *)
(***************************************************************************)
EXTENDS Integers, Sequences, FiniteSets

CONSTANTS
    Tree,          \* the commands: paths of names, closed under prefixes
    Words,         \* words of a message, the names of commands among them
    Numbers,       \* those an int converter takes
    Signatures,    \* parameter lists that functions may have
    MaxWords       \* bound: words of a message

\* A parameter of a function is [kind, number, marks, default]: what its annotation says, of
\* "greedy", "tuple", "maybe" (None is allowed), "rest" (ConsumeRest) and "free"
\* (NoArgumentConverter), and "missing", "none" (any falsy value) or "some".
Kinds == {"posonly", "normal", "varpos", "kwonly"}
Marks == {"greedy", "tuple", "maybe", "rest", "free"}
SignaturesAssumption ==
    Signatures \subseteq Seq([kind : Kinds, number : BOOLEAN, marks : SUBSET Marks,
                              default : {"missing", "none", "some"}])

VARIABLES
    phase,         \* where the dispatch is
    cached,        \* the message in the cache: "no", "partly" (its channel or guild missing), "yes"
    words,         \* the words after the prefix
    enabled,       \* the commands that are enabled
    params,        \* parameters of the command that is found
    ignoreExtra,
    command,       \* the path of the command found so far
    args,          \* positions of the words left for it
    index,         \* _PrefixedArgsIterator.index
    arg,           \* positions that the local variable arg stands for
    param,         \* param_index
    inner,         \* in the inner loop
    newArgs, kwargs,
    events         \* what was dispatched

vars == <<phase, cached, words, enabled, params, ignoreExtra, command, args, index, arg, param,
          inner, newArgs, kwargs, events>>
given == <<words, enabled, params, ignoreExtra>>
parsing == <<index, arg, param, inner, newArgs, kwargs>>

\* _parse_parameters: a parameter of the command.  rest is consume_rest, free is no_argument,
\* and given says that the function itself has a default.
Parsed(s) == [
    kind |-> s.kind, number |-> s.number,
    greedy |-> "greedy" \in s.marks, free |-> "free" \in s.marks,
    variable |-> "tuple" \in s.marks \/ (s.kind = "varpos" /\ "rest" \notin s.marks),
    rest |-> "rest" \in s.marks \/ (s.kind = "kwonly" /\ "tuple" \notin s.marks),
    default |-> IF "maybe" \in s.marks /\ ("greedy" \in s.marks \/ s.default = "missing")
                THEN "none" ELSE s.default,
    given |-> s.default # "missing"]

\* No ValueError: what takes all the words that are left is the last, and neither a variable
\* argument has a default (though its elements may be None) nor a greedy one takes the rest.
Accepted(list) ==
    \A i \in DOMAIN list :
        LET s == list[i]
            finishes == s.marks \cap {"rest", "tuple"} # {} IN
        /\ finishes \/ s.kind \in {"kwonly", "varpos"} => i = Len(list)
        /\ "greedy" \in s.marks => "rest" \notin s.marks /\ s.kind \notin {"kwonly", "varpos"}
        /\ "tuple" \in s.marks => s.default = "missing"
        /\ s.kind = "varpos" /\ ~finishes => Parsed(s).default = "missing"

ParamLists == {[i \in DOMAIN list |-> Parsed(list[i])] : list \in {s \in Signatures : Accepted(s)}}

Texts == UNION {[1..n -> Words] : n \in 1..MaxWords}

Init ==
    /\ phase = "raw"
    /\ cached \in {"no", "partly", "yes"}
    /\ words \in Texts
    /\ enabled \in {Tree} \cup {Tree \ {path} : path \in Tree}
    /\ params \in ParamLists
    /\ ignoreExtra \in BOOLEAN
    /\ command = << >> /\ args = << >>
    /\ index = 0 /\ arg = << >> /\ param = 1 /\ inner = FALSE
    /\ newArgs = << >> /\ kwargs = << >>
    /\ events = << >>

-----------------------------------------------------------------------------
\* The message and its command.

\* A message that is there only in part counts as not there.
Look ==
    /\ phase = "raw"
    /\ phase' = IF cached = "yes" THEN "resolve" ELSE "wait"
    /\ UNCHANGED <<given, cached, command, args, parsing, events>>

\* MessageCreate of this message.
MessageCreated ==
    /\ phase = "wait"
    /\ phase' = "resolve"
    /\ UNCHANGED <<given, cached, command, args, parsing, events>>

\* Two seconds without it.
TimesOut ==
    /\ phase = "wait"
    /\ phase' = "ignored"
    /\ UNCHANGED <<given, cached, command, args, parsing, events>>

\* The loop over the first words: down the tree as far as it goes through enabled commands.
Resolve ==
    /\ phase = "resolve"
    /\ LET Open(n) == \A k \in 1..n : SubSeq(words, 1, k) \in Tree \cap enabled
           depth == CHOOSE n \in 0..Len(words) : Open(n) /\ (n = Len(words) \/ ~Open(n + 1)) IN
        IF depth = 0 THEN phase' = "ignored" /\ UNCHANGED <<command, args>>
        ELSE /\ command' = SubSeq(words, 1, depth)
             /\ args' = [i \in 1..(Len(words) - depth) |-> depth + i]
             /\ phase' = "call"
    /\ UNCHANGED <<given, cached, parsing, events>>

\* pre_run_callback, and the checks of BaseCommand before the callback.
Enter ==
    /\ phase = "call"
    /\ phase' \in {"parse", "error"}
    /\ UNCHANGED <<given, cached, command, args, parsing, events>>

-----------------------------------------------------------------------------
\* call_callback: the words, and the parameters in turn.

P == params[param]
Optional(p) == p.default # "missing"

\* One converter for the text of several positions: joined words are no number.
Takes(p, text) == ~p.number \/ (Len(text) = 1 /\ words[text[1]] \in Numbers)

Value(i, text) == [for |-> i, words |-> text]

\* The word at Python's index i: a negative one counts from the end.
Word(i) == args[IF i < 0 THEN Len(args) + i + 1 ELSE i + 1]

\* The words to come after args.back(), and those of the slice of _finish_args.  After a greedy
\* parameter with a default, index may be 0 or less.
Ahead == [k \in 1..(Len(args) - index + 1) |-> Word(index - 2 + k)]
RestOfArgs == LET start == IF index > 0 THEN index ELSE Len(args) + index
              IN  SubSeq(args, IF start = 0 THEN 1 ELSE start, Len(args))

Fail == phase' = "error" /\ UNCHANGED parsing

Named(value) == [i \in DOMAIN kwargs \cup {param} |-> IF i = param THEN value ELSE kwargs[i]]

\* new_args or keyword arguments, by the kind of the parameter.
Positional(p) == p.kind \in {"posonly", "varpos"}
Give(p, value) ==
    IF Positional(p) THEN newArgs' = Append(newArgs, value) /\ UNCHANGED kwargs
    ELSE kwargs' = Named(value) /\ UNCHANGED newArgs

NoParameters ==
    /\ phase = "parse" /\ params = << >>
    /\ phase' = IF args # << >> /\ ~ignoreExtra THEN "error" ELSE "python"
    /\ UNCHANGED <<given, cached, command, args, parsing, events>>

\* The outer loop: it goes on through the words when no parameter is left.
NextArg ==
    /\ phase = "parse" /\ params # << >> /\ ~inner
    /\ \/ /\ index < Len(args)
          /\ index' = index + 1 /\ arg' = <<Word(index)>> /\ inner' = (param <= Len(params))
          /\ UNCHANGED <<phase, param, newArgs, kwargs>>
       \/ /\ index = Len(args)
          /\ phase' = IF param <= Len(params) THEN "fill"
                      ELSE IF ~ignoreExtra /\ index < Len(args) THEN "error" ELSE "python"
          /\ UNCHANGED parsing
    /\ UNCHANGED <<given, cached, command, args, events>>

\* What get_rest_of_args finds: the last word only, when consume_rest took them all before.
Remainder == IF P.rest THEN <<args[Len(args)]>> ELSE RestOfArgs

\* Variable arguments: every word that is left.  One that does not convert may count as None.
TakeVariable ==
    /\ phase = "parse" /\ inner /\ P.variable
    /\ IF P.free \/ Optional(P) \/ \A i \in DOMAIN Remainder : Takes(P, <<Remainder[i]>>)
         THEN /\ IF P.kind = "varpos"
                   THEN /\ newArgs' = newArgs \o [i \in DOMAIN Remainder |-> Value(param, <<Remainder[i]>>)]
                        /\ UNCHANGED kwargs
                   ELSE Give(P, Value(param, Remainder))
              /\ index' = Len(args) /\ param' = param + 1 /\ inner' = FALSE
              /\ UNCHANGED <<phase, arg>>
         ELSE Fail
    /\ UNCHANGED <<given, cached, command, args, events>>

\* Mutant: the word that ended the run is not put back.
AfterGreedy(taken) == index - 1 + taken + (IF index - 1 + taken < Len(args) THEN 1 ELSE 0)

\* args.back() after the run: its end is the next word.
AfterRun(taken) == index - 1 + taken

\* A greedy parameter takes words as long as they convert, and none when it needs no argument; an
\* index too far before the first word fails.  With a default that is true the loop goes on with
\* the next parameter, and with the word that arg stands for.
TakeGreedy ==
    /\ phase = "parse" /\ inner /\ ~P.variable /\ P.greedy
    /\ LET Run(n) == \A i \in 1..n : ~P.free /\ Takes(P, <<Ahead[i]>>)
           taken == CHOOSE n \in 0..Len(Ahead) : Run(n) /\ (n = Len(Ahead) \/ ~Run(n + 1)) IN
        IF index - 1 < -Len(args) \/ (taken = 0 /\ P.default # "some") THEN Fail
        ELSE /\ newArgs' = Append(newArgs, Value(param, SubSeq(Ahead, 1, taken)))
             /\ index' = AfterRun(taken)
             /\ param' = param + 1
             /\ inner' = (P.default = "some" /\ param' <= Len(params))
             /\ UNCHANGED <<phase, arg, kwargs>>
    /\ UNCHANGED <<given, cached, command, args, events>>

\* Any other parameter takes the word, or all that are left.  The word stays for the next one
\* when the default is used, and when the parameter takes no argument.
TakeOne ==
    /\ phase = "parse" /\ inner /\ ~P.variable /\ ~P.greedy
    /\ LET text == IF P.rest THEN RestOfArgs ELSE arg
           kept == P.free \/ ~Takes(P, text) IN
        IF ~P.free /\ ~Takes(P, text) /\ ~Optional(P) THEN Fail
        ELSE /\ Give(P, Value(param, IF kept THEN << >> ELSE text))
             /\ arg' = text
             /\ index' = IF P.rest THEN Len(args) ELSE index
             /\ param' = param + 1
             /\ inner' = (kept /\ param' <= Len(params))
             /\ UNCHANGED phase
    /\ UNCHANGED <<given, cached, command, args, events>>

\* The parameters without a word, until the first that is given by keyword.
Fill ==
    /\ phase = "fill"
    /\ LET value == Value(param, << >>) IN
        \/ /\ P.free /\ ~P.rest
           /\ newArgs' = Append(newArgs, value) /\ UNCHANGED kwargs
           /\ param' = param + 1 /\ phase' = IF param' <= Len(params) THEN "fill" ELSE "python"
           /\ UNCHANGED <<index, arg, inner>>
        \/ /\ P.free /\ P.rest
           /\ kwargs' = Named(value) /\ phase' = "python"
           /\ UNCHANGED <<index, arg, inner, param, newArgs>>
        \/ /\ ~P.free /\ ~Optional(P) /\ Fail
        \/ /\ ~P.free /\ Optional(P)
           /\ Give(P, value)
           /\ param' = param + 1
           /\ phase' = IF Positional(P) /\ param' <= Len(params) THEN "fill" ELSE "python"
           /\ UNCHANGED <<index, arg, inner>>
    /\ UNCHANGED <<given, cached, command, args, events>>

-----------------------------------------------------------------------------
\* Python's call of the function, and the end.

\* What is not given by position alone is the last (Accepted).
InPlace == {i \in DOMAIN params : params[i].kind \in {"posonly", "normal"}}
ByPosition(i) == i \in InPlace /\ i <= Len(newArgs)
Surplus == SubSeq(newArgs, Cardinality(InPlace) + 1, Len(newArgs))

Fits ==
    /\ \A i \in DOMAIN params : ~(ByPosition(i) /\ i \in DOMAIN kwargs)
    /\ Surplus # << >> => \E i \in DOMAIN params : params[i].kind = "varpos"
    /\ \A i \in DOMAIN params :
        ByPosition(i) \/ i \in DOMAIN kwargs \/ params[i].given \/ params[i].kind = "varpos"

CallFunction ==
    /\ phase = "python"
    /\ phase' = IF Fits THEN "called" ELSE "error"
    /\ UNCHANGED <<given, cached, command, args, parsing, events>>

\* The function or post_run_callback may raise; CommandError, and in any case CommandCompletion.
End ==
    /\ phase \in {"called", "error"}
    /\ phase' = "done"
    /\ \/ phase = "called" /\ events' = <<"CommandCompletion">>
       \/ events' = <<"CommandError", "CommandCompletion">>
    /\ UNCHANGED <<given, cached, command, args, parsing>>

Next == Look \/ MessageCreated \/ TimesOut \/ Resolve \/ Enter \/ NoParameters \/ NextArg
        \/ TakeVariable \/ TakeGreedy \/ TakeOne \/ Fill \/ CallFunction \/ End

Spec == Init /\ [][Next]_vars

-----------------------------------------------------------------------------
(***************************************************************************)
(* Properties                                                              *)
(***************************************************************************)
TypeOK ==
    /\ phase \in {"raw", "wait", "ignored", "resolve", "call", "parse", "fill", "python", "called", "error", "done"}
    /\ index \in -Len(args)..Len(args) /\ param \in 1..(Len(params) + 1) /\ inner \in BOOLEAN
    /\ DOMAIN kwargs \subseteq DOMAIN params
    /\ events \in {<< >>, <<"CommandCompletion">>, <<"CommandError", "CommandCompletion">>}

\* What a parameter of the function is given: the values at its place, or by its name.
Received(i) ==
    IF params[i].kind = "varpos" THEN Surplus
    ELSE IF ByPosition(i) THEN <<newArgs[i]>>
    ELSE IF i \in DOMAIN kwargs THEN <<kwargs[i]>>
    ELSE << >>

Given == UNION {UNION {{Received(i)[k].words[m] : m \in DOMAIN Received(i)[k].words} :
                         k \in DOMAIN Received(i)} : i \in DOMAIN params}

\* When the function is called, every parameter is given what was converted for it, and the
\* words given to the parameters, one parameter after the other, are the first words of the
\* message in their order: none is given twice, skipped or out of turn.  Two kinds of parameters
\* break this.  After a greedy one with a default the next is given a word of its run once more;
\* and of the words for a ConsumeRest[tuple[...]] all but the last are skipped.
Orderly(p) == ~(p.greedy /\ Optional(p)) /\ ~(p.rest /\ p.variable)
WordsInOrder ==
    (phase = "called" /\ \A i \in DOMAIN params : Orderly(params[i])) =>
        /\ \A i \in DOMAIN params : \A k \in DOMAIN Received(i) : Received(i)[k].for = i
        /\ \A i, j \in DOMAIN params : \A k \in DOMAIN Received(i), l \in DOMAIN Received(j) :
            \A m \in DOMAIN Received(i)[k].words, n \in DOMAIN Received(j)[l].words :
                i < j \/ (i = j /\ (k < l \/ (k = l /\ m < n)))
                    => Received(i)[k].words[m] < Received(j)[l].words[n]
        /\ \E n \in 0..Len(args) : Given = {args[x] : x \in 1..n}

\* "If `True`, ignores extraneous strings passed to a command if all its requirements are met
\* [...]. Otherwise, an error is raised.": no word is left over.
ExtraRefused ==
    phase = "called" /\ ~ignoreExtra => Given = {args[x] : x \in DOMAIN args}
=============================================================================
