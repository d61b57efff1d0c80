----------------------------- MODULE Extensions -----------------------------
(***************************************************************************)
(* Extensions and the prefixed commands they bring: Extension              *)
(* (Interfluxer/models/internal/extension.py), load_extension,             *)
(* unload_extension, reload_extension and add_listener of Client           *)
(* (client/client.py), and the registry of PrefixedCommandsMixin           *)
(* (client/mixins/prefixed.py).                                            *)
(*                                                                         *)
(* Loading and unloading are synchronous, but the commands of an unloaded  *)
(* extension are removed by a listener of ExtensionUnload, a task that     *)
(* runs later.  What a load has registered when it raises stays.           *)
(*                                                                         *)
(* A file holds one extension class and no setup() or teardown(); sys.     *)
(* modules follows Client.__modules and is left out, as are subcommands,   *)
(* several events, the order of listeners, and remove_prefixed_command()   *)
(* called by the user.                                                     *)
(***************************************************************************)
EXTENDS Naturals, Sequences

CONSTANTS
    Files,         \* module names of extensions
    Sources,       \* what a file may hold: [members, ends]
    None,
    MaxMade,       \* bound: instances
    MaxUnloads,    \* bound: unload events on their way
    MaxEdits       \* bound: changes of files

\* A member is [command, aliases] or [disables]; a source ends "whole", in an error of its
\* __init__ ("init"), or cannot be imported ("import").
IsSequence(q) == q \in Seq({q[i] : i \in DOMAIN q})
IsCommand(member) == "command" \in DOMAIN member
SourcesAssumption ==
    /\ \A s \in Sources : /\ IsSequence(s.members)
                          /\ \A i \in DOMAIN s.members :
                                IsCommand(s.members[i]) => IsSequence(s.members[i].aliases)
    /\ None \notin Nat
    /\ MaxMade \in Nat /\ MaxUnloads \in Nat

VARIABLES
    file,          \* the files on disk
    reg,           \* what loading and unloading work on, see below
    edits,
    hasty,         \* history: files loaded while the commands of an old instance were still there
    promised       \* history: files last reloaded as they were

vars == <<file, reg, edits, hasty, promised>>

\* modules: Client.__modules; ext: Client.ext; commands: prefixed_commands; listed:
\* _prefixed_ext_command_list; listeners: Client.listeners of one event; unloads: tasks of
\* _handle_prefixed_ext_unload; made: number of instances; failed: those whose load raised;
\* ok: the last call did not raise.
Library == [owner |-> 0, position |-> 0, default |-> TRUE, disables |-> FALSE]

Fresh == [
    modules |-> [f \in Files |-> None],
    ext |-> [f \in Files |-> None],
    commands |-> << >>,
    listed |-> [f \in Files |-> {}],
    listeners |-> {Library},
    unloads |-> << >>,
    made |-> 0,
    failed |-> {},
    ok |-> TRUE]

Init ==
    /\ file \in [Files -> Sources]
    /\ reg = Fresh
    /\ edits = 0
    /\ hasty = {} /\ promised = {}

-----------------------------------------------------------------------------
\* Registering.

Names(c) == {c.name} \cup {c.aliases[i] : i \in DOMAIN c.aliases}

Put(map, keys, value) == [k \in DOMAIN map \cup keys |-> IF k \in keys THEN value ELSE map[k]]
Less(map, keys) == [k \in DOMAIN map \ keys |-> map[k]]

\* Mutant: a command takes the names it wants.
AddAnyway(r, c) ==
    [r EXCEPT !.commands = Put(@, Names(c), c),
              !.listed[c.file] = @ \cup {c.name}]

\* add_prefixed_command: the name first, then one alias after the other until one is taken.
AddCommand(r, c) ==
    IF c.name \in DOMAIN r.commands THEN [r EXCEPT !.ok = FALSE]
    ELSE LET taken == {i \in DOMAIN c.aliases :
                           c.aliases[i] \in DOMAIN r.commands \cup {c.name} \cup {c.aliases[j] : j \in 1..(i - 1)}}
             free == {i \in DOMAIN c.aliases : \A t \in taken : i < t}
             names == {c.name} \cup {c.aliases[i] : i \in free} IN
         IF taken # {} THEN [r EXCEPT !.commands = Put(@, names, c), !.ok = FALSE]
         ELSE [r EXCEPT !.commands = Put(@, names, c), !.listed[c.file] = @ \cup {c.name}]

\* add_listener: a listener that disables the default ones drops them.
AddListener(r, l) ==
    LET all == r.listeners \cup {l} IN
    [r EXCEPT !.listeners = IF \E x \in all : x.disables THEN {x \in all : ~x.default} ELSE all]

Bound(f, owner, i, member) ==
    IF IsCommand(member)
      THEN [name |-> member.command, aliases |-> member.aliases, owner |-> owner, file |-> f]
      ELSE [owner |-> owner, position |-> i, default |-> FALSE, disables |-> member.disables]

\* A member of the instance that is made.
Register(r, f, i, member) ==
    LET b == Bound(f, r.made, i, member) IN
    IF ~r.ok THEN r ELSE IF IsCommand(member) THEN AddCommand(r, b) ELSE AddListener(r, b)

\* One member after the other, until one raises.
RegisterAll(r, f, members) ==
    LET after[i \in 0..Len(members)] ==
            IF i = 0 THEN r ELSE Register(after[i - 1], f, i, members[i])
    IN  after[Len(members)]

\* Extension.__new__ with __init__ after it; a class whose name is loaded is refused first.
Construct(r, f, source) ==
    IF r.ext[f] # None THEN [r EXCEPT !.ok = FALSE]
    ELSE LET owner == r.made + 1
             s == RegisterAll([r EXCEPT !.made = owner], f, source.members)
             t == IF s.ok THEN [s EXCEPT !.ext[f] = owner, !.ok = source.ends = "whole"] ELSE s IN
         IF t.ok THEN t ELSE [t EXCEPT !.failed = @ \cup {owner}]

\* __load_module
LoadModule(r, f, source) ==
    LET s == Construct(r, f, source) IN
    IF s.ok THEN [s EXCEPT !.modules[f] = source] ELSE s

LoadExtension(r, f) ==
    IF r.modules[f] # None \/ file[f].ends = "import" THEN [r EXCEPT !.ok = FALSE]
    ELSE LoadModule(r, f, file[f])

-----------------------------------------------------------------------------
\* Unloading.

\* Mutant: the listeners stay.
DropQuietly(r, f) == [r EXCEPT !.ext[f] = None, !.unloads = Append(@, f)]

\* Extension.drop: the commands are left to the task of the event.
Drop(r, f) ==
    [r EXCEPT !.listeners = {l \in @ : l.owner # r.ext[f]},
              !.ext[f] = None,
              !.unloads = Append(@, f)]

UnloadExtension(r, f, force) ==
    IF r.modules[f] = None /\ ~force THEN [r EXCEPT !.ok = FALSE]
    ELSE LET s == IF r.ext[f] # None THEN Drop(r, f) ELSE r IN [s EXCEPT !.modules[f] = None]

\* reload_extension: unload and load; an error of either makes it unload once more and load
\* the module that was loaded before.
ReloadExtension(r, f) ==
    IF r.modules[f] = None THEN LoadExtension(r, f)
    ELSE LET s == LoadExtension(UnloadExtension(r, f, FALSE), f) IN
         IF s.ok THEN s
         ELSE LoadModule(UnloadExtension([s EXCEPT !.ok = TRUE], f, TRUE), f, r.modules[f])

\* _handle_prefixed_ext_unload: the commands listed for the module, of whichever instance, go
\* with their aliases.  No two of them share a name, so that their order does not matter.
RemoveListed(r, f) ==
    LET gone == {r.commands[n] : n \in r.listed[f] \cap DOMAIN r.commands} IN
    [r EXCEPT !.commands = Less(@, UNION {Names(c) : c \in gone}),
              !.listed = [g \in Files |-> @[g] \ {c.name : c \in {d \in gone : d.file = g}}]]

-----------------------------------------------------------------------------
Result(r) == reg' = r
Calm(r) == [r EXCEPT !.ok = TRUE]

\* Old commands of the file are still registered, and so is the task that removes them.
Hastily(f) == IF \E i \in DOMAIN reg'.unloads : reg'.unloads[i] = f THEN hasty \cup {f} ELSE hasty

Load(f) ==
    /\ reg.made < MaxMade
    /\ Result(LoadExtension(Calm(reg), f))
    /\ hasty' = Hastily(f)
    /\ promised' = promised \ {f}
    /\ UNCHANGED <<file, edits>>

Unload(f) ==
    /\ Len(reg.unloads) < MaxUnloads
    /\ Result(UnloadExtension(Calm(reg), f, FALSE))
    /\ promised' = promised \ {f}
    /\ UNCHANGED <<file, edits, hasty>>

Reload(f) ==
    /\ reg.made + 2 <= MaxMade /\ Len(reg.unloads) + 2 <= MaxUnloads
    /\ Result(ReloadExtension(Calm(reg), f))
    /\ hasty' = Hastily(f)
    /\ promised' = IF reg.modules[f] = file[f] THEN promised \cup {f} ELSE promised \ {f}
    /\ UNCHANGED <<file, edits>>

\* The oldest task runs.
HandleUnload ==
    /\ reg.unloads # << >>
    /\ Result([RemoveListed(reg, Head(reg.unloads)) EXCEPT !.unloads = Tail(@)])
    /\ UNCHANGED <<file, edits, hasty, promised>>

Edit(f) ==
    /\ edits < MaxEdits
    /\ edits' = edits + 1
    /\ \E s \in Sources \ {file[f]} : file' = [file EXCEPT ![f] = s]
    /\ UNCHANGED <<reg, hasty, promised>>

Next == \/ \E f \in Files : Load(f) \/ Unload(f) \/ Reload(f) \/ Edit(f)
        \/ HandleUnload

Spec == Init /\ [][Next]_vars

-----------------------------------------------------------------------------
(***************************************************************************)
(* Properties                                                              *)
(***************************************************************************)
TypeOK ==
    /\ file \in [Files -> Sources]
    /\ reg.modules \in [Files -> Sources \cup {None}]
    /\ reg.ext \in [Files -> (1..reg.made) \cup {None}]
    /\ \A n \in DOMAIN reg.commands : reg.commands[n].owner \in 1..reg.made
    /\ reg.unloads \in Seq(Files) /\ Len(reg.unloads) <= MaxUnloads
    /\ reg.failed \subseteq 1..reg.made /\ reg.made <= MaxMade

Present == {reg.ext[f] : f \in Files} \ {None}

\* Once the tasks of the unload events have run, every command, alias and listener belongs to
\* an extension that is there, or to one whose load raised half-way: an unloaded extension
\* leaves nothing behind, whatever was loaded in between.
UnloadedIsGone ==
    reg.unloads = << >> =>
        /\ \A n \in DOMAIN reg.commands : reg.commands[n].owner \in Present \cup reg.failed
        /\ \A l \in reg.listeners : l.owner \in Present \cup reg.failed \cup {0}

\* An extension that is there has all it defines: no other one takes a name or a listener of
\* its from it.  Excepted are files loaded before the task of their last unload had run,
\* which removes by name and finds the new commands.
LoadedIsWhole ==
    \A f \in Files \ hasty :
        reg.modules[f] # None => \A i \in DOMAIN reg.modules[f].members :
            LET b == Bound(f, reg.ext[f], i, reg.modules[f].members[i]) IN
            IF IsCommand(reg.modules[f].members[i])
              THEN \A n \in Names(b) : n \in DOMAIN reg.commands /\ reg.commands[n] = b
              ELSE b \in reg.listeners

\* An extension whose file has not changed is there after its reload: "Helper method to
\* reload an extension. Simply unloads, then loads the extension with given arguments."
ReloadKeeps == \A f \in promised : reg.ext[f] # None
=============================================================================
