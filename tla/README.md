# Seki: models, checks and proofs of the alpha compiler

Seki is a small total language for decision kernels. Its compiler `sekic` (`src/src/alpha`, C11,
single-threaded) reads one source file, elaborates it, encodes it as a typed-core module in the
binary form SCB-0, reads that module back in a backend, and prints restricted C and a header. A
second, independent implementation (`src/tools/encoding/*.mjs`) decides whether an encoded module is
admitted. This directory holds TLA+ models of the parts where a mistake is easy to make and hard to
test, the TLC configurations that check them, and TLAPS proofs about five of them.

Contents: [inventory](#inventory), [modules](#what-each-module-models), [runs](#what-the-runs-check),
[findings](#disagreements-between-code-and-documents), [proofs](#what-is-proved),
[limits](#what-is-not-modelled), [plan](#plan).

## Inventory

| Component | State | Operations | Hard because | Correct when |
| --- | --- | --- | --- | --- |
| Shell, `sekic.c` | argv, three paths, exit status; the file system | `main`, `check_command`, `build_command`, `inspect_command`, `write_new_file`, `path_exists`, `remove` | separate system calls; write faults, failing `remove`, kills, other processes, two spellings of a path | success means all outputs are there; failure leaves nothing; user files are never touched; a refused source writes nothing; the header appears last |
| Lexer, `seki_lexer.c` | offset, line, column, `failed` | `seki_lexer_next`, `skip_trivia` | numeric limit, comments, CR LF, half pairs | tokens and errors are those of the grammar, placed where they are; every call returns |
| Parser, `seki_parser.c` | token, `depth`, three shared arenas per kernel | recursive descent | nested constructs share arenas; capacity and nesting limits | numbers refer backwards, a body is a tree, the nesting counter balances, limits fail closed |
| Types, `seki_types.c` | intern table | resolve, expand, width | mutual recursion, 32-bit sums, a table that can fill | equal types have equal identifiers, widths are exact, recursion is refused |
| Checker, `seki_checker.c` | environment, elaboration, first error | declarations; types, matches, rejection order, exact bounds, ceilings | same judgement as the independent reader; costs depend on evaluation order | what it accepts is admitted, the bounds are exact, the meaning is kept |
| Emitter, `seki_core.c` | layout, output buffer | declaration order, member order, tree writer, header | canonical orders recomputed by others; slots and positions | the order is topological and canonical; the tree means what the source means |
| Admission, `check_typed_core.mjs`, `decode_scb0.mjs` | none | decode, types, costs, order | a second implementation of the same rules | refuses nothing the compiler emits |
| C backend, `seki_c_backend.c` | reader, decoded module with arenas, text buffer | `decode_module`, `print_module`, header, inspection | capacities of its own, slots against binding ordinals, C precedence, scopes and names | what is emitted is refused for known reasons only; what is printed compiles and decides as the source does |

Everything happens in one process and one thread; the parts are called one after the other, each
takes the structure the one before has filled in, and each trusts it. `compile_source` runs lexer
and parser (the parser pulls tokens), checker, and emitter; `build_command` then calls the backend
on the octets. There is no shared state between the parts besides these structures, no callback and
no retry. Concurrency enters only at the shell: any number of `sekic` processes share a directory.
So the hazards are of three kinds: interleavings and faults at the file system; recursion, shared
arenas and limits inside a pass; and two parts that compute the same thing separately and have to
agree (checker, emitter and admission). `PROJECT.json` lists each hazard at its line.

Other parts of the repository and why they are left alone: `src/src/e0` is the earlier fixed-form
compiler, not linked any more; `src/formal` and `src/experiments` are Lean developments and closed
experiments; `src/vendor/kcore` is vendored; `src/docs`, `src/spec`, the project seed and the editor
grammar are text; the rest of `src/tools` generates and checks fixtures.

## What each module models

### BuildCommand: the shell

`sekic.c`, from `main` to the exit status, for any set of processes. One action per system call:
the `path_exists` tests (`TestHeader`, `TestCore`, `TestC`, and `Probe` inside `write_new_file`),
`fopen "wb"` (`Open`, `OpenFails`), `fwrite` with `fclose` (`Fill`, `FillFails`), `remove`
(`Unlink`, `Undo`), with `Kill` between any two and `KillWritten` in the middle of a write. A write that fails
leaves the file in part or in full: `fclose` may report an error when every octet is there. `stage` says which
output is being written and `undo` which earlier ones the failure branch still has to remove.

The file system has entries (`dir`) and inodes (`data`), because a process that has a file open
keeps writing to it after another process removed the entry. Path strings are mapped to entries by
`FileOf`, so that `a` and `./a` may be one entry: the code compares strings. An entry may be
unreadable but writable, which `path_exists` (an `fopen "rb"`) takes for absent. The compiler proper
is one verdict per source (`good`, `refused`, `nobackend`, `projection`, `oversize`). The content of a
file is who wrote it, as what, and whether in full. A failing `remove` sets `stuck`; the code
ignores the result and goes on, and so does the model.

### KernelParser: expression and tail descent

`parse_kernel_tail` and the levels below it as a machine with an explicit stack of productions,
one step per call, return or loop iteration. There is no token list: at each point where the parser
looks at a token, each construct the grammar allows there may come next, or one it does not
(`SyntaxError`), so a run over the model covers all sources within the limits. `expressions`,
`fields` and `arms` are the kernel's arenas; an expression keeps `first` and `count` of its range.
The capacity tests, duplicate tests and nesting tests are where the code makes them, with their
codes. The header, the declarations and the kernel's own header are not modelled: their loops do
not nest and have fixed arrays of their own.

### TypeTable: types and widths

`seki_type_resolve`, `resolve_named_expanding`, `seki_type_width`, `width_of_declaration` and their
driver `resolve_declarations`, again with an explicit stack, one frame per active C call. `table` is the
intern table; identifiers are positions. `MaxDepth` is the descent budget, `WordMax` stands for
`UINT32_MAX`, `Capacity` for the table's size and `MaxStack` for the room the host stack has: a call
beyond it is the phase `crashed`. `StackAssumption` says that there is room for the descent the
budget allows and one expansion of every alias; with the code's 32 levels and 32 declarations that is fewer
than 70 small frames. `ChainAssumption` says that the loop of `resolve_named_expanding` may follow every alias
once: both constants are 32 in the code. The meaning of a reference (`Meaning`, `Denotation`), a
width (`NameBits`, unbounded arithmetic) and the depth at which it is derived (`NameDepth`) are defined
separately, as least fixed points over the names, and the properties compare the machine with them.

### TypeLayout: the order of declarations

`build_layout` of the emitter: `declaration_dependencies`, the insertion sort by name
(`Take`, `Shift`, `Drop`, `Sorted`), the inverse (`Position`), and the dependency order built by
repeated scans (`Place`, `Cycle`, `Ordered`). `Admitted` is the order
`validateTypeOrder` of `decode_scb0.mjs` accepts, computed from the references that end up in the
octets. TypeTable takes `Formed` from here (`INSTANCE TypeLayout`): what the layout assumes of a
module is what an accepted module is shown to satisfy (`RingsAreFound`, proved as `RingsAreRefused`).

### KernelChecker, CoreEmitter, CoreAdmission, KernelMeaning, KernelPipeline: one kernel end to end

Four modules of operators and one state machine.

* `KernelChecker`: `infer_expression`, `check_kernel_tail`, rejections and payloads, coverage of
  matches, `check_rejection_order`, and the cost derivation (`cost_of_expression`, `cost_strict`,
  `cost_of_kernel_tail`). A kernel that fails gives the code of its first diagnostic.
* `CoreEmitter`: `put_kernel` and what it calls, as a tree: slots instead of names, members by
  canonical position, cases by tag, a literal cut to its width, `==` and `!=` as forms of their own and the four
  orders as one form with an octet (`compare_form`). Of `encode_module` the profile, the claims and the
  theorems with their registries (`put_tag_vector`). A rejection that is declared but no variant is read as one
  (`seki_core.c:865`): the tags found for its items are then what another member of the union has left
  there, any of `StrayTags`, or none are found, so `Emit` is `EmitWrites` or `EmitFails`.
* `CoreAdmission`: `infer`, `checkKernel`, `analyzeStrict`, `analyzeKernel`, `compareBounds`,
  `checkModuleCeilings` (against `Profile`) and the condition on publication of `check_typed_core.mjs`, over any
  table of core declarations. It collects reasons for refusal.
* `KernelMeaning`: reference definitions: the decision of a surface kernel (with names) and of a
  core kernel (with slots), and the schedule of resource events of section 3.1 of
  `RESOURCE_COST_ALGEBRA`, taken one event at a time.
* `KernelPipeline`: `check_kernel` in its order (`CheckHeader`, `CheckTail`, `CheckOrder`,
  `DeriveCost`, `CompareCeilings`), then `Emit` and `Admit`. `INSTANCE CoreAdmission` reads the
  declarations the emitter wrote.

The names of fields are numbers (their order is all that matters) and the sample types are Bool, U8, U64 and
the octet types of `Lengths`; the natural widths between go the same way through every operator here.
`Decision` stands for `Decision[Bool, Bool]`, which a member may be. A value of octets is one value: its
octets matter only by being equal or not. `WordMax` is scaled down to 550 so that sums do overflow with a few
fields. The environment's capacity is 7.

### CBackend, RestrictedC, KernelProjection: from the core to C

* `CBackend`: the reader and the printer of `seki_c_backend.c` as operators. The reader (`decode_header`,
  `decode_kernel`, `decode_expression`, `decode_tail`) walks the tree in the order of its encoding and fills
  the arenas `expressions`, `record_fields`, `tails` and `arms`, with a range reserved before the nodes that
  go into it are read, and slots turned into binding ordinals. It fails where the code calls `reader_fail`:
  the profile, the length of names, the tags, the types of members (`read_claimed_type`, `Representable`), the
  signature, publication, the octet of a comparison, and every capacity but those in
  [limits](#what-is-not-modelled). The printer walks the arenas: expressions become C tokens, because their
  grouping is what can go wrong, with all six operators and a negated helper for octets that differ, tails
  become nested blocks of items (declarations, assignments, copies, `if`, `switch`), and the file gets its
  typedefs and helpers with the names they have.
* `RestrictedC`: what a C11 compiler makes of such a unit. It parses the tokens by C's own precedences,
  collects the reasons for which C11 refuses the unit (a declaration after a label, one
  name twice in a scope, operands of the wrong type, a missing typedef or helper, one identifier
  for two things at file scope, a member named by a keyword), and executes the body. A typedef may be
  repeated for the same type. It is external to the code and is what the code is compared with.
* `KernelProjection` extends `KernelPipeline`'s machine: after `Emit` comes `Decode` and
  `WriteC` in place of admission, with their codes `A0-BACKEND-0001` and `A0-BACKEND-0002`.

### Lexer and LexicalGrammar

`Lexer` is `seki_lexer_next`, one step per iteration of its loops, over sources of octets: `at` is
the loop that runs, `begin` the start of the token, and `Call` a call by the parser, which may come also
after a failure. All punctuation is one kind, `MARK`; which mark it is follows from its octets.
`LexicalGrammar` is the abstract specification: one step delivers the longest token that starts after
the trivia, or the failure there, with its place in the source, and nothing in it is a loop. `Lexer`
states the refinement at its end, `ImplementsGrammar`: `source`, `token` and `error` are the abstract
variables, every other step of the lexer is a stutter.

### MC modules

`MCBuildCommand`, `MCKernelParser`, `MCTypeTable`, `MCTypeLayout`, `MCKernelPipeline`, `MCKernelProjection`
and `MCLexer` give values to the constants and build the sets of inputs. They redefine nothing.

## What the runs check

Passing runs:

| Run | Instance | Size | Shows |
| --- | --- | --- | --- |
| `build_files` | two processes, 22 command lines, ten entries, twelve spellings | 761,674 states | `SuccessComplete`, `FailureLeavesNothing`, `UserFilesKept`, `OnlyGoodSourcesWrite`, `HeaderLast`, `EveryProcessEnds` |
| `parser` | nesting 3, five expressions, two fields, two arms, three families of constructs | 329,494 states | `ChildrenPrecede`, `BodyIsTree`, `NestingBalanced`, `OverrunIsNested`, `ParseEnds` |
| `table` | three declarations over eleven bodies, two sets of names, table of 6, words up to 44, a budget of 5 | 70,687 states | `IdentityIsEquality`, `ResolutionIsMeaning`, `WidthIsExact`, `FiniteIsAccepted`, `RingsAreFound`, `CheckEnds` |
| `layout` | 900 modules of three declarations in every source order | 25,056 states | `TableIsCanonical`, `PlainOrderIsAdmitted`, `OrderIsTopological`, `PlainIsNeverRecursive`, `LayoutEnds` |
| `pipeline` | 4,325 kernels over seven declarations, some with up to two of three more | 21,571 states | `AcceptedIsAdmitted`, `CostIsSchedule`, `PremisesInOrder`, `MeaningKept` |
| `projection` | 3,750 kernels over eight declarations and at most one of 31 further ones, five sampled arguments | 27,204 states | `ArenasHoldTree`, `RefusedExactly`, `CompilesExactly`, `ProjectionDecides` |
| `lexer` | 14,553 sources of up to five octets, numbers up to 25 | 119,846 states | `LineAndColumn`, `ImplementsGrammar`, `CallReturns` |

Each also checks its module's `TypeOK` (`ProjectionTypeOK`). Why the bounds are enough:

* `build_files`: an output of one process can be disturbed by one other process at a time, and
  every property speaks of one process and what others did to its files; two processes with
  disjoint, equal, crossed and aliased outputs meet all cases. Each has at most three outputs, so
  every failure branch with every set of earlier outputs is taken. `TypeOK` is proved for any number.
* `parser`: all three arenas are filled and the nesting ceiling is met within these limits. The
  families separate constructs that do not touch the same arena; a record in an operand and an arm
  in an arm are inside one family each.
* `table`: three declarations give chains, rings of one, two and three, shadowed built-ins and
  Decisions of Decisions. The table fills within six entries and sums pass 44. The budget of 5 is used up by
  rings and passed by finite nesting too, and the host stack has exactly the room `StackAssumption` asks for.
  The three properties about meanings, widths and reasons are proved for every budget.
* `layout`: three declarations give every shape of precedence of three, in every source order,
  with one name that may also be a built-in's.
* `pipeline`: every construct is in every continuation it can be in, and inside each kind of tail, well typed
  and not, with each of the six comparisons; every ceiling is too low at least once and, one at a time, above
  the profile; the inventory is complete, short, in the other order, repeated, or names an unknown case; the
  rejection is a record, a nominal, a scalar or another variant; a kernel is for publication with and without
  the claim and the theorem, and the header names claims and theorems that the registries have and have not;
  the profile is another one; octets, a record and a variant are wider than the profile. Bodies are three
  tails deep: costs compose one level at a time, and what is live while a tail runs depends on the one around
  it. In this run the fields of records are declared in the order of their names; `pipeline_order` is about
  the other case. Nominals are over a scalar, over a record and over a variant. No literal is inside another
  and no match inside an arm, since the parser does not leave those as trees (see `parser_match`).
* `projection`: the kernels have one record parameter, as the projection wants, or are just outside of that:
  no parameter, two, a scalar, another record; an accepted type of octets; a rejection that is no variant;
  publication; a second kernel; another profile; a longest name of 63 and of 64 octets. Each construct is
  printed in each place it can be in, octets directly, behind a nominal, in records and payloads; fields and
  cases are declared out of canonical order; every operator compares numbers, `==` and `!=` octets. To the
  module of eight declarations one further type is added at a time, used or not: members that are Unit, Bool,
  a Decision, too many octets or the rejection variant, aliases and nominals of those, tag 5, names that are
  spelled like another type, a case, a helper or the kernel, and cases named by keywords. Kernels have such
  names, too. The capacities are scaled down to 24 expressions, five tails, four constructed fields, tag 4 and
  32 octets; names have the real 64. Tails, constructed fields, tags, octets and names each meet their
  capacity exactly and pass it by at least one. The parser stores no more expressions than the reader takes,
  so those only meet theirs; of constructed fields it stores 64 and the reader takes 128, so that their
  capacity, unlike the others, is passed in the model only. Each reason in `RefusedExactly` and each reason of
  C11 in `CompilesExactly` occurs.
* `lexer`: no decision of the lexer looks at more than two octets, so all sources of three with one
  octet of each class show every pair in every position; longer ones, over the octets that matter,
  are there for comments, numerals and strings. A limit of 25 is passed by a last digit (26) and by
  one digit more (250).

Fairness. `EveryProcessEnds` assumes weak fairness of each process's own steps: the operating
system schedules a process that is not killed, and every system call returns. `ParseEnds`,
`CheckEnds` and `LayoutEnds` assume weak fairness of `Next`: a single thread that is not blocked
goes on. `CallReturns` assumes it of `Step`, what the lexer does in a call, and not of `Call`: the parser
need not ask for another token. What they show is that no loop of the code repeats for ever. No fairness is assumed of
the environment: a write never has to fail or succeed, a source never has to go on. `CHECK_DEADLOCK
FALSE` stands in every configuration but the lexer's because every one of these programs stops; the lexer can
always be called again, and TLC's test for deadlock shows that some loop takes every octet.

## Disagreements between code and documents

Each has a run that must find the violation.

* `layout_alias`, `OrderIsAdmitted`: `declaration_dependencies` looks at surface references, and what is
  written has aliases expanded. With `A` an alias of `C`, a record over `A` does not wait for `C`,
  and admission computes another order. The real `sekic` emits the order the model does.
* `parser_match`, `MatchesAreExhaustive`: the arms of a match inside an arm go to the same arena in
  front of the arm they belong to, and are counted as arms of the outer match. The real `sekic`
  accepts an outer match that misses a case, and refuses the complete one.
* `table_ring`, `NeverCrashes`: `type D := Decision[D, Denial]` recurses without a bound between
  `seki_type_resolve` and `resolve_named_expanding`; the real `sekic check` ends with a segmentation
  fault. `RingsAreFound`, checked in run `table` and proved for all modules, shows that nothing else does.
* `pipeline_order`, `CostIsSchedule`: the cost of a record literal visits the fields in the order of
  their declaration and the emitter writes them in the order of their names. The live bound differs
  when a field's value needs more while it is computed than it leaves; the encoded bound is then not the
  one admission derives.
* `projection_grouping`, `GroupsAsTree`: `print_expression` prints the operands of a comparison bare.
  `p == (q == r)` and `(p and q) == r` are regrouped by C's precedence, and the compiled function
  decides otherwise than the source. The real `sekic` prints what the model does.

Other facts are stated inside a property of a passing run: the property names the reasons, and the run shows
that within the model there are no others.

* `SuccessComplete` has the proviso that no other build was given the same paths. Between `path_exists` and
  `fopen "wb"` (`sekic.c:100`) another build can create the file, and the failure branch of one build
  removes the output of the other, which has exited 0. `QUICKSTART.md:105` has no such proviso.
* `HeaderLast` holds of a build that rolls back unless one of its `remove()` calls failed: a header whose `fclose`
  failed may be complete, and if its `remove` fails (`sekic.c:115`) and that of the core does not (`sekic.c:226`), it
  stands alone.
* `OverrunIsNested`: the capacity of an arena is tested when an entry is opened and the entry
  stored after its body, which may have filled the arena (`seki_parser.c:842`, `:856`). Only an arm with a
  match in it and a field with a literal in it write past an arena.
* `FiniteIsAccepted` names a full table and a body nested too deep as reasons for a refused width. The
  descent budget counts two calls per record (`DeclarationDepth`): with the code's 32, fifteen nested records
  are accepted and sixteen are not.
* `AcceptedIsAdmitted` says what the compiler lets pass and admission refuses: an incomplete or repeated
  `rejects:` inventory, also of a rejection that is no variant; a field or a match of a value of nominal
  type, which the checker opens and the independent reader does not (`OpensNominal`); another profile, a declared
  bound above the profile and a member wider than it (`WithinProfile`); a kernel for publication in a module without
  that claim or theorem (`MayBePublished`). Nesting needs no word, since it is at most the derived depth.
* `RefusedExactly`: what `sekic check` accepts and `sekic build` does not project: another profile, a name of
  64 octets or more, a field, an alias or a nominal that is Unit or Bool, a member that is a Decision or more
  than 1024 octets, a tag above 255, a second kernel, publication, a signature other than from one record to
  something that is no octets and a variant, a field of another record than the parameter, and more tails than
  there is room for. A kernel that uses a record, a reason or `unit` where C has a value is decoded and then
  refused with the code for a text that is too long (`A0-BACKEND-0002`).
* `CompilesExactly`: what `sekic` prints, with exit status 0, and C11 refuses: arms that start with a
  binding; records or variants compared as a whole; octets moved into a reason when no record literal moves
  any (`_octets_copy` is not printed); the rejection variant as the type of a member or as what is accepted (it has
  no typedef); two of the types, cases with payload, printed helpers and the kernel with one spelling in lower
  case, unless they are typedefs of one type; a case with payload named by a keyword of C in lower case.

## What is proved

TLAPS checks all proofs in `BuildCommandProofs`, `TypeLayoutProofs`, `KernelParserProofs`,
`KernelParserArenaProofs`, `TypeTableProofs`, `TypeTableRingProofs`, `TypeTableMeaningProofs` and `LexerProofs`, for
every value of the constants that satisfies the named assumptions. The last step of each theorem combines
`Init => IInv`, `IInv /\ [Next]_vars => IInv'` and `IInv => P`.

**BuildCommand.** `TypeCorrect`, `SuccessIsComplete`, `FailureIsClean`, `UserFilesAreKept`,
`OnlyGoodSourcesAreWritten`, `HeaderIsLast`: all safety properties of the module, and `ProcessesBounded`, for
any number of processes, any directory, any aliasing of paths and any command lines. Assumptions: `FileOf`,
`Initially`, `Unreadable` and `Invocations` have their types, and inodes of initial files differ from created
ones. The invariant is `BuildInv`, a conjunction of:

* `TypeInv`: types, and that `stage` fits the outputs asked for;
* `HomeInv`: an inode is found only at the entry it was made for, and an open one is the process's own target;
* `SourceInv`: a process that writes has a good source, which no process can have changed;
* `KeepInv`: a protected user file is still in place, and no process has gone past the existence test for it;
* `CleanInv`: whatever a process has written is at the stage's entry or among those its failure path will remove;
* `DeliverInv`: outputs before the stage are complete as long as nobody else was given them;
* `HeaderData`, `HeaderPath`: whose header is there in full, of a process whose rollback has not failed to remove
  anything, and where that process then is: past its core and C, or about to remove the header before them.

The properties are not inductive by themselves: a file that vanishes could be one another process
still has open, and `HomeInv` is what excludes it. Each invariant has a lemma that says what an action of
another process can do to it (`OthersStay`, `OthersWriteTheirOwn`, `PrivateUntouched`, `EarlierStay`).

**TypeLayout.** `TypeCorrect`, `TableCanonical`, `OrderTopological`, `PlainAdmitted`, `PlainNeverRecursive`,
`LayoutCanonical`, `LayoutBounded`, for any number of declarations. Assumptions: `Count` is positive; modules
have distinct names and are `Formed`. The invariant is `SortInv /\ PositionInv /\ OrderInv`: the table is a
permutation with a sorted prefix, and while an element is out, that holds of the table with the element put
back into the hole; every position placed so far was the first one that could be chosen, in terms of what was
placed before it. `PlainNeverRecursive` uses that a formed module has a minimal unplaced declaration.

`LayoutCanonical` is no invariant but a fact about any two states: two layouts of modules with the same set of
declarations, whatever the order of the source, are equal, tables and orders, and one ends as `recursive` only if the
other does. Sorted tables of the same names cannot differ at a least position; nor can two greedy orders at a
least step, where the same declarations are placed and so the same ones can be placed next.

**KernelParser.** `TypeCorrect`, `NestingIsBalanced`, `ChildrenArePreceding`, `ParseBounded` (in
`KernelParserProofs`), `OverrunNeedsNesting` and `BodiesAreTrees` (in `KernelParserArenaProofs`): all
invariants of the module and the bound on its steps, for any token stream, any capacities of the three arenas
and any limit of nesting. The only assumption is that capacities and limit are numbers (`CapacityAssumption`).
The argument, from the inside out:

* `IInv` says of every pair of adjacent frames who waits for whom and for what (`Wants`, `Ready`,
  `Shallow`), and of every frame what it has already (`FrameOK`, `ExpressionOK`): which results it holds,
  that they are numbers of stored expressions, and where its ranges of fields and arms stand. The nesting
  counter is the number of frames that have entered; this is what makes `NestingBalanced` inductive.
* An action has one of a few effects on frames and arenas (`Effect`); each further invariant is kept by each
  effect, not by each action.
* `Ownership`: an expression is in exactly one place, the results of a frame, the children of an expression,
  a field or an arm. `Coverage`: a field or an arm lies in the range of an expression or of a production still
  open. `RootIsLast`: a complete body has the last expression stored. At acceptance no frame is left but the body's,
  so both say what `BodyIsTree` asks: every expression but the root has exactly one parent.
* `Nested`, `LookedFields`, `LookedArms`, `OverrunFull`: an open entry has looked at the capacity and found
  room, so an arena can be full when it is written only if a construct inside the entry filled it. The construct that
  wrote is the first such (`Smallest`: a nonempty set of numbers has a least element, from the
  well-foundedness of the order; this is induction without a theorem that takes an operator).

`OverrunIsNested` bounds a defect (see the findings) and does not excuse it: the proof shows that a write past
the end needs nesting, for every capacity.

**TypeTable.** `TypeCorrect` and `IdentityCorrect` (in `TypeTableProofs`), for every module, capacity, budget
and stack size. The invariant says of every pair of adjacent frames who may call whom (`Follows`): only
resolutions return to a resolution, so that a width is never taken for an identifier of a type, and a Decision is
built from entries that are already there.

`RingsAreRefused` (in `TypeTableRingProofs`) is `RingsAreFound` for every module, capacity and budget, under
`StackAssumption`. Its two halves need two invariants over the stack:

* `KnowInv`, for accepted modules. A ring is a set of declarations each of which refers to one of the set. A type
  that has a width cannot lead into a ring, since following the ring never ends within the budget: so the
  invariant says of every result a frame holds, and of every pair of adjacent frames what the caller waits for
  the callee to find out, that a width other than the failure means that what was measured refers to no ring. The
  width of an alias is never derived (the code measures the first entry of the table instead), so for a
  declaration not yet measured the facts are conditional, and the condition is discharged when all
  declarations are done. That entries of the table are clean is an argument by the least entry that is not.
* `StandInv`, for exhausted stacks. The descent of `value_bits` is bounded by `depth`. A resolution carries no
  depth; what bounds its height is the number of aliases that its name can still lead to, and every call
  through an alias outside a ring makes that set smaller.

`MeaningIsResolved`, `WidthsAreExact` and `RefusalsHaveReasons` (in `TypeTableMeaningProofs`) are
`ResolutionIsMeaning`, `WidthIsExact` and `FiniteIsAccepted` for every module, capacity, budget and host stack, under
`ChainAssumption`: with it a name that is refused after the last round of the loop means nothing. The
argument has two halves.

* About the machine. A *reading* of the declarations gives every name, reference and declaration a meaning, a
  width and a depth that satisfy the equations of a fixed point (`Reading`); a reading of the table does so
  for the entries (`TableReading`). `TellInv` says, for every pair of readings, what each frame has found out
  (`Tells`: the sum of the fields passed, the widest case, the meaning and the width of the results it holds)
  and that what a caller waits for is what its callee finds (`Needs`). An entry that stands for what a
  reference means is as wide and as deep as the reference (`Agreement`), by the least entry and the least name
  for which it is not; a loop over aliases has room as long as its name means something (`ExpandTells`). A
  failure comes with its reason from the frame where it arises: a width past U32, a depth past the budget, or
  a full table. The width derived in place of an alias's is that of the first entry, which is no Decision, so
  its failure has a reason in a field (`FirstExcuses`).
* About the definitions. `Meaning`, `NameBits` and `NameDepth` are the last round of one iteration (`OfName`).
  What a round has found stays (`NameStays`), and there are more rounds than names, so the last round finds
  nothing new (`RowsEnd`, by the cardinality of the set of names settled) and is a fixed point (`FixedPoint`);
  a name that means nothing has no width (`NothingBeyond`); the round in which an alias was settled ranks it
  above the names of its target (`RankExists`). So they are a reading (`NamesAreReading`), and `Denotation` is
  one of the table (`DenotationReads`). These are inductions over numbers, by least elements (`InductionTo`).

TypeLayout assumes `Formed` of its modules; by `RingsAreRefused` it is what the checker guarantees when it
hands a module on.

**Lexer.** `TypeCorrect`, `LinesAreCounted`, `GrammarIsImplemented` and `CallsBounded`, for any sources and
any limit of a literal of at least nine. Assumptions: a source is a sequence of octets, and the limit is a
number. The first two invariants are inductive as they stand. The first rests on the arithmetic of the test
for overflow (`DigitFits`: a digit is taken only if ten times the number and the digit stay within the limit),
the second on two lemmas about counting: an octet that ends no line adds to the column (`CountRegular`), one
that does adds one to the cardinality of the line ends (`CountLine`), CR LF being the one case of both; and on
that no loop passes a CR or LF with `advance_regular`.

`GrammarIsImplemented` is the refinement `ImplementsGrammar`: every step of the lexer is a step of the
grammar or a stutter. The argument has three parts.

* About the grammar alone: what the next token is. The octet a token starts with decides its kind
  (`OpenersApart`); for each kind, the longest run of octets that forms one is the one that ends where the
  lexer's loop would (`IdentifierIs`, `NumberIs`, `StringIs`, `MarkIs`, and the failures, `StringBroken` among
  them); and the trivia are passed at one place only (`SkippedIs`). The value of a literal is ten times that
  of the shorter one and the last digit (`DecimalSteps`), and one that is beyond the limit stays beyond it
  with more digits (`DecimalGrows`): the lexer fails at the first digit that does not fit, the grammar looks
  at the whole literal.
* `ScanInv`, the invariant: each loop has passed, since the last token, only what the grammar passes there:
  trivia before `begin`, and from `begin` on octets of the token that is being read (`InIdentifier`,
  `InNumber`, with the value so far, `InString`, in steps of two octets, `InComment`). `TypeOK` and
  `LineAndColumn` do not say so, and without it a loop may stop at the right octet having started at the wrong
  one.
* `LineAndColumn` says that the line and column of the token are those the grammar counts (`PlaceIs`).

**Termination.** That something eventually happens needs fairness, which the prover cannot reason about. What can be
proved is the other half: no behaviour takes steps without end. Each theorem gives a number that starts within
a bound and gets smaller with every step that counts (for the type check, a tuple of numbers in their
lexicographic order), so that with weak fairness, and no deadlock, the machine must end.

* `LayoutBounded`: at most `Count^2 + 3 Count + 1` steps. The insertion sort moves each element past those before it,
  the greedy loop makes one scan per position.
* `CallsBounded`: a call of the lexer on a source of n octets takes at most 4n + 3 steps. What falls is the octets
  left, and between two of them the place in the loop.
* `ProcessesBounded`: each process takes at most twenty steps of its own, and a step of another process does not
  give it more to do, though it may change every file the process is about to look at.
* `ParseBounded`: what falls is, in this order, the room left in the three arenas, and between two writes the way left
  through the productions: each frame on the stack can still hand on to productions of lower rank or
  return, and nesting is limited. Nothing is said of the tokens, which the loops need not consume: a parser
  that loops without consuming a token or storing anything would break it.
* `CheckBounded` (in `TypeTableRingProofs`): every frame of the type check has four numbers, what gets smaller
  first, the cases left, the fields left of the case and the calls left for the field, and a place of the
  stack without a frame counts more than any call. Read from the outermost frame, the first of the `4 *
  MaxStack` numbers that a step changes gets smaller. This is no bound in steps, since a return makes the
  place it leaves count more, but no sequence of such steps is endless. The one invariant needed is `AtCall`:
  a waiting frame stands where its call was made, so that the return counts for it. No bound on cases and
  fields is assumed.

## What is only model-checked

* Liveness (`EveryProcessEnds`, `ParseEnds`, `CheckEnds`, `LayoutEnds`, `CallReturns`): fairness and ENABLED
  are out of the prover's reach. The bounds under Termination are what these properties need besides fairness.
* The kernel pipeline and the projection: their operators recurse over trees (RECURSIVE), and TLAPS has neither
  induction over such data nor its SMT backend there.

## What is not modelled

* The octets of SCB-0: tags, lengths, vectors, exports, the footer, and buffer capacity.
  Emitter, reader and admission are compared as trees, with what the header says of the profile, claims and theorems.
  A full buffer is therefore not there; the one effect it has besides failing closed, the code it is reported with
  (`seki_core.c:1064`), is listed as a hazard without a property.
* Limits that are the same on both sides, so that no accepted source passes them: the counts of declarations,
  fields, cases, payload fields and path components, which the C backend limits as the parser does; the counts of
  octets, declarations and expressions in a module, which admission limits to more than the parser stores and the
  emitter has room for. Exact workspace is zero in what this compiler emits; only the declared bound is modelled.
* Of the C backend: layout and size of the text (a text of more than `SEKI_C_SOURCE_CAPACITY` octets is refused
  with the code `RefusedExactly` gives to aggregates as values), the header file (the same declarations as the
  unit's), and the inspection listing. Fields are printed with a prefix of their own and cannot be
  keywords.
* The parser's header, declarations and signatures; the module-level loop of the checker over
  several kernels (kernels do not refer to one another). Of the other kernels of a module only the number is kept.
* Parts of admission for terms this compiler never emits: imports, functions, blocks, collections,
  arithmetic.
* Vector generators, fixtures, bundles, the first slice and the Lean development: programs of their
  own that share no state with the compiler.

## Plan

Order of modules, the most important first; all are written.

1. BuildCommand (with proofs). 2. TypeLayout (with proofs), composed with TypeTable. 3. KernelParser (with
proofs).
4. TypeTable (with proofs). 5. KernelChecker, CoreEmitter, CoreAdmission, KernelMeaning,
composed in KernelPipeline. 6. CBackend and RestrictedC, composed with 5 in KernelProjection.
7. Lexer (with proofs), which implements LexicalGrammar.

What would be modelled next: writer and reader of the octets as two machines over one buffer, and the
parser's declarations.

Theorems worth proving next: the greedy choice of the declaration order as one step, implemented by the
scans of TypeLayout; the stack of a parse as a context-free derivation of the tokens it has consumed.
