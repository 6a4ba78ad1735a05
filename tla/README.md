# A verification of the Hack tool chain

The repository is a nand2tetris project: a computer described gate by gate
(`cpu_hdl`), a compiler for the Jack language with its virtual machine
translator and its assembler (`compiler/src`, C++), an operating system written
in Jack (`OS`), and a few programs. This directory holds TLA+ modules of it,
the TLC runs that check them, and the TLAPS proofs of the results that matter
most. Paths are relative to `src/`; `asm/` and `vm/` stand for those directories of
`compiler/src/hack/`, `hack/` and `generic/` for those of `compiler/src/`.

Everything but the keyboard and the reset input is sequential, so what is hard
here is rarely an interleaving. It is that each stage leaves state behind for
the next line, file or call, that the stages agree on conventions nobody
declares in one place (frames, labels, counters, headers of heap blocks, what
the A register holds when), and that arithmetic wraps.

```
 Jack files -> [tokenizer, parser, symbol table] -> VM files
 VM files   -> [HackBuilderVMTranslator, VMHackTranslator] -> one .asm file
 .asm file  -> [HackSymbolTranslator, HackBinaryTranslator] -> one .hack file
 .hack file -> ROM32K -> CPU <-> Memory (RAM16K, Screen, Keyboard)
```

## 1. Inventory

| component | state it keeps | operations | what makes it correct |
|---|---|---|---|
| translation framework, `generic/translator.cpp`, `generic/builder.cpp`, `hack/translator.cpp` | the files, the gathered lines | `setInputFile`, `reset`, `processLines`, `translate` | each file is read once from a clean state; a refused line leaves no file |
| assembler, `hack/asm` | `_firstPass`, `_crtInstructionNo`, `_crtVariableNo`, `_symbolsTable`, outputs | a visit per line and pass, the encoding | labels are the addresses of what follows them, variables are apart, a symbol never changes |
| VM translator, `hack/vm` | `_function`, the file's name, the static counters of labels and return addresses | the code of each command, `reset`, bootstrap | the code does what the stack machine does; each label is declared once |
| Jack tokenizer, `hack/jack/tokenizer.cpp` | in-comment flag, position | `hasMore`, `advance`, `stripComments` | tokens do not depend on how lines split comments |
| Jack parser, `hack/jack/builder.cpp` | the tokens not yet eaten, `lookAhead` | a build function per rule | a text is accepted if it is in the grammar, and its tree is the text |
| Jack symbol table | class and subroutine scopes, one index per kind | `define`, `get`, `reset` | indices are 0, 1, ... per scope; the subroutine hides the class |
| Jack code generator, `grammar.cpp` | the unique label counter, the symbol table | `toVMCode` of every node | the VM code evaluates what the text says, in order |
| chips, `cpu_hdl/01`, `02` | none | gates, adder, ALU | words are two's complement numbers |
| registers and memory, `03`, `05/Memory.hdl` | registers, PC, RAM, screen | load, store | a store changes one word, where the map says |
| CPU and computer, `05` | A, D, PC | a clock cycle, reset | each cycle is one instruction, with the old A as address and target |
| Fill, `cpu_hdl/04/Fill.asm` | `color`, `i`, `end`, the screen | polling loop | the screen follows the keyboard |
| OS Memory | free list, tail, `mightNeedDefrag` | `init`, `alloc`, `deAlloc`, `defrag` | the free list and the live blocks partition the heap |
| OS Math and String | a table of powers of two, strings with a maximal length | arithmetic, `setInt`, `intValue`, `appendChar` | the mathematical result within a word, numerals that survive writing and reading |
| OS Keyboard and Output | the keyboard word, the cursor, the line's buffer | `readChar`, `readLine`, `printChar`, `println`, `backSpace` | a character per stroke, an echo in step with the buffer |
| OS Screen | the screen, the colour | pixels, lines, rectangles, circles | a shape changes its own pixels and no others |
| OS Sys and OSUtils | `calledInit`, `twoToThe` | `init`, `error`, `halt`, `wait`, `mod`, digits | everything is initialised before it is used |

Interactions: the stages call no one else; they meet through text files (labels
and names of symbols are the interface) and, when the program runs, through the
RAM (stack, frames, statics, heap, screen). The OS and the programs run on the
computer; the reset input restarts the program with the RAM as it was.

`PROJECT.json` lists the components with what is modelled of each, and the
hazards at their lines.

## 2. What is modelled

The assembler, the VM translator with the execution of its code, the Jack
compiler from the text to the running program, the CPU and its memory, Fill, the
heap, and the other classes of the OS. Modules in the order they depend on each
other:

| module | what it is | code |
|---|---|---|
| `AsmProgram` | lines of assembly, predefined symbols, and the reference definitions of ROM address, variables and code of a file | `asm/instruction.*`, `asm/builder.*` |
| `AssemblerSpec` | abstract: a file is assembled into its code, or refused because it has none within the documented limits | `asm/builder.h` |
| `HackAssembler` | the passes, a line a step | `asm/builder.cpp`, `generic/builder.cpp`, `generic/translator.cpp`, `hack/translator.cpp` |
| `HackChips` | gates and ALU | `cpu_hdl/01`, `02` |
| `HackEncoding` | the bits of an instruction; words as numbers: wrap, and, or, the 28 computations | `asm/instruction.cpp`, the mnemonics and the comments of the chips |
| `HackComputer` | CPU wire by wire, PC, memory map, ROM, reset, keyboard; the mapping to `HackISA` with numbers | `cpu_hdl/03`, `05` |
| `HackISA` | abstract: the machine as a programmer knows it, parameterised by what a word is | |
| `Fill` | the program, assembled by `Code` and run on `HackComputer` | `cpu_hdl/04/Fill.asm` |
| `HeapSpec`, `OSHeap` | abstract: blocks that never overlap; detailed: the loops of alloc and defrag over the words of the heap | `OS/Memory.jack` |
| `VMLanguage` | the VM commands, and those of a directory | `vm/instruction.*`, `vm/builder.cpp` |
| `VMCommands` | the assembly of each VM command | `vm/instruction.cpp` |
| `VMTranslator` | the builder's and the translator's state, a line a step | `vm/builder.*`, `vm/translator.*` |
| `StackVM` | abstract: frames without addresses, silent labels | the comments of `vm/instruction.cpp`; external |
| `VMMachine` | translate, assemble, execute; the mapping to `StackVM` | composition |
| `JackTokenizer` | lines to tokens, a token eaten a step; the reference: a file as one text, each character part of the code, of a string or of a comment | `jack/tokenizer.*` |
| `JackGrammar` | the trees of the parser | `jack/grammar.*` |
| `JackParser` | the build functions on a sequence of tokens; the tokens `toXML` prints of a tree | `jack/builder.cpp`, `jack/grammar.cpp` |
| `JackSyntax` | reference: the grammar, without order or look ahead | the comments of `jack/builder.cpp` |
| `JackSymbolTable` | the scopes, the indices and the order they are filled in, a definition a step | `jack/symbol_table.cpp`, `jack/grammar.cpp`, `jack/translator.cpp` |
| `JackCompiler` | the parse, the code of every node, the label counter, the files | `jack/grammar.cpp`, `jack/vm_commands.cpp`, `jack/builder.cpp` |
| `JackLanguage` | abstract: what a program means, by recursion over its tree, and which programs are well-formed | external |
| `JackMachine` | compile, link with an OS, run on `StackVM` | composition |
| `OSMath` | arithmetic, numerals, `mod` | `OS/Math.jack`, `OS/String.jack`, `OS/OSUtils.jack` |
| `OSScreen` | the words and bits every drawing function covers | `OS/Screen.jack` |
| `OSOutput` | frames and cursor | `OS/Output.jack` |
| `OSKeyboard` | `readLine` and `readChar`, a poll a step, with a user | `OS/Keyboard.jack` |
| `OSProgram` | one call of any of these | composition |
| `HackAssembler_proofs`, `JackSymbolTable_proofs`, `OSProgram_proofs` | theorems | |
| `HackComputer_proofs` | theorems of the computer and, on them, the instructions of `Fill` and the invariant of its loop | |
| `VMTranslator_proofs` | what every command's lines declare and use, the invariant of the translator, and what follows from it | |
| `JackTokenizer_proofs` | the modes of a text, of its lines and of what is left of a line; the invariant of the tokenizer | |
| `NaturalLemmas` | lemmas: induction up to a number, the existence of functions defined by recursion on an interval, powers of two, quotients and remainders | |
| `OSHeap_proofs` | the inductive invariant of the heap, and what follows from it | |

### Assembler

`HackAssembler` names its variables as the members of the builders. A step is
what `processLines` does with one line in one pass, or the end of a list.
`Throw` is a `runtime_error` that reaches `main`. The limit checks come after
the increments as in `incrementInstructionNo` and `incrementVariableNo`, so
both counters pass their limit by one in the failing step. Nothing resets
`_firstPass`, the counters or the table between two files, and the model keeps
that: properties about labels speak of the first file, those about variables
and stability of all.

`AssemblerSpec` takes the window of variables from the comment in `asm/builder.h`,
`[start,end)`: a file whose variables fit has a code. The code refuses the last
address of that window, so it does not keep this promise (section 4):
`ImplementsPromise` is the promise, `KeepsPromise` allows in addition the one step
`RefusesFullWindow`, for a file with exactly as many variables as addresses.

A line is a record: blank, malformed, label, symbolic or numeric A-instruction,
C-instruction. Splitting text into lines yields a last empty line, which is
`Blank`. An `@` with nothing after it makes the parser index an empty string;
it is taken as malformed. Commuted computations (`1+D`) depend on a rehash of
the table while it is iterated and are left out; the hazard is listed. A
directory without `.asm` files is not an input.

### Computer

`HackComputer` keeps the wires of `CPU.hdl` (`isCInstr`, `AorMout`, `outM`,
`jumpCond`...) as operators over `[0..WordSize-1 -> BOOLEAN]`; `Tick` is the
clock edge. `WordSize` is a parameter: the memory map follows it (2^(w-2) words
of RAM, 2^(w-3) of screen, then the keyboard), the instructions keep their 16
bits. The RAM is one function; the tree of RAM64, RAM512 and RAM4K is not
modelled. `Memory.hdl` has a wire that would load the keyboard, which reaches
no chip, and is left out.

`HackISA` takes words, arithmetic and memory locations as constants, so it has
two instances. In `HackComputer_proofs` words are buses; in `HackComputer` they
are numbers, and the memory is one array. Both are proved to be implemented, the
second is also checked by TLC.

### Fill

`Fill` is the text of the program as a list of lines; the instructions are
`Code(Source)`, which the assembler's run checks `HackAssembler` to produce,
and `HackComputer` executes them. The screen's size in the program (8192) and
the window of variables follow `WordSize`. A store at the keyboard's address or
behind it changes nothing in the memory, so `StoresInPlace` does not look at what
changed but at the address in A whenever an instruction stores: a loop one word
too long is seen.

### Heap

One iteration of a loop of `alloc` or `defrag` is a step; `pc` names the loop
and `i, prev_i, j, prev_j` are the locals. Statements between two iterations
belong to the step. Clients may free any live block and call `defrag`.
`live` is a history variable of what was given and not freed. Nothing in `alloc`
refuses a size of 0; such a block has an address and no words, and may lie just
behind the last word of the heap, so `Addresses` goes one further than `Words`.

`defrag` has a defect (section 4): after it joins `i` into `j`, `prev_j` is
stale. `StaleJoin` says that the next unlink would use it. `Spec` is the code;
`SpecUntilStale` is `Spec` cut at such a step, so that what the rest of the
code guarantees can be stated. `SpecWithRestart` adds the reset of the computer,
after which `Memory.init` runs over the RAM as it is.

### VM translator and its programs

`VMCommands` gives each `doTranslate` as a sequence of lines. Label texts are
strings built as in the code because two properties are about their
collisions. `VMTranslator` keeps the static counters apart from the builder's
state: `reset` clears the second and not the first. `NextFile` joins a file's
lines; `WriteToFile` puts the bootstrap code in front for a directory only, so
a single file is translated and checked for its labels but not run.

`JumpsResolveOnce` compares what was written with the commands alone: `Positions`
are the lines, `Scope` the function a line stands in, `Locations` the symbols that
are addresses of the RAM. `Linked` is the duty of the program, which the
translator does not check: each name is declared once, and what is called or gone
to is declared. `NamesApart` has two facts about strings (a number at the end of a
text can be read off it) and the duty not to use names of the translator's own,
such as `EQ_DONE1`. Every program of the run that is written meets both.

`VMMachine` then assembles the lines with `Code` and executes them with
`HackISA`. `view` is a history variable: whenever the program counter reaches
the first instruction of a command's block, the frames, statics, `temp` and
heap are read out of the memory, following the chain of saved LCL, ARG, THIS,
THAT and return addresses. `ImplementsStackVM` says that `view` behaves as
`StackVM`, where a frame has no address at all. Labels and `function f 0` make
no instruction and take no step. gt and lt compare by the sign of a difference
that wraps, as the code's comment has it; operands far apart therefore compare
wrongly, in both.

`StackVM` describes programs that keep to the rules: variables in range,
pointers inside the heap, declared labels and functions, no value popped from
an empty stack, a `Sys.init` that does not return. A command line with a
missing word makes the parser read past a vector; that is undefined and left
out.

### Tokenizer

`JackTokenizer` has the members of the tokenizer: the tokens of the line being
read (`buffer`) and the flag that a comment is open (`inMultiLineComment`). A
line is a sequence of glyphs; letters and digits stand together as a word, as
nothing in the tokenizer divides them (`IsLine`: two words are never neighbours in
the file), and the value of a token is the run of glyphs it is made of. `hasMore` may read several lines, until
one has a token. The reference (`Text`, `Modes`, `Tokens`) joins the lines and gives
every glyph a mode (code, string, comment), from left to right, where the code looks for each delimiter
once in a line, in a fixed order. The two agree on files that are `Plain`; what
is not, the code reads in its own way (section 4). `erase()` with its arguments
the wrong way round is undefined: the model then either fails or leaves the text
the library leaves, and `Plain` excludes it.

### Jack compiler

A build function of `JackParser` maps a position in the tokens to a set: the
tree and the position behind it, or nothing when the function throws. Only the
outermost set is ever more than a way to say "or a throw"; each function is
deterministic, as in the code. `buildSubroutineCall` and `buildVarName` are told
apart by one token. `JackSyntax` reads the comments of `builder.cpp` as a
grammar in which a rule may end in several places: a text is a class when one
derivation exists. `classXML` puts the text back together from the tree; the tags
are layout and left out, so what is left is the sequence of tokens, and it is
compared with the text that was read.

`JackSymbolTable` is the loop of `ClassElement::toVMCode` over the subroutines:
`InitTable` is the `reset()` at the head of `init()`, then each definition is a
step, `Define`, `SkipField` (a field in a function) or `Redefine` (the throw).
`_className`, `_subroutine` and `_classElement` are the positions `crtClass` and
`crtSubroutine`. It has no recursion and is what the theorems are about.

`JackCompiler` adds the code. `toVMCode` returns strings or throws; here it is a
sequence of commands in which a throw is the command `Error`, so `Translate` is
possible when there is none and `Throw` when there is one. `Throw` is also what a
text does that is not parsed. The files are created
before their code is made, and a throw leaves the current one empty. Labels are
strings, as the counter in them is what keeps them apart: `LabelsIn` counts
those of nested statements, which are numbered before the statement they are in.
The inputs are texts, one for a file; expressions of more than two terms are
among them, for which `buildExpression` makes a tree that has no code.

`JackMachine` links what was compiled with an OS written in VM commands
(`MCLibrary`), small stand-ins for the operators of `OS/`: `Memory.alloc` only
goes forward, `Out.print` stores the word it shows. `StackVM` runs it: the runs
of the VM translator are what shows that its code does the same. `JackLanguage`
has no stack, segments or labels; it evaluates a right side before the index it
is stored at, and reads any number but 0 as true, where the code takes -1 only
(a listed hazard; the inputs use Boolean conditions).

### Operating system

`OSProgram` makes one call, of any operation, with any arguments, on a display
that is fresh or all black. Arithmetic, numerals and drawings are one step each:
they depend on nothing that another actor changes. `OSMath` writes the
recursions and loops of the source as recursive functions over words that wrap,
with the comparisons of the VM (the sign of a difference). `OSScreen` gives the
pixels that the masks of a call cover, the words around the screen included,
since the code does not look where an address lies. A mask is the set of its
bits.

`DrawsItsShape` compares what a drawing changed with its shape, and is what the code
keeps: it lets a line that is not horizontal lack its second end (`IsStaircase`, the
shape, has both), and `clearScreen` leave pixels lit. The comments of `Screen.jack` say
more of these two, and that the code does not do it is proved (section 4).

`readLine` is a step for every look at the keyboard. Between two looks the user
presses or releases any key, as often as he likes, a second one before the first
is up included; what happens between two looks the program does not see. `line`
is the buffer, the display is that of `OSScreen`. Three variables are history:
`answered` (the key that is down has been read), `home` (where the echo began)
and `longest` (the longest the line has been).

The bitmaps of the characters are a constant with one pixel pattern for a
letter and one for the square. `Sys.error` is its code as a result that is no
word; the `ERR` it prints as the machine halts is left out. `moveCursor`'s check of its range cannot fail for
the calls of `Output` itself and is left out. The strings are those the OS
makes: the checks of `charAt` and `setCharAt` fail for none of them.

## 3. Runs

All finish within the five minutes; the bounds are in the `.cfg` files and MC
modules.

| run | what it checks | bounds |
|---|---|---|
| `asm` | `TypeOK`, `LabelsBound`, `VariablesApart`, `BindingsStable`, `KeepsPromise`, `Terminates` | every file of up to four lines out of eleven, of four variables out of four, of five lines out of three, every pair of files of up to two lines out of four; four instructions and three variable addresses |
| `heap` | `TypeOK`, `FreeListSound`, `DefragMerges`, `LiveIntact`, `FailsOnlyWhenFull`, `CallsReturn`, `ImplementsHeap` under `SpecUntilStale` | 13 words, sizes 1 and 2, three live blocks |
| `heap_defrag` (violation) | `FreeListSound` under `Spec` | 16 words, size 1, four blocks |
| `heap_restart` (violation) | `FreeListSound` under `SpecWithRestart` | 13 words, two blocks |
| `computer` | `ImplementsISA` | words of five bits; 28 computations, all eight destinations, each with one of the seven jumps or none, four kinds of address; keyboard and reset at any cycle |
| `fill` | `FollowsKeyboard`, `ColorTellsScreen`, `StoresInPlace` | words of seven bits, a screen of 16 words; the keyboard changes at any cycle |
| `fill_reset` (violation) | `ColorTellsScreen` with a reset at any cycle | the same |
| `vm` | `ImplementsStackVM`, `JumpsResolveOnce` | words of 16 bits; 16 pairs of operands for all arithmetic, copies from every segment into every segment, recursion, calls without arguments, three files with colliding names, every refused command |
| `jack` | `TypeOK`, `SlotsSound`, `LayoutAgrees`, `LabelsOnce`, `RefusesIllFormed`, `PrintsTheText`, `FilesWhole`, `PrintsAsWritten`, `Finishes` | words of 8 bits, a heap of 40 words; 1965 texts: five programs that run, the ill-formed ones, and every text one token away from a class with all rules (a token left out, doubled, swapped with the next, replaced, the rest cut off) |
| `jack_element` (violation) | `PrintsAsWritten` | one of those, and one with a call in an index |
| `tokens` | `ReadsAsWritten` | every line of up to four pieces (the delimiters of comments, a slash, a quote, a word, a number and a blank), every two lines of up to three and two, every three lines of up to two, one and one |
| `os` | `CalculatesRight`, `NumeralsSurvive`, `LineFits`, `EchoInStep`, `ReturnsTheEcho`, `DrawsItsShape`, `OneCharacterPerStroke` | words of six bits, every pair of them; texts of up to three characters; a screen of 16 by 9 pixels, four in a word, all ends of lines and rectangles on it and one pixel around it, circles of radius up to 4; frames of 2 by 2 pixels; a line of four characters from every place of the cursor |

Why the bounds are enough to mean something:

- The limits of the assembler are reached and passed: three variables fill the
  window, which the code refuses and the documentation does not, and four are one
  more than it holds; five instructions are one more than a file may have. Labels
  are declared twice, named after a predefined symbol, placed after the last
  instruction and used before their declaration.
- Thirteen words are three segments with headers and more: exact fits,
  carving, merging in both directions and failure with and without
  defragmentation all occur (TLC's coverage has no action at zero).
- Five bits leave 8 words of RAM, 4 of screen and the keyboard, so every value
  of the memory map's selector occurs; the operands include both sides of the
  sign and of the wrap.
- Seven bits are the fewest that hold Fill's labels in the ROM and an
  immediate below the sign bit. The loop's compare works on addresses, and the
  screen is walked to its last word.
- Four pieces hold a comment that opens, ends and opens again, a delimiter in a
  string, a comment in a comment; the flag carried between lines needs two lines,
  and that it is still right after a line that changes nothing needs a third.
- Six bits include the numbers whose square or double wraps more than once, and
  numerals of every length of the sign and two digits; three characters are
  one digit more than a word holds.
- Words of four pixels make lines that lie in a word, at its edges, in two words
  and with whole words between; the row of pixels below the last frame is there
  as in the source (256 is not a multiple of 11). A line of four characters on
  rows of eight is full before the last column from some places and not from
  others.
- The operands of the VM run are small ones, the largest and the smallest
  words; each comparison occurs with a difference that wraps and with one that
  does not.

- The Jack programs nest what the code generator puts together from parts: an
  `if` in a `while` with a `while` in it, a loop that is not entered, calls as
  arguments and as operands, elements on both sides of a `let`, a string, names
  that hide others, statics of two classes. Each way to be refused has a program,
  in the second class, so that the state of the first is there.

The symbols are distinguished by name in the inputs, and no symmetry is used.

### Fairness

- Assembler: weak fairness of `Next`, the passes are a loop of the process.
  `Terminates` rests on it: `AssemblerSpec` says what the result may be, and
  `Terminates` that there is one.
- Computer and Fill: `[]<><<Clock>>_vars`, the clock ticks forever (written so
  because `Clock` is always enabled, and `WF` of it would only make TLC
  evaluate the same action twice). Pressing and releasing keys is not fair:
  `FollowsKeyboard` speaks of a key that stays down or stays up.
- Heap: weak fairness of `Running`, a call that has begun goes on; nothing
  makes a client call.
- VM, tokenizer, OS: safety only. `readLine` waits for the user for ever.
- Jack: weak fairness of `JackNext`, compiler and machine are sequential
  programs. `Finishes` is about code that ends, as the source does.

Deadlock is not checked for the assembler, the VM, the tokenizer and Jack (the
process ends), the OS (a behaviour is one call), nor
for the heap cut at the stale step or bounded by `MaxLive`; it is checked for
the computer and Fill.

## 4. What the runs found

1. `defrag` corrupts the free list: after `i` was joined into `j`, the next
   join of a `j` into `i` unlinks through the `prev_j` of before
   (`OS/Memory.jack:163`; run `heap_defrag`, after eight calls). Until that step
   everything in `heap` holds.
2. `Memory.init` counts on a cleared RAM (`OS/Memory.jack:24`; run
   `heap_restart`): after a reset the free list still goes through the old
   segments.
3. Fill believes the screen white after a reset (`Fill.asm:16` and `:46`; run
   `fill_reset`).
4. `let a[i] = x` loses `x` when the index calls a subroutine with a `do` (or an
   element's assignment) in it: both use temp 0 (`jack/grammar.cpp:447`; run
   `jack_element`).

Three more departures from a comment of the source, which are proved for every size
and input instead of shown by a run:

5. A file with exactly as many variables as there are addresses in `[start,end)`
   (`asm/builder.h:52`) is refused: the limit is tested after the increment
   (`asm/builder.cpp:138`; theorem `FullWindowRefused`). In all else the assembler keeps
   its promise (`AssemblesAsDocumented`).
6. A slanted or vertical line is drawn without its second end, against "from pixel
   (x1,y1) to pixel (x2,y2)" at `OS/Screen.jack:80`: the loop ends when it gets there
   (`OS/Screen.jack:104`; theorem `LineIsStaircase`).
7. `clearScreen` erases nothing, against "Erases the entire screen" at
   `OS/Screen.jack:48`: it updates each word with an empty mask (`OS/Screen.jack:53`;
   theorem `ClearScreenErasesNothing`).

### Known limits

Met while modelling; no run states them as violations, because they are outside
what the properties ask, and each is the model's behaviour as it is the code's.

VM translator: `push constant` takes numbers above 2^15 - 1, which the assembler
then refuses; a `goto` or `call` of a name declared nowhere is no error, and jumps to
the variable the assembler makes of it; `gt` and `lt` are wrong for operands further
apart than a word can tell.

Tokenizer: a block comment joins the words on its two sides; `//`, `/*` and `*/`
are cut out of string constants too (the comment at `jack/tokenizer.cpp:192`
says that anything could be inside one); a second block on a line is not seen; a
`*/` in front of the `/*` of its line is undefined (`jack/tokenizer.cpp:177`).

Parser and code: what follows the class's last brace is never read; an `else`
without statements is not printed by `toXML`; a character above 127 in a string is
pushed as a negative number (`jack/grammar.cpp:276`).

Math and String: `max` and `min` compare by a difference that may wrap;
`intValue` notices an overflow only by its sign, so that a numeral one turn too
large is read as a small number; the smallest number can be written but not read
(error 10).

Screen: `drawRectangle` and `drawCircle` do not look whether they are on the screen.

Output and Keyboard: printing leaves the colour black; the square printed in the
last column moves the cursor to the next row, from where the backspace does not
return, and the echo is out of step from then on (hence the condition of
`EchoInStep`); a backspace on an empty line halts with error 8.

## 5. What is proved

**The assembler** (`HackAssembler_proofs`), for every set of symbols, every set
of inputs and every size of ROM and variable window:

- `TypeCorrect`: `Spec => []TypeOK`.
- `LabelsCorrect`: `Spec => []LabelsBound`.
- `VariablesCorrect`: `Spec => []VariablesApart`.
- `BindingsCorrect`: the action property `BindingsStable`.
- `AssemblesOrRefuses`: `Spec => KeepsPromise`. The first file is assembled
  into `Code`, or refused: when it is not `Acceptable`, by the documented window, or
  when it fills that window.
- `AssemblesAsDocumented`: `Spec => ImplementsPromise`, if no first file fills the
  window. `FullWindowRefused`: a file that does is never assembled. So this is the one
  way in which the promise is broken.

Assumptions: `InputsAssumption`, `AddressAssumption` (an address a symbol is
replaced by fits in an A-instruction; the code's addresses end at 24576, the
largest value is 32767) and those of `AsmProgram` on its constants (bounds are
naturals, predefined symbols are symbols), which TLC evaluates in `asm`.

The argument. `TypeOK` is inductive; its subtle part is that the counters are
below their limits while reading, and pass them only in the step that throws.
`LabelsBound` is not inductive by itself: that the table holds the ROM address
needs the counter to be the number of instructions read so far, and the first
pass to happen in the first file only. `FirstPassOnce` says both, and the
invariant proved is `TypeOK /\ FirstPassOnce /\ LabelsBound`. The address a
label is bound to needs two lemmas on the count of instructions before a line
(it grows by one past an instruction and not at all past another line).
`VariablesApart` needs that a new variable's address, the counter, is above
every address given before, and that what the first pass binds are labels of
the first file, which are not among the allocated names. `BindingsStable`
follows because after the first pass the table only grows, by symbols it does
not hold.

`AssemblesOrRefuses` needs to know what each pass has made of the first file so
far, which `CodeInv` says: `BindingInv` that the first pass copied the valid
instructions it has passed and bound the labels among them; `ReplacingInv` that the
table is the predefined symbols, the labels and the variables seen, a variable
bound to the first free address at its first use, and each line read is
replaced by `Resolve`; `EncodingInv` that the output is the code of the lines
encoded; `ResultInv` which result there is. `Code` places an instruction by the
number of those before it: `CodeSteps` says what one line adds to it. Each failing step is shown to be one on a file
that is not `Acceptable` or fills the window (`Refusable`): a malformed line, one
instruction more than the limit, a variable at the last address of the window or
beyond it.

**The computer** (`HackComputer_proofs`), for every word size from 4 to 16,
every program, keyboard and reset:

- `TypeCorrect`: `Spec => []TypeOK` (`HackComputer`).
- `ComputerImplementsMachine`: every behaviour of the gates is one of
  `HackISA`, with buses for words, the ALU for the computation and the address
  decoding for the locations. One cycle is a `Step` or a `Key`: the step is
  split by the kind of the instruction; the encoding lemmas say which bits a
  mnemonic becomes, the jump lemma that the decoded condition is the one
  named, and the memory lemma that `Memory.hdl` reads and writes one location.

- `ALUComputes`: for all operands, the ALU on the bits of a mnemonic returns what
  the mnemonic spells on two's complement numbers, all 28 of them.
- `ComputerImplementsISA`: `Spec => ImplementsISA`, the machine on numbers.

Assumptions: `WordSizeAssumption` and `ProgramsAssumption` (a program's
A-instructions hold numbers below `MAX_VALUE`, which `isValid` sees to).

The argument of the second half. `Number` and the two chains, the carry of `Add16`
and the flips of `Inc16`, are functions defined by recursion on the bits;
`NumberSteps`, `CarrySteps` and `FlipIs` say that they exist and what a bit adds.
By induction up to the size of a word, the low bits of the inputs of `Add16` are
those of its output and the carry (`ValueAdd`); the same for `Inc16` and `Not16`.
Without its multiplexers the ALU is four choices (`ALUSelects`), so each row is a sum,
a conjunction or its complement, and most of the arithmetic is that a complement
takes a number from `Size - 1` (`Sums`). The number of a location decides, by its
two high bits, whether it is in the RAM or in the screen, and locations and
their numbers correspond one to one (`LocationNumber`, `LocationsCover`), so that
a store changes one number (`MemoryMaps`).

**Fill** (`HackComputer_proofs`), for every word size from 7 to 16 and every keyboard:

- `FillStoresInPlace`: `Spec => []StoresInPlace`, with resets at any cycle.
- `FillColorTellsScreen`: `Spec => []ColorTellsScreen`, when there is no reset
  (`Resets = {FALSE}`; with resets it is false, run `fill_reset`).

Assumption: `FillAssumption` (the ROM holds `Assembled`, the symbols `SCREEN` and
`KBD` are where `Memory.hdl` puts them, the three variables lie below the screen).
Seven bits are the fewest that hold the labels and the address of the keyboard.

The argument has three parts. From the text, line by line, follow the ROM
address of each line (`RomAddresses`, by induction along the text), the address of
each symbol (`Addresses`) and so the 49 instructions (`ROM`). The lemmas on the
computer then say what a cycle does to the numbers in the registers and in
the memory, so that a cycle is a load, a store, a computation or a jump of the
program with known operands (`Cycles`). The inductive invariant `FillInv` is what
these operands need: A holds what the last A-instruction loaded (`Held`), D what it
is used for (`Computed`), and in the loop `end` is the address of the keyboard and
`i` is on the screen, before its end once the test is passed (`OnScreen`);
the property follows from what these say of A at each instruction that stores.
`i - end` wraps around unless the loop is over, which is why its sign stops the loop (`Wraps`). Without a reset
`Drawn` adds that the words before `i` have the color of the variable, and all of
them between two drawings.

**The VM translator** (`VMTranslator_proofs`), for every file or directory, with any
number of files, functions, comparisons and calls:

- `JumpsResolve`: `TranslatorSpec => []JumpsResolveOnce`. `VMMachine` takes the steps of
  `TranslatorSpec` and assembles and executes what is then written.

Assumption: `InputsAssumption` (files of lines as `parseLine` reads them). `Linked` and
`NamesApart` are premises of the property itself.

The argument. `Block(lines, declared, used)` says that the lines declare the given
names once each and no others, and use only those given: each idiom and each command
is one (`LabelBlock`, `ComparisonBlock`, `CallBlock`, `BootstrapBlock`...), and two that
declare different names make one (`BlockConcatenation`). The invariant `IInv` says of
all lines so far, those of the files joined and of the one being read, that they are
a block whose names are among those `Introduced` so far, with every function and label
read among them (`Named`). A command's block can be added because
its names are new: a comparison and a call because the counters are above every
number given before and, as one line gives at most one number, never above the
lines read (`Counted`, `Room`), so `NamesApart` speaks of them; a label because `Scoped`
says that the builder's `_function`, cleared between files, is the `Scope` of the
line, so that what was declared is the `OwnName` of an earlier line, which `Linked`
tells from this one. `NextFile` is where it would fail if the numbers were cleared with
the rest of the builder. At the end all lines are read (`ReadsAll`), so what is used and is no
location is the name of a line or a number, and was declared.

**The tokenizer** (`JackTokenizer_proofs`), for all keywords, names, numbers and symbols, and
files of any number of lines of any length:

- `TokensAsWritten`: `Spec => []ReadsAsWritten`. Of a plain file, `eaten \o buffer` is
  always what a reader finds glyph by glyph in the lines read so far, and the file
  is refused exactly when something in them is no token.

Assumption: `GlyphsAssumption` (slash and asterisk are symbols, no symbol is a blank or a
quote, a file is a non-empty sequence of lines, each as `IsLine` says). `Plain` is the
premise of the property itself.

The argument. `Modes` and `Tokens` are followed with tables of all their steps
(`Chained`, `Flattened`). A line in the code makes a `PlainLine`; `LineSplits` compares
what `stripComments` looks for, the first delimiter of each kind, with the modes, where
each kind appears in its turn: what is cut out is silent, code on both of its
sides, and the flag is the mode of the end (`Split`, `Kept`). Three cases: no block, a
block that the line leaves open, one that it ends; in the third a line comment may
begin on either side. `ReadLine` then runs `tokenizeLine` along the text: after each
glyph the tokens and the run that is open are those of the text up to it (`Agree`),
also across the gap, where `Plain` keeps words apart. The state needs what the property
leaves open: a text is plain only if its beginnings are (`PlainAgrees`), the modes and
tokens of a beginning stay what they are when a line is added (`ModesAgree`,
`TokenAgrees`), and the line that is added may begin in a comment (`InComment`), be all
comment (`CommentReads`) or have code behind the end of it (`EndReads`, on `CodeBehind`).

**The symbol table** (`JackSymbolTable_proofs`), for every directory of classes:

- `TableTyped`: `Spec => []TypeOK`.
- `SlotsHold`: `Spec => []SlotsSound`.
- `LayoutHolds`: `Spec => []LayoutAgrees`.

Assumption: `InputsAssumption`. `Spec` of `JackSymbolTable` allows every step
the compiler of the run takes (`Compile` takes its steps and changes the files
besides). `SlotsSound` needs the counters: each is the number of variables of
its kind, and above all their indices (`Slots`). `LayoutAgrees` needs that the
counters of the class are the numbers of declarations passed so far, except that
a function passes fields without counting them (`CountersPlaced`).

**Reading a line** (`OSProgram_proofs`), for all keys, every length of the
buffer and every size of the screen:

- `StrokesReadOnce`: the action property `OneCharacterPerStroke`.
- `LineAlwaysFits`: `Spec => []LineFits`.

Assumption: `KeyboardAssumption` (neither 0 nor the square is a key, the length
is a natural). The first needs the invariant `ReadOnce`: a key has been read
only while `readChar` waits for its release, and no key that is up has. The
second needs `LineInv`: that there is still room when the key comes up rests on
the test made before it went down, as nothing but the echo changes the buffer.

**The screen and the echo** (`OSProgram_proofs`), for every size of the screen, of its
words and of the frames, all bitmaps, messages and keys:

- `RowCovered`: `drawLineHorizontal` covers the pixels of its columns and no other.
  `RectangleCovered`: `drawRectangle`, those of its box. `CharacterPrinted`:
  `printChar` changes the frame at the cursor, to the bitmap, and no other frame.
- `EchoFollows`: `Spec => [](LineInv /\ CallInv /\ EchoInv)`, and from it
  `EchoShowsTheLine` (`EchoInStep`) and `ReturnsWhatIsShown` (`ReturnsTheEcho`).

Assumptions: `ScreenAssumption` (the words fill a row), `OutputAssumption` (the frames
fill the width and there is a row of them, bitmaps lie in a frame, the special
characters are distinct), `KeyboardAssumption`, `MessagesAssumption`. The echo is
claimed as long as the square has not been in the last column, as in the properties.

The argument. A pixel of a row is a quotient and a remainder by the size of a word;
`WordOrder` says that their lexicographic order is the order of the columns, and the
masks of the first word, the whole words and the last word are an interval of it
(`WordsBetween`). Frames share no pixel because quotient and remainder are unique
(`SpotApart`). `EchoInStep` is not inductive: it says nothing of the screen between two
keys, where the frames behind the line must already be empty but the one at the
cursor need not, nor after the newline. `EchoInv` has a part for each, and three
lemmas for the echo of a key: enter, backspace, a character. That the line is not
longer than the buffer (`LineInv`) is needed where a full line gets its newline.

**The arithmetic** (`OSProgram_proofs`), for every size of a word
from 4 to 16 bits and all numbers:

- `ArithmeticIsRight`: `Spec => []CalculatesRight`.

Assumption: `WordSizeAssumption`. The lemmas have one operation each: `AbsIs`,
`Multiplies`, `DividesSigned`, `Remains`, `Roots`, `Chooses` (`max`, `min`). Two
integers are `Same` when they make the same word; sums and products keep that
(`SameArithmetic`), and a comparison is right when the difference fits a word
(`LessIs`). The loop of `multiply` has added the low bits of the smaller magnitude
(`TurnAdds`); it compares rightly because that magnitude is never above the one it
adds up to, the smallest number included. The recursion of `_dividePos` ends at a
divisor above the dividend or below zero; that it returns the quotient goes from the
greatest divisor to the smallest (`RefinedIs`, `Divides`). In `sqrt`, the root above a
bit is too small by less than that bit's double (`RootAbove`), and the square of half
a word fits a word, if not a positive one.

**The numerals** (`OSProgram_proofs`), for every size of a word from 5
to 16 bits, all numbers and texts of any characters and any length:

- `NumeralsAreRight`: `10 < MINIMUM` implies `Spec => []NumeralsSurvive`.

Assumptions: `WordSizeAssumption`, `BoundsAssumption` (a text has a length), and that
ten is a positive number of a word, as it is in sixteen bits: with four bits the
constant 10 of `setInt` and `intValue` would be -6. The function `Digits` recurs on
a tenth of its argument, of either sign (`DividesByTen`), and is shown to be
defined by tables that are right up to a magnitude (`DigitsUnfold`). By induction over
the magnitude its digits make the number and begin with none that is zero
(`DigitsAreNumerals`, with `ValueAppend`). The loop of `intValue` is followed from the
left: after k digits it has the number they make while that is below `MINIMUM`, since
a beginning never makes more than the whole, and it finds the overflow in the turn
that makes `MINIMUM` itself, the smallest number's magnitude (`LoopReads`). Beyond that
nothing is claimed: a number that wraps to a positive word again is not noticed (§4).

**Drawing** (`OSProgram_proofs`), for every size of the screen and its words:

- `ShapesAreDrawn`: the action property `DrawsItsShape`. It says what the code keeps: the
  second end of a line that is not horizontal may be missing, and `clearScreen` need not
  put out any pixel. `ClearScreenErasesNothing`: it puts out none.
- `CircleCovered`: `drawCircle` covers the points not further from its middle than its
  radius, and no other. `LineIsStaircase`: the points of a slanted line and its second end
  are the staircase, and that end is not among the points.

Assumptions: `ScreenAssumption` and `BoundsAssumption` (the square of a radius fits a
word, the `r<=181` of the comment). Half the width of a circle is a root, exact by
`Roots`. The loop of a line is known after `i` columns and `j` rows: `diff` is
`dy * i - dx * j`, at least `-dx` and less than `dy`, so it never goes past the column
or the row of its end (`TurnSteps`), and it is there after `dx + dy` turns.

**The heap** (`OSHeap_proofs`), for every place and length of the
heap, all sets of sizes and every number of blocks, up to the first stale unlink
(`SpecUntilStale`: the run `heap_defrag` shows that it holds no longer):

- `HeapPartitioned`: `SpecUntilStale => []HeapInv`, the inductive invariant, and from
  it `TypesHold` (`TypeOK`).
- `FreeListIsSound`: `FreeListSound`. `DefragJoinsAll`: `DefragMerges`.
- `LiveStaysIntact`: the action property `LiveIntact`. `AllocFailsOnlyWhenFull`:
  `FailsOnlyWhenFull`.
- `ImplementsHeapSpec`: every step is one of `HeapSpec` or changes nothing a client
  sees; `PromiseKeepsApart`: the blocks of `HeapSpec` share no word.

Assumption: `HeapAssumption` (the heap begins above 0 and has at least the two words
of a header, sizes are naturals).

The argument. `FreeListSound` speaks of the idle heap and reads the list by a
recursive function, so it is far from inductive. `HeapInv` says, in every step of
every loop, that there is a set of free segments such that they and the live blocks
partition the words of the heap (`Partition`: each header has words of its own, each
word has a header), and a rank of each segment that the links increase (`Linked`):
the list has no cycle whatever the order of the addresses. A part for each loop says
what its locals are: `SearchInv` that `i` follows `prev_i` and all before it was too
short, `OuterInv` that every segment before `i` has been merged, `InnerInv` which
segments are left for `j`, and that `prev_j` is stale only when `i` has grown.
A step splits a segment, unlinks one, appends one, or joins two; each of these has a
lemma on partitions and one on links, and each action a lemma (`...Keeps`) that
combines them. That the list, followed for as many steps as the heap has words,
reaches `NULL` and passes every free segment (`ListWhole`) is an induction along the
list (`UpTo`, over sets of numbers) and a count of the ranks passed. `FailsOnlyWhenFull`
needs that two free segments never touch when `alloc` gives up: it gives up only
after a `defrag`, or when no block was freed since the last one (`MergedInv`).

### Only model-checked

The parser against `JackSyntax` (`RefusesIllFormed`), `PrintsTheText`,
`PrintsAsWritten`, `FilesWhole`, `LabelsOnce` and the meaning of the code. These speak
of trees, which are read by recursive operators and would need an induction over
them.

Liveness (`Terminates`, `CallsReturn`, `FollowsKeyboard`, `Finishes`) and deadlock, which
the prover does not do. The
refinement of `StackVM`, which reads frames
by a recursive operator, out of the prover's reach, and so are the code generator
of `JackCompiler` and `JackLanguage`.

## 6. Not modelled, and the plan

1. **Sys and OSUtils after a reset**: `calledInit` and `twoToThe` survive a reset
   while the heap is made anew; the order of `Sys.init`.
2. **The OS on the compiler**: `OSMath` as trees compiled by `JackCompiler`, in
   place of the stand-ins of `MCLibrary`.
3. **The RAM's tree of chips**, refined to the one function used here.
4. **`readInt` and `dispose`**: the first is `readLine` and then `intValue`, and
   halts on an empty line; the second gives blocks back to `OSHeap`.

Left out for good: the layout of `toXML` and of the files, functions on paths and
directories (they keep no state), the bitmaps of the characters, `rewind` (no
caller), `Sys.wait` (a busy loop without state), `intToBin`, the demonstration
programs, and the third-party nand2tetris tools. A program of the wrong form that
the C++ code reads past the end of a vector for (a VM command with a missing word)
has no meaning to model.
