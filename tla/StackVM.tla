------------------------------- MODULE StackVM -------------------------------
(***************************************************************************)
(* The stack machine the VM language is written for.  Each call has a      *)
(* frame of its own: its arguments, its local variables, its working       *)
(* stack, its two pointers, and the command it will execute next.  Nothing *)
(* a function does changes the frame of another, except that a call takes  *)
(* its arguments from the caller's stack and a return puts one value there.*)
(* No frame has an address.                                                *)
(***************************************************************************)
EXTENDS HackEncoding

CONSTANT Heap           \* the addresses objects and arrays may be stored at

VARIABLES
    code,               \* the commands: records [file, command]
    frames,             \* the calls in progress; the last one runs
    statics, temp, heap

vars == <<code, frames, statics, temp, heap>>

-----------------------------------------------------------------------------
Command(n) == code[n].command

\* The labels, and the entry of a function without variables, take no step.
Silent(n) ==
    \/ Command(n).op = "label"
    \/ Command(n).op = "function" /\ Command(n).nVars = 0

Rest(n) ==
    CHOOSE m \in n..Len(code) : ~Silent(m) /\ \A k \in n..(m - 1) : Silent(k)

Begins(n, f) == Command(n).op = "function" /\ Command(n).name = f
Entry(f) == CHOOSE n \in DOMAIN code : Begins(n, f)

\* The function command n belongs to.
Enclosing(n) ==
    CHOOSE m \in 1..n :
        /\ Command(m).op = "function"
        /\ \A k \in (m + 1)..n : Command(k).op # "function"

\* Labels are local to their function.
Target(n, label) ==
    CHOOSE m \in DOMAIN code :
        /\ Command(m) = [op |-> "label", label |-> label]
        /\ Enclosing(m) = Enclosing(n)

Frame(next, arguments, this, that) ==
    [next |-> Rest(next), argument |-> arguments, local |-> <<>>, stack |-> <<>>,
     this |-> this, that |-> that]

Running == frames[Len(frames)]
Now == code[Running.next]

Executes(op) == frames # <<>> /\ Now.command.op = op

\* The running frame goes on at position n, changed by f.
Continue(n, frame) ==
    frames' = [frames EXCEPT ![Len(frames)] = [frame EXCEPT !.next = Rest(n)]]

Proceed(frame) == Continue(Running.next + 1, frame)

Replace(depth, words) ==
    [Running EXCEPT !.stack = SubSeq(@, 1, Len(@) - depth) \o words]

Popped(depth) == Running.stack[Len(Running.stack) - depth + 1]

-----------------------------------------------------------------------------
Init ==
    /\ frames = <<>>
    /\ statics = [v \in DOMAIN statics |-> 0]
    /\ temp = [n \in 0..7 |-> 0]
    /\ heap = [a \in Heap |-> 0]

\* Sys.init is called first, with pointers that point nowhere.
Start ==
    /\ frames = <<>>
    /\ \E n \in DOMAIN code : Begins(n, "Sys.init")
    /\ frames' = <<Frame(Entry("Sys.init"), <<>>, Wrap(-1), Wrap(-1))>>
    /\ UNCHANGED <<statics, temp, heap>>

Value(segment, n) ==
    CASE segment = "constant" -> n
      [] segment = "local"    -> Running.local[n + 1]
      [] segment = "argument" -> Running.argument[n + 1]
      [] segment = "this"     -> heap[Running.this + n]
      [] segment = "that"     -> heap[Running.that + n]
      [] segment = "pointer"  -> IF n = 0 THEN Running.this ELSE Running.that
      [] segment = "temp"     -> temp[n]
      [] segment = "static"   -> statics[<<Now.file, n>>]

Push ==
    /\ Executes("push")
    /\ Proceed(Replace(0, <<Value(Now.command.segment, Now.command.value)>>))
    /\ UNCHANGED <<statics, temp, heap>>

Pop ==
    /\ Executes("pop")
    /\ LET s == Now.command.segment
           n == Now.command.value
           w == Popped(1)
           rest == Replace(1, <<>>)
       IN  /\ Proceed(
                CASE s = "local"    -> [rest EXCEPT !.local[n + 1] = w]
                  [] s = "argument" -> [rest EXCEPT !.argument[n + 1] = w]
                  [] s = "pointer"  -> IF n = 0 THEN [rest EXCEPT !.this = w]
                                       ELSE [rest EXCEPT !.that = w]
                  [] OTHER          -> rest)
           /\ heap' = CASE s = "this" -> [heap EXCEPT ![Running.this + n] = w]
                        [] s = "that" -> [heap EXCEPT ![Running.that + n] = w]
                        [] OTHER      -> heap
           /\ temp' = IF s = "temp" THEN [temp EXCEPT ![n] = w] ELSE temp
           /\ statics' = IF s = "static" THEN [statics EXCEPT ![<<Now.file, n>>] = w]
                         ELSE statics

Truth(b) == IF b THEN Wrap(-1) ELSE 0

Unary ==
    /\ \E op \in {"neg", "not"} :
          /\ Executes(op)
          /\ LET y == Popped(1)
             IN  Proceed(Replace(1, <<IF op = "neg" THEN Wrap(-y) ELSE Wrap(-1 - y)>>))
    /\ UNCHANGED <<statics, temp, heap>>

\* x and y are compared by the sign of their difference, a word.
Result(op, x, y) ==
    CASE op = "add" -> Wrap(x + y)
      [] op = "sub" -> Wrap(x - y)
      [] op = "and" -> And(x, y)
      [] op = "or"  -> Or(x, y)
      [] op = "eq"  -> Truth(x = y)
      [] op = "gt"  -> Truth(x # y /\ ~IsNegative(Wrap(x - y)))
      [] op = "lt"  -> Truth(IsNegative(Wrap(x - y)))

Binary ==
    /\ \E op \in {"add", "sub", "and", "or", "eq", "gt", "lt"} :
          /\ Executes(op)
          /\ Proceed(Replace(2, <<Result(op, Popped(2), Popped(1))>>))
    /\ UNCHANGED <<statics, temp, heap>>

Goto ==
    /\ Executes("goto")
    /\ Continue(Target(Running.next, Now.command.label), Running)
    /\ UNCHANGED <<statics, temp, heap>>

IfGoto ==
    /\ Executes("if-goto")
    /\ IF Popped(1) # 0
       THEN Continue(Target(Running.next, Now.command.label), Replace(1, <<>>))
       ELSE Proceed(Replace(1, <<>>))
    /\ UNCHANGED <<statics, temp, heap>>

\* A function begins with its variables at 0.
Function ==
    /\ Executes("function")
    /\ Proceed([Running EXCEPT !.local = [i \in 1..Now.command.nVars |-> 0]])
    /\ UNCHANGED <<statics, temp, heap>>

Call ==
    /\ Executes("call")
    /\ LET n == Now.command.nArgs
           size == Len(Running.stack)
           caller == [Replace(n, <<>>) EXCEPT !.next = Rest(Running.next + 1)]
           callee == Frame(Entry(Now.command.name), SubSeq(Running.stack, size - n + 1, size),
                           Running.this, Running.that)
       IN  frames' = Append([frames EXCEPT ![Len(frames)] = caller], callee)
    /\ UNCHANGED <<statics, temp, heap>>

\* What else is left on the callee's stack is gone.
Return ==
    /\ Executes("return")
    /\ Len(frames) > 1
    /\ LET depth == Len(frames) - 1
       IN  frames' = [SubSeq(frames, 1, depth) EXCEPT ![depth].stack = Append(@, Popped(1))]
    /\ UNCHANGED <<statics, temp, heap>>

Next ==
    /\ Start \/ Push \/ Pop \/ Unary \/ Binary \/ Goto \/ IfGoto \/ Function \/ Call \/ Return
    /\ UNCHANGED code

Spec == Init /\ [][Next]_vars
=============================================================================
