---------------------------- MODULE SehDispatch ----------------------------
(***************************************************************************)
(* Exception dispatch of w2kshim64.dll (w2kseh64.py): the vectored handler *)
(* walks the registration frames at gs:[0], _except_handler3 walks the     *)
(* scope table of a frame, and the translated program goes on in a handler *)
(* with the registers that _except_handler3 puts into its context.         *)
(*                                                                         *)
(* One thread.  An activation stands for its stack frame; a function that  *)
(* has a scope table registers its frame in its prologue, so a frame is    *)
(* known by the depth of its activation and 0 ends the chain.  Scope       *)
(* tables are words of memory, read as the code reads them.                *)
(***************************************************************************)
EXTENDS Integers, Sequences, FiniteSets

CONSTANTS
  Func,
  Code,       \* Code[f]: addresses of the instructions of f
  Entry,      \* Entry[f]: the first of them
  LevelAt,    \* LevelAt[a]: try level the program has at address a
  Table,      \* Table[f]: first word of its scope table, or None
  Word,       \* the words of memory from 1 on
  Scopes,     \* Scopes[f]: number of records in its table
  Filters,    \* addresses that are filters
  Foreign,    \* functions whose frame is not one of the translated image
  Epilogue,   \* Epilogue[f]: how f takes its frame out, see Leave
  SavedAt,    \* SavedAt[f]: displacement from rbp where f saves RSP
  Low,        \* 0x10000: smaller values are not addresses
  MaxWalk,    \* 64: frames the vectored handler looks at
  Answers,    \* what filters answer
  None,
  MaxDepth,   \* bound on the stack
  MaxFaults   \* bound on the number of faults

ASSUME ConstAssumption ==
  /\ Low \in Nat \ {0} /\ MaxWalk \in Nat /\ MaxDepth \in Nat \ {0} /\ MaxFaults \in Nat
  /\ Code \in [Func -> SUBSET {a \in Nat : a >= Low}]
  /\ \A f \in Func : Entry[f] \in Code[f]
  /\ \A f \in Func : \A a \in Code[f] : LevelAt[a] \in Nat \union {-1}
  /\ Word \in Seq(Nat)
  /\ Table \in [Func -> (DOMAIN Word) \union {None}]
  /\ Filters \subseteq Nat /\ Foreign \subseteq Func
  /\ Scopes \in [Func -> Nat]
  /\ Epilogue \in [Func -> SUBSET {"own", "head"}]
  /\ SavedAt \in [Func -> Int]
  /\ Answers \subseteq Int
  /\ None \notin Nat

(* The translated displacement of [ebp+disp]: below the record, which has  *)
(* 32 bytes instead of 16, when the translation has seen the record.       *)
SehRbpLocalDisp(disp, seen) ==
  IF ~seen \/ disp > -4 THEN disp ELSE IF disp = -4 THEN -8 ELSE disp - 16

(* The words of a table the translator makes for a function whose own is   *)
(* not usable: sentinel, a record for the whole body, a record of zeros.   *)
SynthesizedTable(sentinel, begin, end) ==
  <<sentinel, begin, end, 0, 0, 0, 0, 0, 0>>

VARIABLES
  stack,      \* activations: function, address, try level, chain at entry
  chain,      \* gs:[0]
  onStack,    \* RSP points into the stack, below the frame in use
  mode,       \* "run", a place in the dispatch, or how the process ended
  frame,      \* r14, rdx: the frame the search is at
  count,      \* r13: frames seen
  scope,      \* r12: the scope the search is at
  faults,     \* number of faults
  asked,      \* history: the filters called in this dispatch
  spent       \* history: depths whose frame has handled an exception

searchRegs == <<frame, count, scope>>
vars == <<stack, chain, onStack, mode, searchRegs, faults, asked, spent>>

Top == Len(stack)
Registers(f) == Table[f] # None
Current == stack[Top]

(***************************************************************************)
(* The translated program.                                                 *)
(***************************************************************************)
Activation(f, a) == [fn |-> f, at |-> a, level |-> LevelAt[a], next |-> chain]

Init ==
  /\ chain = 0 /\ onStack = TRUE /\ mode = "run"
  /\ \E f \in Func : ~Registers(f) /\ stack = <<Activation(f, Entry[f])>>
  /\ frame = 0 /\ count = 0 /\ scope = 0 /\ faults = 0 /\ asked = <<>> /\ spent = {}

(* An instruction that stays in the function and sets the try level.       *)
Move(a) ==
  /\ mode = "run" /\ a \in Code[Current.fn]
  /\ stack' = [stack EXCEPT ![Top].at = a, ![Top].level = LevelAt[a]]
  /\ UNCHANGED <<chain, onStack, mode, searchRegs, faults, asked, spent>>

(* A call pushes a return address: through a wild RSP the process ends.    *)
Call(f) ==
  /\ mode = "run" /\ Top < MaxDepth
  /\ IF onStack
       THEN /\ stack' = Append(stack, Activation(f, Entry[f]))
            /\ chain' = IF Registers(f) THEN Top + 1 ELSE chain
            /\ UNCHANGED mode
       ELSE mode' = "wild" /\ UNCHANGED <<stack, chain>>
  /\ UNCHANGED <<onStack, searchRegs, faults, asked, spent>>

(* An epilogue "pop rdi; pop rsi; pop rbx; mov rsp, rbp; pop rbp; ret" gets *)
(* the injected restore, which takes out the frame that gs:[0] points to.  *)
(* It gets it also where the function stores the chain of its own frame    *)
(* before: the test that should tell compares the place of insertion with  *)
(* the restore, and finds the pops there (_seh.py:602).                    *)
Unlink(f) ==
  LET own == IF "own" \in Epilogue[f] THEN Current.next ELSE chain
  IN  IF "head" \in Epilogue[f] /\ own # 0 THEN stack[own].next ELSE own

(* leave takes RSP from rbp, whatever it was.                              *)
Leave ==
  /\ mode = "run" /\ Top > 1
  /\ chain' = IF Registers(Current.fn) THEN Unlink(Current.fn) ELSE chain
  /\ stack' = SubSeq(stack, 1, Top - 1)
  /\ onStack' = TRUE
  /\ spent' = spent \ {Top}
  /\ UNCHANGED <<mode, searchRegs, faults, asked>>

(* The processor raises an exception, and the system calls the vectored    *)
(* handler on the stack that RSP points to.                                *)
Fault ==
  /\ mode = "run" /\ faults < MaxFaults
  /\ faults' = faults + 1
  /\ IF onStack
       THEN mode' = "chain" /\ frame' = chain /\ count' = 0 /\ scope' = 0 /\ asked' = <<>>
       ELSE mode' = "wild" /\ UNCHANGED <<searchRegs, asked>>
  /\ UNCHANGED <<stack, chain, onStack, spent>>

(***************************************************************************)
(* The vectored handler.                                                   *)
(***************************************************************************)
program == <<stack, chain, onStack, faults, spent>>

GiveUp ==
  /\ mode = "chain"
  /\ count + 1 > MaxWalk \/ frame = 0
  /\ mode' = "search" /\ count' = count + 1
  /\ UNCHANGED <<program, frame, scope, asked>>

Visit ==
  /\ mode = "chain"
  /\ count + 1 <= MaxWalk /\ frame # 0
  /\ count' = count + 1
  /\ IF stack[frame].fn \in Foreign
       THEN frame' = stack[frame].next /\ UNCHANGED <<mode, scope>>
       ELSE /\ mode' = "scope"
            /\ scope' = IF stack[frame].level < 0 THEN 0 ELSE stack[frame].level
            /\ UNCHANGED frame
  /\ UNCHANGED <<program, asked>>

(* NtTerminateProcess on the own process, with the exception code.         *)
Terminate ==
  /\ mode = "search"
  /\ mode' = "terminated"
  /\ UNCHANGED <<program, searchRegs, asked>>

(***************************************************************************)
(* _except_handler3 for one frame.                                         *)
(***************************************************************************)
Dword(k) == IF k \in DOMAIN Word THEN Word[k] ELSE 0
Record(d, i) ==
  LET base == Table[stack[d].fn] + 1 + 4 * i
  IN  [begin |-> Dword(base), end |-> Dword(base + 1),
       filter |-> Dword(base + 2), handler |-> Dword(base + 3)]

Covers(d, i) ==
  Record(d, i).begin <= Current.at /\ Current.at < Record(d, i).end

Target(d, i) ==
  IF Record(d, i).handler < Low THEN Record(d, i).end ELSE Record(d, i).handler

(* Mutant: gs:[0] keeps the frame of the handler and those cut off.        *)
ExecuteKeepsChain(d, i) ==
  /\ stack' = [SubSeq(stack, 1, d) EXCEPT ![d].at = Target(d, i), ![d].level = i - 1]
  /\ onStack' = (SavedAt[Current.fn] = -24)
  /\ spent' = {e \in spent : e < d} \union {d}
  /\ mode' = "run"
  /\ UNCHANGED <<chain, searchRegs, faults>>

(* execute_handler: the context gets the address of the handler, the frame *)
(* of d, and as RSP what lies at rbp - 0x18 of the activation that faulted. *)
Execute(d, i) ==
  /\ stack' = [SubSeq(stack, 1, d) EXCEPT ![d].at = Target(d, i), ![d].level = i - 1]
  /\ chain' = stack[d].next
  /\ onStack' = (SavedAt[Current.fn] = -24)
  /\ spent' = {e \in spent : e < d} \union {d}
  /\ mode' = "run"
  /\ UNCHANGED <<searchRegs, faults>>

(* Mutant: the search never gets past a scope that does not cover.         *)
PassOverStuck ==
  /\ mode = "scope" /\ scope >= 0 /\ ~Covers(frame, scope)
  /\ UNCHANGED <<program, mode, searchRegs, asked>>

PassOver ==
  /\ mode = "scope" /\ scope >= 0 /\ ~Covers(frame, scope)
  /\ scope' = scope - 1
  /\ UNCHANGED <<program, mode, frame, count, asked>>

NoFilter ==
  /\ mode = "scope" /\ scope >= 0 /\ Covers(frame, scope)
  /\ Record(frame, scope).filter < Low
  /\ Execute(frame, scope)
  /\ UNCHANGED asked

(* A filter at an address that is none is whatever happens to be there.    *)
CallFilter ==
  /\ mode = "scope" /\ scope >= 0 /\ Covers(frame, scope)
  /\ Record(frame, scope).filter >= Low
  /\ mode' = IF Record(frame, scope).filter \in Filters THEN "filter" ELSE "wild"
  /\ UNCHANGED <<program, searchRegs, asked>>

(* Mutant: any answer but 0 is taken for EXECUTE_HANDLER.                  *)
AnswerNonzero(a) ==
  /\ mode = "filter"
  /\ asked' = Append(asked, <<frame, scope, a>>)
  /\ \/ a # 0 /\ Execute(frame, scope)
     \/ /\ a = 0
        /\ mode' = "scope" /\ scope' = scope - 1
        /\ UNCHANGED <<program, frame, count>>

(* Mutant: a filter that declines is asked again.                          *)
AnswerAgain(a) ==
  /\ mode = "filter"
  /\ asked' = Append(asked, <<frame, scope, a>>)
  /\ \/ a = 1 /\ Execute(frame, scope)
     \/ /\ a # 1 /\ Len(asked) < 3
        /\ mode' = "scope"
        /\ UNCHANGED <<program, searchRegs>>

(* A filter that returns a, which must leave r8 and r10 alone.             *)
Answer(a) ==
  /\ mode = "filter"
  /\ asked' = Append(asked, <<frame, scope, a>>)
  /\ \/ a = 1 /\ Execute(frame, scope)
     \/ /\ a # 1
        /\ mode' = "scope" /\ scope' = scope - 1
        /\ UNCHANGED <<program, frame, count>>

(* ExceptionContinueSearch.                                                *)
NextFrame ==
  /\ mode = "scope" /\ scope < 0
  /\ frame' = stack[frame].next /\ mode' = "chain"
  /\ UNCHANGED <<program, count, scope, asked>>

Program ==
  \/ \E a \in UNION {Code[f] : f \in Func} : Move(a)
  \/ \E f \in Func : Call(f)
  \/ Leave \/ Fault

Dispatch ==
  \/ GiveUp \/ Visit \/ Terminate
  \/ PassOver \/ NoFilter \/ CallFilter \/ NextFrame
  \/ \E a \in Answers : Answer(a)

Next == Program \/ Dispatch
Spec == Init /\ [][Next]_vars

(* The handlers are loops that nothing interrupts, and filters return.     *)
FairSpec == Spec /\ WF_vars(Dispatch)

(***************************************************************************)
(* Properties.                                                             *)
(***************************************************************************)
Modes == {"run", "chain", "scope", "filter", "search", "terminated", "wild"}
Searching == {"chain", "scope", "filter", "search"}

TypeOK ==
  /\ stack \in Seq([fn : Func, at : Nat, level : Int, next : Nat]) /\ Top \in 1 .. MaxDepth
  /\ chain \in 0 .. Top /\ frame \in 0 .. MaxDepth /\ onStack \in BOOLEAN
  /\ mode \in Modes /\ count \in 0 .. MaxWalk + 1 /\ scope \in Int
  /\ faults \in 0 .. MaxFaults
  /\ asked \in Seq((1 .. MaxDepth) \X Nat \X Answers)
  /\ spent \subseteq 1 .. Top

(* The frames a walk from gs:[0] finds.  One that has returned is found    *)
(* too, and the walk ends there.                                           *)
Linked ==
  LET f[d \in 0 .. MaxDepth] ==
        IF d = 0 THEN {} ELSE {d} \union (IF d <= Top THEN f[stack[d].next] ELSE {})
  IN  f[chain]

Active == {d \in 1 .. Top : Registers(stack[d].fn)} \ spent

(* gs:[0] never leads to the frame of a function that has returned, or to  *)
(* one that has handled an exception, whichever epilogues got the restore: *)
(* a function that ends, a handler and the frames it cuts off are out.     *)
ChainSound == Linked \subseteq Active

(* gs:[0] leads to every active frame.  Not so where an epilogue has both  *)
(* restores, or the injected one in a function whose frame a handler took  *)
(* out: the frame of a caller goes with it.                                *)
ChainComplete == mode # "wild" => Active \subseteq Linked

(* The scopes a search meets, inner frames and inner scopes first.         *)
Reached(d) ==
  d \in Linked /\ stack[d].fn \notin Foreign /\ Cardinality({e \in Linked : e > d}) < MaxWalk
FirstScope(d) == IF stack[d].level < 0 THEN 0 ELSE stack[d].level
Candidates ==
  {c \in UNION {{d} \X (0 .. FirstScope(d)) : d \in 1 .. Top} :
     Reached(c[1]) /\ Covers(c[1], c[2])}
Before(c, e) == c[1] > e[1] \/ (c[1] = e[1] /\ c[2] > e[2])
NotTaken(c) == \E n \in DOMAIN asked : asked[n][1] = c[1] /\ asked[n][2] = c[2] /\ asked[n][3] # 1

(* A search goes through the frames of gs:[0] and their scopes from the    *)
(* inside out and leaves none out: it enters a handler only if the scope   *)
(* has no filter or its filter has answered EXECUTE_HANDLER, and it passes *)
(* a scope, or gives up, only after the filter has answered another thing. *)
(* That one of these answers, CONTINUE_EXECUTION, should have ended it, is *)
(* ContinueEndsSearch.                                                     *)
SearchInOrder ==
  [][/\ mode \in {"scope", "filter"} /\ mode' = "run" =>
          /\ \A c \in Candidates : Before(c, <<frame, scope>>) => NotTaken(c)
          /\ \/ Record(frame, scope).filter < Low
             \/ asked' = Append(asked, <<frame, scope, 1>>)
     /\ mode = "chain" /\ mode' = "search" =>
          \A c \in Candidates : NotTaken(c)]_vars

(* No filter is asked twice about one exception.                           *)
AskedOnce ==
  \A m, n \in DOMAIN asked :
    asked[m][1] = asked[n][1] /\ asked[m][2] = asked[n][2] => m = n

(* An exception always ends in a handler or ends the process.              *)
DispatchEnds == mode \in Searching ~> mode \in {"run", "terminated", "wild"}

(* The handler of a frame runs on a stack (w2kseh64.py: VC6-compatible).   *)
HandlerHasStack == onStack

(* A filter that answers CONTINUE_EXECUTION ends the search, and the       *)
(* program goes on where it was (w2kseh64.py:307).                         *)
ContinueEndsSearch ==
  \A n \in DOMAIN asked : asked[n][3] = -1 => mode = "run"

(* A fault in a called function reaches the try block the call is in: the  *)
(* process does not end while the caller has a scope that takes anything.  *)
CallerCovers ==
  mode = "terminated" =>
    \A d \in Linked \ {Top} :
      stack[d].level >= 0 /\ stack[d].fn \notin Foreign =>
        LET r == Record(d, stack[d].level)
        IN  ~(r.begin <= stack[d].at /\ stack[d].at < r.end /\ r.filter < Low)

(* Try levels beyond the records of a table match no address.              *)
MatchInTable ==
  mode \in {"filter", "wild"} /\ onStack => scope < Scopes[stack[frame].fn]
=============================================================================
