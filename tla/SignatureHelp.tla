---------------------------- MODULE SignatureHelp -----------------------------
(***************************************************************************)
(* Which call the cursor stands in, and at which of its parameters         *)
(* (server/providers/signature_help.go).                                   *)
(*                                                                         *)
(* The text before the cursor is the sequence of its tokens; brackets in   *)
(* strings and comments, which the code does not tell from others, are     *)
(* left out.  A ":" is that of a named argument.                           *)
(***************************************************************************)
EXTENDS Naturals, SequencesExt

CONSTANT Names   \* tokens that are identifiers; "new" is one too

None == [op |-> "none"]
Call(name) == [op |-> "call", name |-> name]
NewCall(name) == [op |-> "new", name |-> name]

Closing == {")", "]", "}"}
Brackets == {"[", "]", "{", "}"}

(* extractCallee: what stands before an opening parenthesis.               *)
ExtractCallee(before) ==
  LET n == Len(before) IN
  IF n = 0 \/ before[n] \notin Names THEN None
  ELSE IF n > 1 /\ before[n - 1] = "new" THEN NewCall(before[n])
  ELSE Call(before[n])

(* findCalleeAndParam: backwards from the cursor.                          *)
Start == [callee |-> None, depth |-> 0, commas |-> 0, namedArg |-> ""]

NameBefore(src, i) == IF i > 1 /\ src[i - 1] \in Names THEN src[i - 1] ELSE ""


ScanToken(src, scan, i) ==
  CASE scan.callee # None -> scan
    [] src[i] \in Closing -> [scan EXCEPT !.depth = @ + 1]
    [] src[i] = "(" /\ scan.depth > 0 -> [scan EXCEPT !.depth = @ - 1]
    [] src[i] = "(" /\ scan.depth = 0 -> [scan EXCEPT !.callee = ExtractCallee(SubSeq(src, 1, i - 1))]
    [] src[i] = "," /\ scan.depth = 0 -> [scan EXCEPT !.commas = @ + 1, !.namedArg = ""]
    [] src[i] = ":" /\ scan.depth = 0 /\ NameBefore(src, i) # "" ->
         [scan EXCEPT !.namedArg = NameBefore(src, i)]
    [] OTHER -> scan

(* The name of an argument is tracked, then dropped: only commas count.    *)
FindCalleeAndParam(src) ==
  LET scan == FoldLeft(LAMBDA s, i : ScanToken(src, s, i), Start, Reverse([i \in DOMAIN src |-> i]))
  IN [callee |-> scan.callee, param |-> IF scan.callee = None THEN 0 ELSE scan.commas]

(* resolveCallee: found is what Search returns, any order of the symbols;  *)
(* a constructor is known by its class's full name.                        *)
Symbol(fqn, kind) == [fqn |-> fqn, kind |-> kind]
NoSymbol == Symbol(<<>>, "none")
ShortName(s) == Last(s.fqn)
ConstructorOf(class) == Append(class.fqn, "__construct")
FirstSymbol(found, Test(_)) ==
  LET matching == SelectSeq(found, Test) IN IF matching = <<>> THEN NoSymbol ELSE Head(matching)

ResolveCallee(callee, found) ==
  LET class == FirstSymbol(found, LAMBDA s : ShortName(s) = callee.name /\ s.kind = "class")
      constructor == FirstSymbol(found, LAMBDA s : s.fqn = ConstructorOf(class))
  IN CASE callee.op = "new" /\ class = NoSymbol -> NoSymbol
       [] callee.op = "new" /\ class # NoSymbol -> IF constructor = NoSymbol THEN class ELSE constructor
       [] callee.op = "call" ->
            FirstSymbol(found, LAMBDA s : ShortName(s) = callee.name
                                          /\ s.kind \in {"method", "function", "constructor"})
       [] OTHER -> NoSymbol

(* buildSignatureHelp: of count parameters, the one marked as active.      *)
ActiveParameter(count, variadic, param) ==
  IF param >= count /\ count > 0 /\ variadic THEN count - 1 ELSE param

-----------------------------------------------------------------------------
(***************************************************************************)
(* The same, for reference, read forwards: the stack of the brackets that  *)
(* are open, each with where it opens and the commas directly in it.       *)
(***************************************************************************)
Opens == {"(", "[", "{"}
Frame(src, i) == [bracket |-> src[i], at |-> i, commas |-> 0,
                  callee |-> IF src[i] = "(" THEN ExtractCallee(SubSeq(src, 1, i - 1)) ELSE None]
Read(src, stack, i) ==
  CASE src[i] \in Opens -> Append(stack, Frame(src, i))
    [] src[i] \in Closing -> Front(stack)
    [] src[i] = "," /\ stack # <<>> -> Append(Front(stack), [Last(stack) EXCEPT !.commas = @ + 1])
    [] OTHER -> stack
OpenFrames(src) == FoldLeft(LAMBDA stack, i : Read(src, stack, i), <<>>, [i \in DOMAIN src |-> i])

(* What can stand in a file: brackets close what they match, there are     *)
(* commas in calls and in brackets only, and a colon after the name of an  *)
(* argument.                                                               *)
Matching == ")" :> "(" @@ "]" :> "[" @@ "}" :> "{"
WellFormed(src) ==
  \A i \in DOMAIN src :
    LET open == OpenFrames(SubSeq(src, 1, i - 1)) IN
    /\ src[i] \in Closing => open # <<>> /\ Last(open).bracket = Matching[src[i]]
    /\ src[i] = "," => open # <<>> /\ (Last(open).bracket = "(" => Last(open).callee # None)
    /\ src[i] = ":" => /\ open # <<>> /\ Last(open).callee # None
                       /\ src[i - 1] \in Names /\ src[i - 2] \in {"(", ","}


(* What is shown of a call is a symbol of the name, if there is one: of    *)
(* "new", the own constructor of a class of the name, never that of        *)
(* another class called the same, or the class when it has none.           *)
CalleeResolved(src, found) ==
  LET callee == FindCalleeAndParam(src).callee
      named(kinds) == {s \in ToSet(found) : ShortName(s) = callee.name /\ s.kind \in kinds}
      constructors(class) == {s \in ToSet(found) : s.fqn = ConstructorOf(class)}
      wanted == CASE callee.op = "new" ->
                       UNION {IF constructors(c) = {} THEN {c} ELSE constructors(c) : c \in named({"class"})}
                  [] callee.op = "call" -> named({"method", "function", "constructor"})
                  [] OTHER -> {}
      shown == ResolveCallee(callee, found)
  IN IF wanted = {} THEN shown = NoSymbol ELSE shown \in wanted
=============================================================================
