----------------------------- MODULE StatementLoop -----------------------------
(* The calls of package googlesql that read statements: ParseNextStatement,  *)
(* ParseNextScriptStatement and AnalyzeNextStatement on one shared           *)
(* ParseResumeLocation.  A text is a sequence of statements; what the C++    *)
(* parser and analyzer do with one is its kind and its fault.                *)
EXTENDS Integers, Sequences, AstSchema

CONSTANTS
  Kinds,         \* kinds of the statements, as newNode knows them
  ScriptKinds,   \* those that only a script may contain
  MaxStatements, \* bound on the text
  MaxCalls,      \* bound on the calls of a client that does not stop
  None

Calls      == {"parse", "script", "analyze"}
Faults     == {"none", "syntax", "analysis"}
Statements == [kind : Kinds, fault : Faults]
Errors     == {"none", "status", "ErrParseStatement", "ErrRequiredCatalog"}
Answers    == [node : Int \cup {None}, isEnd : BOOLEAN, err : Errors]

ASSUME KindsAssumption ==
  /\ Kinds \subseteq DOMAIN AstNewNodeOf /\ ScriptKinds \subseteq Kinds
  /\ MaxStatements \in Nat /\ MaxCalls \in Nat
  /\ None \notin Int /\ None \notin Answers

VARIABLES
  input,     \* the statements of the text
  careful,   \* whether the client ends its loop as the comments demand
  uses,      \* the calls it makes in its loop
  pos,       \* ParseResumeLocation: the next statement
  last,      \* the last answer: [node, isEnd, err], or None
  delivered, \* the statements the client was given, in order
  reported,  \* the positions a call answered with an error at
  calls      \* the calls of a client that is not careful

vars == <<input, careful, uses, pos, last, delivered, reported, calls>>

Answer(node, isEnd, err) == [node |-> node, isEnd |-> isEnd, err |-> err]

\* A loop goes on while there is neither an error nor the end of the text.
MayGoOn == last # None => last.err = "none" /\ ~last.isEnd

Init ==
  /\ input \in UNION {[1..n -> Statements] : n \in 0..MaxStatements}
  /\ careful \in BOOLEAN /\ uses \in {{"parse"}, {"script"}, {"analyze"}, Calls}
  /\ pos = 1 /\ last = None /\ delivered = <<>> /\ reported = {}
  /\ calls = 0
-----------------------------------------------------------------------------
\* The C++ parser accepts the statement at i.
Parses(i, scripting) ==
  /\ i \in DOMAIN input /\ input[i].fault # "syntax"
  /\ input[i].kind \in ScriptKinds => scripting

\* newNode(stmt).(ast.StatementNode): not for the kinds newNode leaves out.
Wrapped(i) == AstNewNodeOf[input[i].kind] # NilNode

\* What a call with answer a at the location leaves behind.
Deliver(a) ==
  /\ last' = a
  /\ delivered' = IF a.node = None THEN delivered ELSE Append(delivered, a.node)
  /\ reported' = IF a.err = "none" THEN reported ELSE reported \cup {pos}
  /\ calls' = IF careful THEN calls ELSE calls + 1
  /\ UNCHANGED <<input, careful, uses>>

Calling(call) == call \in uses /\ IF careful THEN MayGoOn ELSE calls < MaxCalls

\* Mutant: the location is passed by value.
ParseNextStays(scripting) ==
  /\ Calling(IF scripting THEN "script" ELSE "parse")
  /\ UNCHANGED pos
  /\ \/ Parses(pos, scripting) /\ Wrapped(pos) /\ Deliver(Answer(pos, pos = Len(input), "none"))
     \/ ~Parses(pos, scripting) /\ Deliver(Answer(None, FALSE, "status"))

\* Mutant: the end is told with the last but one.
ParseNextEndsEarly(scripting) ==
  /\ Calling(IF scripting THEN "script" ELSE "parse")
  /\ \/ /\ Parses(pos, scripting) /\ Wrapped(pos)
        /\ pos' = pos + 1
        /\ Deliver(Answer(pos, pos + 1 >= Len(input), "none"))
     \/ /\ ~Parses(pos, scripting)
        /\ UNCHANGED pos
        /\ Deliver(Answer(None, FALSE, "status"))

\* Mutant: the status is not looked at.
ParseNextDropsStatus(scripting) ==
  /\ Calling(IF scripting THEN "script" ELSE "parse")
  /\ \/ /\ Parses(pos, scripting) /\ Wrapped(pos)
        /\ pos' = pos + 1
        /\ Deliver(Answer(pos, pos = Len(input), "none"))
     \/ /\ ~Parses(pos, scripting)
        /\ UNCHANGED pos
        /\ Deliver(Answer(None, FALSE, "none"))

\* ParseNextStatement and ParseNextScriptStatement.  C++ may have set isEnd
\* before it answered with an error.
ParseNext(scripting) ==
  /\ Calling(IF scripting THEN "script" ELSE "parse")
  /\ \/ /\ Parses(pos, scripting)
        /\ pos' = pos + 1
        /\ Deliver(IF Wrapped(pos) THEN Answer(pos, pos = Len(input), "none")
                   ELSE Answer(None, pos = Len(input), "ErrParseStatement"))
     \/ /\ ~Parses(pos, scripting)
        /\ UNCHANGED pos
        /\ \E isEnd \in BOOLEAN : Deliver(Answer(None, isEnd, "status"))

\* Mutant: the status of the analysis is not looked at.
AnalyzeNextDropsStatus ==
  /\ Calling("analyze")
  /\ pos \in DOMAIN input
  /\ pos' = pos + 1
  /\ Deliver(Answer(IF input[pos].fault = "none" THEN pos ELSE None, pos = Len(input), "none"))

\* AnalyzeNextStatement with a catalog, or without one.  A statement that
\* parses and cannot be analyzed may have moved the location.
AnalyzeNext ==
  /\ Calling("analyze")
  /\ \/ Deliver(Answer(None, FALSE, "ErrRequiredCatalog")) /\ UNCHANGED pos
     \/ /\ Parses(pos, FALSE) /\ input[pos].fault = "none"
        /\ pos' = pos + 1
        /\ Deliver(Answer(pos, pos = Len(input), "none"))
     \/ /\ ~(Parses(pos, FALSE) /\ input[pos].fault = "none")
        /\ pos' \in IF Parses(pos, FALSE) THEN {pos, pos + 1} ELSE {pos}
        /\ Deliver(Answer(None, FALSE, "status"))

Next == (\E scripting \in BOOLEAN : ParseNext(scripting)) \/ AnalyzeNext

Spec == Init /\ [][Next]_vars

\* The program goes on with its loop.
FairSpec == Spec /\ WF_vars(Next)
-----------------------------------------------------------------------------
(* Properties *)

TypeOK ==
  /\ input \in Seq(Statements) /\ careful \in BOOLEAN /\ uses \subseteq Calls
  /\ pos \in 1 .. Len(input) + 1
  /\ last = None \/ (last \in Answers /\ (last.node = None <=> last.err # "none"))
  /\ delivered \in Seq(1 .. Len(input)) /\ reported \subseteq 1 .. Len(input) + 1
  /\ calls \in 0 .. MaxCalls

\* Whatever calls are mixed on one location, a statement the location has
\* passed was given to the client or answered with an error: none is lost.
NothingLost == \A i \in 1 .. pos - 1 : i \in reported \/ \E j \in DOMAIN delivered : delivered[j] = i

\* No statement is given twice, and they come in the order of the text.
NothingTwice ==
  \A i, j \in DOMAIN delivered :
    /\ delivered[i] < pos
    /\ i < j => delivered[i] < delivered[j]

\* A loop that stops without an error has seen every statement.
StopMeansAll ==
  careful /\ ~MayGoOn /\ last.err = "none" => delivered = [i \in 1 .. Len(input) |-> i]

\* A loop that looks at both the error and the end comes to its end, whatever
\* the text; one that ignores errors asks for the same statement for ever.
CarefulLoopEnds == careful => <>~MayGoOn
=============================================================================
