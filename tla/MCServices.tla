------------------------------ MODULE MCServices ------------------------------
(***************************************************************************)
(* Instances for TLC of the components beside the versions: a behaviour    *)
(* picks one component and leaves the others where they start, so that     *)
(* the components' states add and do not multiply.                         *)
(***************************************************************************)
EXTENDS ListBirth, RateLimit, WriteGate, Marks, CanonText, AuthoredFiles

VARIABLE part

-----------------------------------------------------------------------------
(* Small instances *)

MCLimit == [m \in {"light", "heavy"} |-> IF m = "light" THEN 2 ELSE 1]

\* A text of n bytes is the number n.
MCTexts == 1..3
MCSize  == [x \in MCTexts |-> x]

MCPaths == {"script", "asset", "quoted", "dotted", "legacy", "foreign"}
MCShape == [p \in MCPaths |-> p]
MCName  == [p \in MCPaths |-> 1]
Text(n) == [size |-> n, mode |-> "file", binary |-> FALSE]
MCContents == {Text(1), [Text(4) EXCEPT !.mode = "exec"],
               [Text(1) EXCEPT !.mode = "link"], [Text(1) EXCEPT !.binary = TRUE]}

-----------------------------------------------------------------------------
(* Where a component that a behaviour has not picked stays *)

GateIdle ==
    /\ trees = [c \in Commits |-> {}] /\ parents = [c \in Commits |-> {}]
    /\ main = NoCommit /\ draft = NoCommit /\ command = "none"
    /\ gate = "writable" /\ asking = <<>> /\ answered = {} /\ judged = FALSE
MarksIdle ==
    /\ rows = <<[id |-> "a", on |-> FALSE]>> /\ canon = ListJson(rows)
    /\ editor = NoEditor /\ saved = NoVersion
TextIdle ==
    /\ text = <<[type |-> "step", title |-> "named", refs |-> <<>>]>>
    /\ soft = Unread /\ strict = [read |-> FALSE, issues |-> {}]

Init ==
    /\ part \in {"birth", "rate", "gate", "marks", "text", "tree"}
    /\ BirthInit /\ RateInit /\ TreeInit
    /\ IF part = "gate" THEN GateInit ELSE GateIdle
    /\ IF part = "marks" THEN MarksInit ELSE MarksIdle
    /\ IF part = "text" THEN TextInit ELSE TextIdle

vars == <<part, birthVars, rateVars, gateVars, markVars, textVars, treeVars>>

BirthPart == /\ part = "birth" /\ BirthNext
             /\ UNCHANGED <<part, rateVars, gateVars, markVars, textVars, treeVars>>
RatePart  == /\ part = "rate" /\ RateNext
             /\ UNCHANGED <<part, birthVars, gateVars, markVars, textVars, treeVars>>
GatePart  == /\ part = "gate" /\ GateNext
             /\ UNCHANGED <<part, birthVars, rateVars, markVars, textVars, treeVars>>
MarksPart == /\ part = "marks" /\ MarksNext
             /\ UNCHANGED <<part, birthVars, rateVars, gateVars, textVars, treeVars>>
TextPart  == /\ part = "text" /\ TextNext
             /\ UNCHANGED <<part, birthVars, rateVars, gateVars, markVars, treeVars>>
TreePart  == /\ part = "tree" /\ TreeNext
             /\ UNCHANGED <<part, birthVars, rateVars, gateVars, markVars, textVars>>

Next == BirthPart \/ RatePart \/ GatePart \/ MarksPart \/ TextPart \/ TreePart

Spec == Init /\ [][Next]_vars
=============================================================================
