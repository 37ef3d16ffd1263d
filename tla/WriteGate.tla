------------------------------- MODULE WriteGate -------------------------------
(***************************************************************************)
(* What the application is asked before a push moves main: whether the     *)
(* list may be written (src/gate.rs), and, from the pre-receive hook,      *)
(* whether what the push brings may come in (check_content in src/cli.rs,  *)
(* pushed_texts in src/git/project.rs).                                    *)
(*                                                                         *)
(* A run starts from every small history: commits 1..MaxCommit, a commit's *)
(* parents before it, the push's tip the last one.  A text is the content  *)
(* of a file, so equal texts are one blob.                                 *)
(***************************************************************************)
EXTENDS Integers, Sequences, FiniteSets, SequencesExt

CONSTANTS
    MaxCommit,
    Texts,       \* a set of numbers; the order of a tree's files
    SizeOf,      \* bytes of a text with its path
    Banned,      \* texts and commands the application refuses
    MaxBytes     \* AUTHORED_MAX_BYTES: the bytes of one question

ASSUME GateAssumption ==
    /\ MaxCommit \in Nat \ {0} /\ MaxBytes \in Nat
    /\ Texts \subseteq Nat /\ SizeOf \in [Texts -> Nat]

Commits == 1..MaxCommit
NoCommit == 0

VARIABLES
    trees, parents,   \* the history: its files and parents, by commit
    main, draft,      \* refs/heads/main and another branch, NoCommit when absent
    command,          \* the command of a step at the tip: "none", "fine", "banned"
    gate,             \* where the push is
    asking,           \* questions still to ask, each [cmds, files]
    answered,         \* texts the application has let in
    judged            \* the application has let the tip's commands in

gateVars == <<trees, parents, main, draft, command, gate, asking, answered, judged>>
history == <<trees, parents, main, draft, command>>

GateInit ==
    /\ trees \in [Commits -> SUBSET Texts]
    /\ parents \in {p \in [Commits -> SUBSET Commits] : \A c \in Commits : p[c] \subseteq 1..(c - 1)}
    /\ main \in 0..(MaxCommit - 1) /\ draft \in {NoCommit, MaxCommit - 1}
    /\ command \in {"none", "banned"}
    /\ gate = "writable" /\ asking = <<>> /\ answered = {} /\ judged = FALSE

-----------------------------------------------------------------------------
Tip == MaxCommit

\* A commit and all it comes from.
Ancestry(c) ==
    LET up[d \in 0..MaxCommit] == IF d = 0 THEN {}
                                  ELSE {d} \cup UNION {up[e] : e \in parents[d]}
    IN up[c]

\* rev-list <tip> --not refs/heads/main
NewCommits_AllRefs(tip) == Ancestry(tip) \ (Ancestry(main) \cup Ancestry(draft))   \* mutant
NewCommits(tip) == Ancestry(tip) \ Ancestry(main)

\* A commit brings what none of its parents had.
Brings(c) == trees[c] \ UNION {trees[p] : p \in parents[c]}

\* Every text once, newest commit first, then in the order of its tree.
Fresh    == UNION {Brings(c) : c \in NewCommits(Tip)}
From(x)  == CHOOSE c \in NewCommits(Tip) :
              x \in Brings(c) /\ \A d \in NewCommits(Tip) : x \in Brings(d) => d <= c
Earlier(x, y) == From(x) > From(y) \/ (From(x) = From(y) /\ x < y)
PushedTexts ==
    CHOOSE s \in [1..Cardinality(Fresh) -> Fresh] :
        \A i, j \in 1..Cardinality(Fresh) : i < j => Earlier(s[i], s[j])

Bytes(q) ==
    LET upTo[n \in 0..Len(q)] == IF n = 0 THEN 0 ELSE upTo[n - 1] + SizeOf[q[n]]
    IN upTo[Len(q)]

\* text_portions: a text that does not fit opens the next portion; one that is
\* too large goes alone.
FitsIn(q, x) == Bytes(q) + SizeOf[x] <= MaxBytes
WithText(ps, x) ==
    IF ps # <<>> /\ FitsIn(Last(ps), x) THEN Append(Front(ps), Append(Last(ps), x))
    ELSE Append(ps, <<x>>)
Portions(texts) ==
    LET upTo[n \in 0..Len(texts)] == IF n = 0 THEN <<>> ELSE WithText(upTo[n - 1], texts[n])
    IN upTo[Len(texts)]

\* The commands go with the first portion, and alone when there is no text.
Questions(ps) == IF ps = <<>> THEN <<[cmds |-> TRUE, files |-> <<>>]>>
                 ELSE [i \in 1..Len(ps) |-> [cmds |-> i = 1, files |-> ps[i]]]

\* The application's honest verdict; anything but an explicit "allow" refuses.
Allowed(q) ==
    /\ \A i \in 1..Len(q.files) : q.files[i] \notin Banned
    /\ q.cmds => command # "banned"

-----------------------------------------------------------------------------
\* ensure_writable
AskWritable ==
    /\ gate = "writable"
    /\ gate' = "texts"
    /\ UNCHANGED <<history, asking, answered, judged>>
NotWritable ==
    /\ gate = "writable"
    /\ gate' = "refused"
    /\ UNCHANGED <<history, asking, answered, judged>>

\* The hook runs check-content on the tip of a push to main.
ReadTexts ==
    /\ gate = "texts"
    /\ IF PushedTexts = <<>> /\ command = "none"
       THEN gate' = "accepted" /\ asking' = <<>>
       ELSE gate' = "asking" /\ asking' = Questions(Portions(PushedTexts))
    /\ UNCHANGED <<history, answered, judged>>
\* A text that cannot be read is a refusal.
TextsUnread ==
    /\ gate = "texts"
    /\ gate' = "refused"
    /\ UNCHANGED <<history, asking, answered, judged>>
\* The hook's own binary is missing (126, 127): the push passes with a warning.
BinaryMissing ==
    /\ gate = "texts"
    /\ gate' = "unchecked"
    /\ UNCHANGED <<history, asking, answered, judged>>

AskContent ==
    /\ gate = "asking" /\ asking # <<>> /\ Allowed(Head(asking))
    /\ answered' = answered \cup ToSet(Head(asking).files)
    /\ judged' = (judged \/ Head(asking).cmds)
    /\ asking' = Tail(asking)
    /\ UNCHANGED <<history, gate>>
\* Refused, frozen meanwhile, unreachable, not understood, or not asked.
ContentRefused ==
    /\ gate = "asking" /\ asking # <<>>
    /\ gate' = "refused"
    /\ UNCHANGED <<history, asking, answered, judged>>
AllAnswered ==
    /\ gate = "asking" /\ asking = <<>>
    /\ gate' = "accepted"
    /\ UNCHANGED <<history, asking, answered, judged>>

GateNext ==
    \/ AskWritable \/ NotWritable \/ ReadTexts \/ TextsUnread \/ BinaryMissing
    \/ AskContent \/ ContentRefused \/ AllAnswered

GateSpec == GateInit /\ [][GateNext]_gateVars

-----------------------------------------------------------------------------
(* Properties *)

\* Every text in the history of an accepted tip was let in by the application
\* or was in main's history already, also one that a later commit removes, that
\* a draft carried before, or that a merge brought along (pushed_texts).
HistoryIsJudged ==
    gate = "accepted" =>
        \A c \in Ancestry(Tip) : \A x \in trees[c] :
            \/ x \in answered
            \/ \E d \in Ancestry(main) : x \in trees[d]

\* An accepted tip with commands was asked about, also without any new text.
CommandsAreJudged == (gate = "accepted" /\ command # "none") => judged

\* The questions carry all texts of the push, each once, and none is larger
\* than a question may be unless it is a single text (text_portions).
QuestionsFit ==
    gate = "asking" =>
        /\ \A i \in 1..Len(asking) :
             Bytes(asking[i].files) <= MaxBytes \/ Len(asking[i].files) = 1
        /\ answered \cup UNION {ToSet(asking[i].files) : i \in 1..Len(asking)} = ToSet(PushedTexts)

\* A push that was let in was judged: every text, every command, in questions
\* the application can take.
PushIsJudged == HistoryIsJudged /\ CommandsAreJudged /\ QuestionsFit
=============================================================================
