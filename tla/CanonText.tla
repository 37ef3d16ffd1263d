------------------------------- MODULE CanonText -------------------------------
(***************************************************************************)
(* Two readings of one list.json: the projection reads it softly and drops *)
(* what means nothing (parse_steps in src/git/project.rs, proj_step_row in *)
(* src/db/carryover.rs), the editor strictly, and refuses what would be    *)
(* dropped (parse_canon in src/git/canon.rs).  The commands go to the      *)
(* application unfiltered (block_commands), so that the place it names is  *)
(* the author's.  A run starts from every text of one or two blocks.       *)
(***************************************************************************)
EXTENDS Integers, Sequences

CONSTANTS MaxRefs, MaxTextBlocks

ASSUME CanonTextAssumption == MaxRefs \in Nat /\ MaxTextBlocks \in Nat \ {0}

VARIABLES
    text,      \* the raw blocks of list.json
    soft,      \* what the projection keeps: pairs of a block's place and its refs
    strict     \* what the editor objects to: places, of blocks and of refs

textVars == <<text, soft, strict>>

Types  == {"absent", "", "step", "text"}
Titles == {"absent", "blank", "named"}
Words  == {"absent", "blank", "word"}
RawRefs == UNION {[1..n -> [label : Words, url : Words]] : n \in 0..MaxRefs}
RawBlocks == [type : Types, title : Titles, refs : RawRefs]

Unread == [read |-> FALSE, kept |-> <<>>]

TextInit ==
    /\ text \in UNION {[1..n -> RawBlocks] : n \in 1..MaxTextBlocks}
    /\ soft = Unread /\ strict = [read |-> FALSE, issues |-> {}]

\* is_step_type: an absent type is the empty one.
IsStep(b) == b.type \in {"absent", "", "step"}
Blank(w) == w \in {"absent", "blank"}

\* keeps_ref: a reference is an address or a label.
KeepsRef(r) == ~Blank(r.label) \/ ~Blank(r.url)

\* filter_map: the places of n that are kept, in their order
Places(n, kept) ==
    LET from[i \in 0..n] == IF i = 0 THEN <<>>
                            ELSE IF i \in kept THEN Append(from[i - 1], i) ELSE from[i - 1]
    IN from[n]
KeptRefs(b) == Places(Len(b.refs), {k \in 1..Len(b.refs) : KeepsRef(b.refs[k])})

Untitled(b) == IsStep(b) /\ Blank(b.title)

SoftRead ==
    /\ ~soft.read
    /\ LET kept == Places(Len(text), {i \in 1..Len(text) : ~Untitled(text[i])})
       IN soft' = [read |-> TRUE,
                   kept |-> [i \in 1..Len(kept) |->
                               [place |-> kept[i], refs |-> KeptRefs(text[kept[i]])]]]
    /\ UNCHANGED <<text, strict>>

\* silent_loss_issues
StepIssue_Explicit(b) == b.type = "step" /\ Blank(b.title)              \* mutant
StepIssue(b) == IsStep(b) /\ Blank(b.title)
StrictRead ==
    /\ ~strict.read
    /\ strict' = [read |-> TRUE,
                  issues |-> {<<i, 0>> : i \in {j \in 1..Len(text) : StepIssue(text[j])}}
                             \cup UNION {{<<i, k>> : k \in {n \in 1..Len(text[i].refs) :
                                                              ~KeepsRef(text[i].refs[n])}}
                                         : i \in 1..Len(text)}]
    /\ UNCHANGED <<text, soft>>

TextNext == SoftRead \/ StrictRead
TextSpec == TextInit /\ [][TextNext]_textVars

-----------------------------------------------------------------------------
(* Properties *)

\* The editor refuses exactly the texts the projection would lose a block or a
\* reference of: canon.rs counts as many objections as parse_steps has drops.
StrictMeansLossless ==
    (soft.read /\ strict.read) =>
        (strict.issues = {} <=>
            /\ Len(soft.kept) = Len(text)
            /\ \A i \in 1..Len(text) : Len(soft.kept[i].refs) = Len(text[i].refs))
=============================================================================
