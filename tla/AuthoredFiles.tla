--------------------------- MODULE AuthoredFiles ---------------------------
(***************************************************************************)
(* What a tree of a list may contain, judged by three doors that have to   *)
(* agree: the pre-receive hook in shell (src/git/bundle.rs), update_main   *)
(* and authored_input_violation in Rust (src/git/update.rs,                *)
(* src/git/serialize.rs).  What one door lets into main is carried on by   *)
(* every later writer, and judged again by that writer's door.             *)
(*                                                                         *)
(* A tree is a canon (there or not) and a function from paths to files.    *)
(* A path has a shape; the files of scripts/, references/ and assets/ are  *)
(* the author's, they are generated by nobody.                             *)
(*                                                                         *)
(* There is one draft besides main.  The hook judges the commits a push    *)
(* brings, not those a reference already reaches, so what it asks of main  *)
(* depends on how the draft stands to main.                                *)
(***************************************************************************)
EXTENDS Integers, FiniteSets, FiniteSetsExt

CONSTANTS
    Paths,
    ShapeOf,       \* path -> its shape
    NameSize,      \* path -> its length
    Contents,      \* the files there are: size, mode, binary or not
    MaxFiles,      \* AUTHORED_MAX_FILES
    MaxTreeBytes   \* AUTHORED_MAX_BYTES

\* "quoted": a name git prints in quotes; "dotted": a name that begins with a
\* dot; both in references/ or assets/.
Shapes == {"script", "asset", "quoted", "dotted", "legacy", "foreign"}

ASSUME TreeAssumption ==
    /\ ShapeOf \in [Paths -> Shapes] /\ NameSize \in [Paths -> Nat]
    /\ Contents \subseteq [size : Nat, mode : {"file", "exec", "link"}, binary : BOOLEAN]
    /\ MaxFiles \in Nat /\ MaxTreeBytes \in Nat

VARIABLES
    mainTree,
    draftTree,     \* a draft, or NoTree
    standing,      \* the draft's tip to main's; "behind" when there is no draft
    promised       \* the author's paths put into main and taken away by nobody

VARIABLES          \* kept for the properties, read by no code
    mainUnjudged,  \* the tree of the branch comes from a merge of update_branch
    draftUnjudged  \* that has passed no door since

treeVars == <<mainTree, draftTree, standing, promised, mainUnjudged, draftUnjudged>>

Authored == {p \in Paths : ShapeOf[p] \in {"script", "asset", "quoted", "dotted"}}
FileSets(S) == UNION {[T -> Contents] : T \in SUBSET S}
NoTree    == [canon |-> FALSE, files |-> <<>>]
Tree(fs)  == [canon |-> TRUE, files |-> fs]
Only(fs, S) == [p \in DOMAIN fs \cap S |-> fs[p]]
AuthoredOf(t) == DOMAIN t.files \cap Authored

-----------------------------------------------------------------------------
(* The doors *)

Size(fs, S) == MapThenSumSet(LAMBDA p : fs[p].size, S)
Weight(fs)  == MapThenSumSet(LAMBDA p : fs[p].size + NameSize[p], DOMAIN fs \cap Authored)

\* first_foreign_path, tree_path_allowed
PathsAllowed(t) == \A p \in DOMAIN t.files : ShapeOf[p] # "foreign"
Regular(t)      == \A p \in AuthoredOf(t) : t.files[p].mode # "link"
TextOnly(t)     == \A p \in AuthoredOf(t) : ~t.files[p].binary

\* The hook lists paths as git prints them, and a quoted name matches nothing.
Listed(t) == \A p \in DOMAIN t.files : ShapeOf[p] # "quoted"
HookJudges_Uncounted(t) ==                                              \* mutant
    /\ PathsAllowed(t) /\ Listed(t) /\ Regular(t) /\ TextOnly(t)
    /\ Size(t.files, AuthoredOf(t)) <= MaxTreeBytes
HookJudges(t) ==
    /\ PathsAllowed(t) /\ Listed(t) /\ Regular(t) /\ TextOnly(t)
    /\ Cardinality(AuthoredOf(t)) <= MaxFiles
    /\ Size(t.files, AuthoredOf(t)) <= MaxTreeBytes
\* The canon is asked of the tip of every push, the rest only of the commits of
\* rev-list "$new" --not --all: of a commit some reference reaches, nothing.
HookAllows(t, isNew) == t.canon /\ (isNew => HookJudges(t))

\* AuthoredTally counts the names with the contents.
TallyFits(fs) == Cardinality(DOMAIN fs \cap Authored) <= MaxFiles /\ Weight(fs) <= MaxTreeBytes
UpdateAllows(t) ==
    t.canon /\ PathsAllowed(t) /\ Regular(t) /\ TextOnly(t) /\ TallyFits(t.files)

\* authored_input_violation: no dotted names, and only scripts are executable.
\* (A path sent twice, which a function cannot hold, is refused as well.)
InputAllows(fs) ==
    /\ \A p \in DOMAIN fs :
          /\ p \in Authored /\ ShapeOf[p] # "dotted" /\ ~fs[p].binary
          /\ fs[p].mode = "exec" => ShapeOf[p] = "script"
    /\ TallyFits(fs)

-----------------------------------------------------------------------------
TreeInit ==
    /\ mainTree = Tree(<<>>) /\ draftTree = NoTree
    /\ standing = "behind"
    /\ promised = {}
    /\ mainUnjudged = FALSE /\ draftUnjudged = FALSE

\* What a file outside the author's directories holds matters to nobody.
ContentsFor(p) == IF p \in Authored THEN Contents ELSE {CHOOSE c \in Contents : TRUE}
\* One file of a tree is added, changed or removed, or all are; the pusher may
\* also forget the canon.  A larger push is some of these, as every limit is
\* monotone (and from a tree beyond the limits it starts with no files).
Edits(t) ==
    {[t EXCEPT !.files = Only(@, Paths \ {p})] : p \in Paths}
    \cup (UNION {{[t EXCEPT !.files = [q \in DOMAIN @ \cup {p} |-> IF q = p THEN c ELSE @[q]]] :
                     c \in ContentsFor(p)} : p \in Paths})
    \cup {[t EXCEPT !.canon = FALSE], Tree(<<>>)}

\* A new commit on main that does not contain the draft's tip.
MainMovesOn == standing' = IF standing \in {"ahead", "apart"} THEN "apart" ELSE "behind"

\* A push of a new commit; the pusher may have merged the draft into it.
PushToMain ==
    \E t \in Edits(mainTree) :
        /\ HookAllows(t, TRUE)
        /\ mainTree' = t /\ promised' = AuthoredOf(t) /\ mainUnjudged' = FALSE
        /\ MainMovesOn \/ standing' = "behind"
        /\ UNCHANGED <<draftTree, draftUnjudged>>
\* git push draft:main, a fast-forward that brings no new commit
PushDraftToMain ==
    /\ draftTree # NoTree /\ standing = "ahead"
    /\ HookAllows(draftTree, FALSE)
    /\ mainTree' = draftTree /\ promised' = AuthoredOf(draftTree)
    /\ standing' = "level" /\ mainUnjudged' = draftUnjudged
    /\ UNCHANGED <<draftTree, draftUnjudged>>
\* A push of a new commit to the draft, forced or not, with main merged into it
\* or not.
PushToDraft ==
    \E t \in Edits(IF draftTree = NoTree THEN mainTree ELSE draftTree) :
        /\ HookAllows(t, TRUE)
        /\ draftTree' = t /\ standing' \in {"ahead", "apart"} /\ draftUnjudged' = FALSE
        /\ UNCHANGED <<mainTree, promised, mainUnjudged>>
\* create_branch, or a push of main's tip as a draft
CreateBranch ==
    /\ draftTree = NoTree
    /\ draftTree' = mainTree /\ standing' = "level" /\ draftUnjudged' = mainUnjudged
    /\ UNCHANGED <<mainTree, promised, mainUnjudged>>
\* commit_list_json: no door; the legacy directory goes.
CommitToDraft ==
    /\ draftTree # NoTree
    /\ draftTree' = Tree(Only(draftTree.files, Authored))
    /\ standing' = IF standing \in {"ahead", "level"} THEN "ahead" ELSE "apart"
    /\ UNCHANGED <<mainTree, promised, mainUnjudged, draftUnjudged>>
DropDraft ==
    /\ draftTree' = NoTree /\ standing' = "behind" /\ draftUnjudged' = FALSE
    /\ UNCHANGED <<mainTree, promised, mainUnjudged>>

\* build_tree with Authored::Carry: the generated files are made anew, the
\* author's directories are the parent's.
Carried(t) == Tree(Only(t.files, Authored))

WebEdit ==
    /\ UpdateAllows(Carried(mainTree))
    /\ mainTree' = Carried(mainTree) /\ mainUnjudged' = FALSE
    /\ MainMovesOn
    /\ UNCHANGED <<draftTree, promised, draftUnjudged>>

\* Authored::Replace: a set that came with the edit, or with Create.
Sendable == FileSets({p \in Authored : ShapeOf[p] # "dotted"})
WebReplace ==
    \E fs \in Sendable :
        /\ InputAllows(fs) /\ UpdateAllows(Tree(fs))
        /\ mainTree' = Tree(fs) /\ promised' = DOMAIN fs /\ mainUnjudged' = FALSE
        /\ MainMovesOn
        /\ UNCHANGED <<draftTree, draftUnjudged>>

\* A clean merge takes each path from one of its sides.
Differ(a, b) == {p \in Paths : \/ (p \in DOMAIN a) # (p \in DOMAIN b)
                               \/ p \in DOMAIN a /\ p \in DOMAIN b /\ a[p] # b[p]}
Mixed(a, b, theirs) ==
    [p \in (DOMAIN a \ theirs) \cup (DOMAIN b \cap theirs) |-> IF p \in theirs THEN b[p] ELSE a[p]]
Merges(a, b) == {Mixed(a, b, T) : T \in SUBSET Differ(a, b)}

\* A draft ahead of main is fast-forwarded to, or squashed with its tree.
MergeBranch ==
    /\ draftTree # NoTree /\ standing \in {"ahead", "apart"}
    /\ \E fs \in IF standing = "ahead" THEN {draftTree.files}
                                       ELSE Merges(mainTree.files, draftTree.files) :
          /\ UpdateAllows(Tree(fs))
          /\ mainTree' = Tree(fs) /\ promised' = DOMAIN fs \cap Authored
    /\ mainUnjudged' = FALSE
    /\ \/ MainMovesOn /\ UNCHANGED draftUnjudged                           \* squash
       \/ standing = "apart" /\ standing' = "behind" /\ UNCHANGED draftUnjudged
       \/ standing = "ahead" /\ standing' = "level" /\ draftUnjudged' = FALSE
    /\ UNCHANGED draftTree
\* update_branch: main into the draft, judged by nobody; a draft with nothing of
\* its own is set to main's tip.
UpdateBranch ==
    /\ draftTree # NoTree
    /\ \/ /\ standing = "behind" /\ standing' = "level"
          /\ draftTree' = mainTree /\ draftUnjudged' = mainUnjudged
       \/ /\ standing = "apart" /\ standing' = "ahead"
          /\ \E fs \in Merges(draftTree.files, mainTree.files) : draftTree' = Tree(fs)
          /\ draftUnjudged' = TRUE
    /\ UNCHANGED <<mainTree, promised, mainUnjudged>>
\* commit_resolved: main's tree with another canon; the draft's files stay out.
\* A squash does not have the draft as a parent.
MergeResolvedTree ==
    /\ draftTree # NoTree /\ standing # "level"
    /\ UpdateAllows(Carried(mainTree))
    /\ mainTree' = Carried(mainTree) /\ mainUnjudged' = FALSE
    /\ MainMovesOn \/ standing' = "behind"
    /\ UNCHANGED <<draftTree, promised, draftUnjudged>>

TreeNext ==
    \/ PushToMain \/ PushDraftToMain \/ PushToDraft \/ CreateBranch \/ CommitToDraft \/ DropDraft
    \/ WebEdit \/ WebReplace \/ MergeBranch \/ UpdateBranch \/ MergeResolvedTree

TreeSpec == TreeInit /\ [][TreeNext]_treeVars

-----------------------------------------------------------------------------
(* Properties *)

\* The two doors of main agree on what is in it: whoever wrote main, a web edit
\* that keeps its files passes update_main, and a new commit on a clone of it can
\* be pushed.  Two trees are excepted, on which the code's twins differ: contents
\* within the limit that are above it with their names, which only update_main
\* counts, and names git prints in quotes, which the hook takes for foreign paths.
\* The code keeps this of every main but one kind, named below.
MainStaysWritable ==
    /\ Weight(mainTree.files) <= MaxTreeBytes => UpdateAllows(Carried(mainTree))
    /\ Listed(mainTree) => HookAllows(mainTree, TRUE)

\* A push that moves main to a merge of update_branch brings no new commit, and no
\* door judges it.  Every other main stays writable: after edits, merges, resolved
\* merges and pushes of new commits, and after pushes of drafts as they were
\* pushed, branched off or committed to over the API; and the main of such a push
\* is, once any of these has succeeded over it.
JudgedMainStaysWritable == ~mainUnjudged => MainStaysWritable

\* No writer that says nothing of the author's files loses one: an edit of the
\* steps, a heal or a resolved conflict carries them all.
FilesAreKept == promised \subseteq DOMAIN mainTree.files

AuthoredFilesAreSafe == JudgedMainStaysWritable /\ FilesAreKept
=============================================================================
