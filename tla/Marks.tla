--------------------------------- MODULE Marks ---------------------------------
(***************************************************************************)
(* The marks of a list's blocks (needs_human, danger, image_key) on their  *)
(* way between Postgres, list.json in main and the editor: list_json       *)
(* (src/git/serialize.rs), the projection's carry-over                     *)
(* (src/db/carryover.rs, src/db/write.rs), and canon_list_json             *)
(* (src/services/git_core/convert.rs).                                     *)
(*                                                                         *)
(* The three marks obey one rule and one of them is modelled.  A field of  *)
(* a file is "on", "off" (false, or an empty image key) or "absent"; an    *)
(* absent one means "not known" and the block keeps its mark, found by     *)
(* block_id.  Nothing makes ids unique within a version.                   *)
(***************************************************************************)
EXTENDS Integers, Sequences

CONSTANTS
    BlockIds,
    MaxBlocks      \* blocks of a version

ASSUME MarksAssumption == MaxBlocks \in Nat \ {0}

VARIABLES
    rows,          \* the current version in Postgres: blocks with a Boolean mark
    canon,         \* main's list.json: blocks with a field
    editor,        \* merge_resolved between reading the marks and writing them
    saved          \* a web version whose commit is made and whose rows are not

markVars == <<rows, canon, editor, saved>>

Fields == {"absent", "off", "on"}
Versions == UNION {[1..n -> [id : BlockIds, on : BOOLEAN]] : n \in 1..MaxBlocks}
Files    == UNION {[1..n -> [id : BlockIds, field : Fields]] : n \in 1..MaxBlocks}
Layouts  == UNION {[1..n -> BlockIds] : n \in 1..MaxBlocks}

NoVersion == <<>>
NoEditor  == [open |-> FALSE, carry |-> [b \in BlockIds |-> FALSE]]

Distinct(v) == \A i, j \in DOMAIN v : v[i].id = v[j].id => i = j

-----------------------------------------------------------------------------
(* The formats *)

\* list_json: a mark is written only when it is there.
FieldOf(on) == IF on THEN "on" ELSE "absent"
ListJson(v) == [i \in DOMAIN v |-> [id |-> v[i].id, field |-> FieldOf(v[i].on)]]

\* current_marks: of two blocks with one id the later one counts.
CurrentMarks_Lost(v) == [b \in BlockIds |-> FALSE]                      \* mutant
CurrentMarks(v) ==
    [b \in BlockIds |-> \E i \in DOMAIN v : /\ v[i].id = b /\ v[i].on
                                            /\ \A j \in DOMAIN v : v[j].id = b => j <= i]

\* proj_step_row: the file decides when it says something.
Told_NoOff(field, carried) == IF field = "on" THEN TRUE ELSE carried    \* mutant
Told(field, carried) ==
    CASE field = "on" -> TRUE [] field = "off" -> FALSE [] field = "absent" -> carried
Projected(f, v) ==
    [i \in DOMAIN f |-> [id |-> f[i].id, on |-> Told(f[i].field, CurrentMarks(v)[f[i].id])]]

\* canon_list_json: the layout comes from the editor, the marks from Postgres.
Enriched(layout, carry) ==
    [i \in DOMAIN layout |-> [id |-> layout[i], field |-> FieldOf(carry[layout[i]])]]

-----------------------------------------------------------------------------
MarksInit ==
    /\ rows \in Versions /\ Distinct(rows)
    /\ canon = ListJson(rows)
    /\ editor = NoEditor /\ saved = NoVersion

\* Every write of main aligns the list first.
Aligned == saved = NoVersion

\* A version from the web: its marks are explicit.
SaveVersion(v) ==
    /\ Aligned
    /\ rows' = v /\ canon' = ListJson(v)
    /\ UNCHANGED <<editor, saved>>
\* The commit is made, and the rows are lost with the process or the database.
SaveCut(v) ==
    /\ Aligned
    /\ canon' = ListJson(v) /\ saved' = v
    /\ UNCHANGED <<rows, editor>>
\* The next touch projects the tip.
HealTip ==
    /\ ~Aligned
    /\ rows' = Projected(canon, rows) /\ saved' = NoVersion
    /\ UNCHANGED <<canon, editor>>

\* A push, or the merge of a draft that somebody pushed or commit_to_branch
\* wrote: main's tip is a new file.
PushMain(f) ==
    /\ Aligned
    /\ canon' = f /\ rows' = Projected(f, rows)
    /\ UNCHANGED <<editor, saved>>

\* merge_resolved reads the marks before it has the guard.
ReadMarks ==
    /\ editor = NoEditor
    /\ editor' = [open |-> TRUE, carry |-> CurrentMarks(rows)]
    /\ UNCHANGED <<rows, canon, saved>>
MergeResolved(layout) ==
    /\ editor.open /\ Aligned
    /\ canon' = Enriched(layout, editor.carry)
    /\ rows' = Projected(canon', rows)
    /\ editor' = NoEditor
    /\ UNCHANGED saved

MarksNext ==
    \/ \E v \in Versions : Distinct(v) /\ (SaveVersion(v) \/ SaveCut(v))
    \/ \E f \in Files : PushMain(f)
    \/ \E l \in Layouts : MergeResolved(l)
    \/ ReadMarks \/ HealTip

MarksSpec == MarksInit /\ [][MarksNext]_markVars

-----------------------------------------------------------------------------
(* Properties *)

Marked(v, b)   == \E i \in DOMAIN v : v[i].id = b /\ v[i].on
Unmarked(v, b) == \E i \in DOMAIN v : v[i].id = b /\ ~v[i].on
WebSave == \E v \in Versions : SaveVersion(v)

\* Whatever is pushed, merged, resolved or healed, a block keeps its mark unless
\* the file itself says "off": an old clone, or an editor that does not know of
\* marks, erases none (carryover.rs: forgetting to carry one erases it quietly).
MarkIsKept ==
    [][(~WebSave /\ Distinct(rows) /\ rows' # rows) =>
         \A b \in BlockIds : (Marked(rows, b) /\ Unmarked(rows', b)) =>
             \E i \in DOMAIN canon' : canon'[i].id = b /\ canon'[i].field = "off"]_markVars

\* What main's file says of a mark is what readers see, in both directions: a
\* push can set a mark and take it off.
CanonIsObeyed ==
    Aligned => /\ DOMAIN rows = DOMAIN canon
               /\ \A i \in DOMAIN rows :
                    /\ rows[i].id = canon[i].id
                    /\ canon[i].field = "on" => rows[i].on
                    /\ canon[i].field = "off" => ~rows[i].on

\* A repository made from Postgres carries every mark, so that a clone of it
\* projects to the same version without any help from Postgres.
MarksTravel == Projected(ListJson(rows), NoVersion) = rows

\* File and rows say the same of every mark, and each can be made of the other.
MarksAgree == CanonIsObeyed /\ MarksTravel
=============================================================================
