----------------------------- MODULE MarksProofs -----------------------------
(***************************************************************************)
(* Marks survive every way a version is made, for any set of block ids and *)
(* any size of a version.                                                  *)
(***************************************************************************)
EXTENDS Marks, TLAPS

VersionOf(n) == [1..n -> [id : BlockIds, on : BOOLEAN]]
FileOf(n)    == [1..n -> [id : BlockIds, field : Fields]]

MarksInv ==
    /\ \E n \in 1..MaxBlocks : rows \in VersionOf(n)
    /\ \E n \in 1..MaxBlocks : canon \in FileOf(n)
    /\ editor.carry \in [BlockIds -> BOOLEAN]
    /\ CanonIsObeyed

-----------------------------------------------------------------------------
(* The formats, as functions on blocks *)

LEMMA ListJsonType ==
  ASSUME NEW n \in Nat, NEW v \in VersionOf(n)
  PROVE  ListJson(v) \in FileOf(n)
BY DEF VersionOf, FileOf, ListJson, FieldOf, Fields

LEMMA CurrentMarksType == ASSUME NEW v PROVE CurrentMarks(v) \in [BlockIds -> BOOLEAN]
BY DEF CurrentMarks

(* A projection has the file's blocks, and each mark is told or carried.    *)
LEMMA ProjectedType ==
  ASSUME NEW n \in Nat, NEW f \in FileOf(n), NEW v
  PROVE  /\ Projected(f, v) \in VersionOf(n)
         /\ \A i \in 1..n : /\ Projected(f, v)[i].id = f[i].id
                            /\ f[i].field = "on" => Projected(f, v)[i].on
                            /\ f[i].field = "off" => ~Projected(f, v)[i].on
                            /\ f[i].field = "absent" =>
                                 Projected(f, v)[i].on = CurrentMarks(v)[f[i].id]
<1>1. \A i \in 1..n : f[i].id \in BlockIds /\ f[i].field \in {"absent", "off", "on"}
  BY DEF FileOf, Fields
<1>2. DOMAIN f = 1..n
  BY DEF FileOf
<1>3. CurrentMarks(v) \in [BlockIds -> BOOLEAN]
  BY CurrentMarksType
<1>4. \A i \in 1..n : Told(f[i].field, CurrentMarks(v)[f[i].id]) \in BOOLEAN
  BY <1>1, <1>3 DEF Told
<1>5. Projected(f, v) \in VersionOf(n)
  BY <1>1, <1>2, <1>4 DEF Projected, VersionOf
<1>6. \A i \in 1..n : /\ Projected(f, v)[i].id = f[i].id
                      /\ Projected(f, v)[i].on = Told(f[i].field, CurrentMarks(v)[f[i].id])
  BY <1>2 DEF Projected
<1> QED
  BY <1>1, <1>3, <1>5, <1>6 DEF Told

(* In a version without repeated ids a block's mark is what is carried.     *)
LEMMA MarkIsCarried ==
  ASSUME NEW n \in Nat, NEW v \in VersionOf(n), Distinct(v), NEW b \in BlockIds, Marked(v, b)
  PROVE  CurrentMarks(v)[b]
<1>1. PICK i \in 1..n : v[i].id = b /\ v[i].on
  BY DEF Marked, VersionOf
<1>2. \A j \in 1..n : v[j].id = b => j = i
  BY <1>1 DEF Distinct, VersionOf
<1> QED
  BY <1>1, <1>2 DEF CurrentMarks, VersionOf

LEMMA ProjectionKeeps ==
  ASSUME NEW n \in Nat, NEW f \in FileOf(n), NEW m \in Nat, NEW v \in VersionOf(m), Distinct(v),
         NEW b \in BlockIds, Marked(v, b), Unmarked(Projected(f, v), b)
  PROVE  \E i \in DOMAIN f : f[i].id = b /\ f[i].field = "off"
<1>1. PICK i \in 1..n : Projected(f, v)[i].id = b /\ ~Projected(f, v)[i].on
  BY ProjectedType DEF Unmarked, VersionOf
<1>2. f[i].id = b /\ f[i].field \in {"absent", "off", "on"} /\ DOMAIN f = 1..n
  BY <1>1, ProjectedType DEF FileOf, Fields
<1>3. CurrentMarks(v)[b]
  BY MarkIsCarried
<1> QED
  BY <1>1, <1>2, <1>3, ProjectedType

LEMMA EnrichedType ==
  ASSUME NEW n \in Nat, NEW layout \in [1..n -> BlockIds], NEW carry \in [BlockIds -> BOOLEAN]
  PROVE  Enriched(layout, carry) \in FileOf(n)
BY DEF Enriched, FileOf, FieldOf, Fields

(* The rows a file gives say what the file says.                            *)
LEMMA ProjectedObeys ==
  ASSUME NEW n \in Nat, NEW f \in FileOf(n), NEW v, canon' = f, rows' = Projected(f, v)
  PROVE  CanonIsObeyed'
<1>1. DOMAIN f = 1..n /\ DOMAIN Projected(f, v) = 1..n
  BY ProjectedType DEF FileOf, VersionOf
<1> QED
  BY <1>1, ProjectedType DEF CanonIsObeyed

LEMMA SavedObeys ==
  ASSUME NEW n \in Nat, NEW v \in VersionOf(n), canon' = ListJson(v), rows' = v
  PROVE  CanonIsObeyed'
BY DEF CanonIsObeyed, ListJson, FieldOf, VersionOf

LEMMA InvAgrees == MarksInv => MarksAgree
<1> SUFFICES ASSUME MarksInv PROVE MarksTravel
  BY DEF MarksAgree, MarksInv
<1>1. PICK n \in 1..MaxBlocks : rows \in VersionOf(n)
  BY DEF MarksInv
<1>2. n \in Nat /\ DOMAIN rows = 1..n /\ \A i \in 1..n : rows[i] \in [id : BlockIds, on : BOOLEAN]
  BY <1>1, MarksAssumption DEF VersionOf
<1> DEFINE f == ListJson(rows)
<1>3. f \in FileOf(n) /\ \A i \in 1..n : /\ f[i].id = rows[i].id
                                        /\ f[i].field = IF rows[i].on THEN "on" ELSE "absent"
  BY <1>1, <1>2, ListJsonType DEF ListJson, FieldOf
<1>4. \A b \in BlockIds : CurrentMarks(NoVersion)[b] = FALSE
  BY DEF CurrentMarks, NoVersion
<1>5. Projected(f, NoVersion) \in VersionOf(n)
  BY <1>2, <1>3, ProjectedType
<1>6. \A i \in 1..n : /\ Projected(f, NoVersion)[i].id = rows[i].id
                      /\ Projected(f, NoVersion)[i].on = rows[i].on
  <2> TAKE i \in 1..n
  <2> HIDE DEF f
  <2>1. /\ Projected(f, NoVersion)[i].id = f[i].id
        /\ Projected(f, NoVersion)[i].on =
             Told(f[i].field, CurrentMarks(NoVersion)[f[i].id])
    BY <1>2, <1>3 DEF Projected, FileOf
  <2>2. f[i].id \in BlockIds /\ rows[i].on \in BOOLEAN
    BY <1>2, <1>3
  <2>3. Told(f[i].field, FALSE) = rows[i].on
    <3>1. CASE rows[i].on
      BY <1>3, <3>1 DEF Told
    <3>2. CASE ~rows[i].on
      BY <1>3, <3>2, <2>2 DEF Told
    <3> QED
      BY <3>1, <3>2
  <2> QED
    BY <1>3, <1>4, <2>1, <2>2, <2>3
<1>7. \A i \in 1..n : Projected(f, NoVersion)[i] = rows[i]
  BY <1>2, <1>5, <1>6 DEF VersionOf
<1>8. Projected(f, NoVersion) = rows
  BY <1>1, <1>5, <1>7 DEF VersionOf
<1> QED
  BY <1>8 DEF MarksTravel

-----------------------------------------------------------------------------
LEMMA VersionsAre == Versions = UNION {VersionOf(n) : n \in 1..MaxBlocks}
                     /\ Files = UNION {FileOf(n) : n \in 1..MaxBlocks}
BY DEF Versions, Files, VersionOf, FileOf

LEMMA MarksInvInit == MarksInit => MarksInv
<1> SUFFICES ASSUME MarksInit PROVE MarksInv
  OBVIOUS
<1>1. PICK n \in 1..MaxBlocks : rows \in VersionOf(n)
  BY VersionsAre DEF MarksInit
<1>2. n \in Nat
  BY MarksAssumption
<1>3. canon \in FileOf(n)
  BY <1>1, <1>2, ListJsonType DEF MarksInit
<1>4. CanonIsObeyed
  BY <1>1, <1>2 DEF MarksInit, CanonIsObeyed, ListJson, FieldOf, VersionOf
<1> QED
  BY <1>1, <1>3, <1>4 DEF MarksInv, MarksInit, NoEditor

LEMMA MarksInvNext == MarksInv /\ [MarksNext]_markVars => MarksInv'
<1> SUFFICES ASSUME MarksInv, [MarksNext]_markVars PROVE MarksInv'
  OBVIOUS
<1> USE MarksAssumption DEF MarksInv
<1>1. ASSUME NEW v \in Versions, SaveVersion(v) PROVE MarksInv'
  <2>1. PICK n \in 1..MaxBlocks : v \in VersionOf(n)
    BY VersionsAre
  <2>2. ListJson(v) \in FileOf(n) /\ CanonIsObeyed'
    BY <1>1, <2>1, ListJsonType, SavedObeys DEF SaveVersion
  <2> QED
    BY <1>1, <2>1, <2>2 DEF SaveVersion
<1>2. ASSUME NEW v \in Versions, SaveCut(v) PROVE MarksInv'
  <2>1. PICK n \in 1..MaxBlocks : v \in VersionOf(n)
    BY VersionsAre
  <2>2. ListJson(v) \in FileOf(n) /\ saved' = v /\ v # NoVersion
    BY <1>2, <2>1, ListJsonType DEF SaveCut, VersionOf, NoVersion
  <2> QED
    BY <1>2, <2>1, <2>2 DEF SaveCut, CanonIsObeyed, Aligned
<1>3. ASSUME NEW f \in Files, PushMain(f) PROVE MarksInv'
  <2>1. PICK n \in 1..MaxBlocks : f \in FileOf(n)
    BY VersionsAre
  <2>2. Projected(f, rows) \in VersionOf(n) /\ CanonIsObeyed'
    BY <1>3, <2>1, ProjectedType, ProjectedObeys DEF PushMain
  <2> QED
    BY <1>3, <2>1, <2>2 DEF PushMain
<1>4. ASSUME NEW l \in Layouts, MergeResolved(l) PROVE MarksInv'
  <2>1. PICK n \in 1..MaxBlocks : l \in [1..n -> BlockIds]
    BY DEF Layouts
  <2>2. canon' \in FileOf(n) /\ rows' = Projected(canon', rows)
    BY <1>4, <2>1, EnrichedType DEF MergeResolved
  <2>3. rows' \in VersionOf(n) /\ CanonIsObeyed'
    BY <2>1, <2>2, ProjectedType, ProjectedObeys
  <2> QED
    BY <1>4, <2>1, <2>2, <2>3 DEF MergeResolved, NoEditor
<1>5. ASSUME ReadMarks PROVE MarksInv'
  BY <1>5, CurrentMarksType DEF ReadMarks, CanonIsObeyed, Aligned
<1>6. ASSUME HealTip PROVE MarksInv'
  <2>1. PICK n \in 1..MaxBlocks : canon \in FileOf(n)
    OBVIOUS
  <2>2. Projected(canon, rows) \in VersionOf(n) /\ CanonIsObeyed'
    BY <1>6, <2>1, ProjectedType, ProjectedObeys DEF HealTip
  <2> QED
    BY <1>6, <2>1, <2>2 DEF HealTip
<1>7. CASE UNCHANGED markVars
  BY <1>7 DEF markVars, CanonIsObeyed, Aligned
<1> QED
  BY <1>1, <1>2, <1>3, <1>4, <1>5, <1>6, <1>7 DEF MarksNext

(* A step that is not a save from the web projects main's file.             *)
LEMMA StepKeepsMarks ==
  ASSUME MarksInv, MarksNext, ~WebSave, Distinct(rows), rows' # rows,
         NEW b \in BlockIds, Marked(rows, b), Unmarked(rows', b)
  PROVE  \E i \in DOMAIN canon' : canon'[i].id = b /\ canon'[i].field = "off"
<1>1. PICK m \in 1..MaxBlocks : rows \in VersionOf(m)
  BY DEF MarksInv
<1>2. PICK n \in 1..MaxBlocks : canon' \in FileOf(n)
  BY MarksInvNext DEF MarksInv
<1>3. n \in Nat /\ m \in Nat
  BY MarksAssumption
<1>4. rows' = Projected(canon', rows)
  BY DEF MarksNext, WebSave, SaveVersion, SaveCut, PushMain, MergeResolved, ReadMarks, HealTip
<1> QED
  BY <1>1, <1>2, <1>3, <1>4, ProjectionKeeps

-----------------------------------------------------------------------------
(* The file and the rows of an aligned list agree.                          *)
THEOREM MarksInvariance == MarksSpec => []MarksInv
BY MarksInvInit, MarksInvNext, PTL DEF MarksSpec

(* list_json and the projection: what the file says is what readers see,    *)
(* and a repository made from Postgres gives back the same version.         *)
THEOREM FileAndRowsAgree == MarksSpec => []MarksAgree
BY MarksInvariance, InvAgrees, PTL

(* carryover.rs: no push, merge, resolution or heal takes a mark off a      *)
(* block, unless the file itself says so.                                   *)
THEOREM NoMarkIsLost == MarksSpec => MarkIsKept
<1>1. MarksInv /\ [MarksNext]_markVars =>
        [(~WebSave /\ Distinct(rows) /\ rows' # rows) =>
           \A b \in BlockIds : (Marked(rows, b) /\ Unmarked(rows', b)) =>
             \E i \in DOMAIN canon' : canon'[i].id = b /\ canon'[i].field = "off"]_markVars
  <2> SUFFICES ASSUME MarksInv, MarksNext, ~WebSave, Distinct(rows), rows' # rows,
                      NEW b \in BlockIds, Marked(rows, b), Unmarked(rows', b)
               PROVE  \E i \in DOMAIN canon' : canon'[i].id = b /\ canon'[i].field = "off"
    OBVIOUS
  <2> QED
    BY StepKeepsMarks
<1> QED
  BY <1>1, MarksInvariance, PTL DEF MarksSpec, MarkIsKept
=============================================================================
