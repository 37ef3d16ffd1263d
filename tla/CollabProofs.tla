----------------------------- MODULE CollabProofs -----------------------------
(***************************************************************************)
(* Numbers, base versions and star counters are right for any number of    *)
(* clients, lists, keys and people, and any choice of lists that share a   *)
(* key of the numbering lock.                                              *)
(***************************************************************************)
EXTENDS Collab, FiniteSetTheorems, TLAPS

Txs == [at : {"idle", "lock", "number", "insert", "commit", "read", "write", "count"},
        no : Nat, base : Nat, had : BOOLEAN, rows : {0, 1}, board : BOOLEAN]

CallType ==
    /\ call \in [Clients -> [ask : Asks \cup {Free}, tx : Txs]]
    /\ \A c \in Clients :
         /\ At(c) # "idle" => call[c].ask \in Asks
         /\ At(c) \in {"lock", "number", "insert"} => Kind(c) \in Sorts
         /\ At(c) \in {"read", "write", "count"} => Kind(c) = "star"

DataType ==
    /\ lock \in [Keys -> Clients \cup {Free}]
    /\ docs \in [Boards -> [Sorts -> SUBSET [no : Nat, base : Nat]]]
    /\ current \in [Boards -> Nat]
    /\ count \in [Boards -> Nat]
    /\ stars \subseteq Fans \X Boards

-----------------------------------------------------------------------------
(* What numbering keeps *)

Numbered(c) == At(c) \in {"number", "insert", "commit"} /\ Kind(c) \in Sorts
HasRow(c)   == At(c) \in {"insert", "commit"} /\ Kind(c) \in Sorts

KeyHeld == \A c \in Clients : Numbered(c) => lock[KeyOf[Board(c)]] = c

Dense(b, s) ==
    /\ IsFiniteSet(docs[b][s])
    /\ Numbers(b, s) = 1..Cardinality(docs[b][s])
    /\ \A d, e \in docs[b][s] : d.no = e.no => d = e

\* The row a call carries is the next one, and no proposal is newer.
RowIsNext ==
    \A c \in Clients : HasRow(c) =>
        /\ call[c].tx.no = Cardinality(docs[Board(c)][Kind(c)]) + 1
        /\ Kind(c) = "suggestion" =>
             /\ call[c].tx.base <= BaseVersion(c)
             /\ \A d \in docs[Board(c)]["suggestion"] : d.base <= call[c].tx.base

BasesAreOld == \A b \in Boards : \A d \in docs[b]["suggestion"] : d.base <= current[b]

NumInv == /\ KeyHeld /\ RowIsNext /\ BasesAreOld /\ BasesInOrder
          /\ \A b \in Boards, s \in Sorts : Dense(b, s)

-----------------------------------------------------------------------------
(* What stars keep *)

\* A written star's row is as the call read it, and nobody else has written it;
\* it goes to the counter before the commit.
StarHeldOnce ==
    /\ \A c \in Clients : call[c].tx.rows = 1 =>
         /\ At(c) \in {"count", "commit"} /\ Kind(c) = "star"
         /\ call[c].tx.had = (Star(c) \in stars)
         /\ At(c) = "commit" => call[c].tx.board
    /\ \A c \in Clients : (call[c].tx.board \/ At(c) = "count") => call[c].tx.rows = 1
    /\ \A c, d \in Clients :
         (c # d /\ call[c].tx.rows = 1 /\ call[d].tx.rows = 1) => Star(c) # Star(d)

Counted == \A b \in Boards : IsFiniteSet(StarsOf(b)) /\ count[b] = Cardinality(StarsOf(b))

CollabInv == CallType /\ DataType /\ NumInv /\ StarHeldOnce /\ Counted

-----------------------------------------------------------------------------
(* Lemmas on the helpers *)

LEMMA HighestOfDense ==
  ASSUME NEW n \in Nat
  PROVE  Highest(1..n) = n
<1>1. n \in (1..n) \cup {0} /\ \A m \in 1..n : m <= n
  OBVIOUS
<1>2. \A k \in (1..n) \cup {0} : (\A m \in 1..n : m <= k) => k = n
  OBVIOUS
<1> QED
  BY <1>1, <1>2 DEF Highest

LEMMA KindsApart == "star" \notin Sorts /\ Sorts = {"issue", "suggestion"}
BY DEF Sorts

(* An ask of a running call is a sort, a list and a person. *)
LEMMA AskType ==
  ASSUME NEW a \in Asks
  PROVE  a[1] \in Kinds /\ a[2] \in Boards /\ a[3] \in Fans /\ KeyOf[a[2]] \in Keys
BY AsksAssumption, CollabAssumption

LEMMA BoardType ==
  ASSUME CallType, NEW c \in Clients, At(c) # "idle"
  PROVE  /\ Board(c) \in Boards /\ KeyOf[Board(c)] \in Keys
         /\ Kind(c) \in Sorts \cup {"star"} /\ Star(c) \in Fans \X Boards
<1>1. call[c].ask \in Asks
  BY DEF CallType
<1> QED
  BY <1>1, AskType DEF Board, Kind, Star, Kinds

(* A call that moves on changes its own transaction and nothing else. *)
LEMMA SetType ==
  ASSUME CallType, NEW c \in Clients, NEW tx \in Txs, Set(c, tx), At(c) # "idle",
         tx.at # "idle",
         tx.at \in {"lock", "number", "insert"} => Kind(c) \in Sorts,
         tx.at \in {"read", "write", "count"} => Kind(c) = "star"
  PROVE  /\ CallType'
         /\ call'[c].tx = tx
         /\ \A d \in Clients : call'[d].ask = call[d].ask /\ (d # c => call'[d] = call[d])
<1>1. /\ call' \in [Clients -> [ask : Asks \cup {Free}, tx : Txs]]
      /\ call'[c].tx = tx
      /\ \A d \in Clients : call'[d].ask = call[d].ask /\ (d # c => call'[d] = call[d])
  BY DEF CallType, Set
<1> QED
  BY <1>1 DEF CallType, At, Kind

LEMMA EndedType ==
  ASSUME CallType, NEW c \in Clients, call' = EndedTx(c)
  PROVE  /\ CallType'
         /\ call'[c].tx = Idle
         /\ \A d \in Clients : d # c => call'[d] = call[d]
<1>1. Idle \in Txs /\ Idle.at = "idle"
  BY DEF Idle, Txs
<1>2. /\ call' \in [Clients -> [ask : Asks \cup {Free}, tx : Txs]]
      /\ call'[c].tx = Idle
      /\ \A d \in Clients : d # c => call'[d] = call[d]
  BY <1>1 DEF CallType, EndedTx
<1> QED
  BY <1>1, <1>2 DEF CallType, At, Kind

-----------------------------------------------------------------------------
(* The invariant says what the runs check. *)
LEMMA InvNumbers == CollabInv => NumberingIsSerial
<1> SUFFICES ASSUME CollabInv PROVE NumberingIsSerial
  OBVIOUS
<1>1. NumbersDense
  BY DEF NumbersDense, CollabInv, NumInv, Dense
<1>2. NoNumberClash
  <2> SUFFICES ASSUME NEW c \in Clients, At(c) = "insert"
               PROVE  Rivals(c) = {} /\ ~IndexClash(c)
    BY DEF NoNumberClash
  <2>1. Kind(c) \in Sorts /\ Board(c) \in Boards
    BY BoardType DEF CollabInv, CallType
  <2>2. Rivals(c) = {}
    <3> SUFFICES ASSUME NEW d \in Clients \ {c}, At(d) = "commit", Kind(d) = Kind(c),
                        Board(d) = Board(c)
                 PROVE  FALSE
      BY DEF Rivals
    <3>1. lock[KeyOf[Board(c)]] = c /\ lock[KeyOf[Board(d)]] = d
      BY <2>1 DEF CollabInv, NumInv, KeyHeld, Numbered
    <3> QED
      BY <3>1
  <2>3. ~IndexClash(c)
    <3> DEFINE n == Cardinality(docs[Board(c)][Kind(c)])
    <3>1. call[c].tx.no = n + 1 /\ Numbers(Board(c), Kind(c)) = 1..n
      BY <2>1 DEF CollabInv, NumInv, RowIsNext, HasRow, Dense
    <3>2. n \in Nat
      BY <2>1, FS_CardinalityType DEF CollabInv, NumInv, Dense
    <3> QED
      BY <3>1, <3>2 DEF IndexClash
  <2> QED
    BY <2>2, <2>3
<1>3. BasesInOrder
  BY DEF CollabInv, NumInv
<1> QED
  BY <1>1, <1>2, <1>3 DEF NumberingIsSerial

LEMMA InvStars == CollabInv => StarsCounted
BY DEF CollabInv, Counted, StarsCounted

-----------------------------------------------------------------------------
LEMMA InvInit == CollabInit => CollabInv
<1> SUFFICES ASSUME CollabInit PROVE CollabInv
  OBVIOUS
<1>1. CallType /\ DataType
  BY CollabAssumption DEF CollabInit, CallType, DataType, Txs, Idle, At
<1>2. \A b \in Boards, s \in Sorts : Dense(b, s)
  <2> SUFFICES ASSUME NEW b \in Boards, NEW s \in Sorts PROVE Dense(b, s)
    OBVIOUS
  <2>1. docs[b][s] = {}
    BY DEF CollabInit
  <2>2. Numbers(b, s) = {} /\ 1..0 = {}
    BY <2>1 DEF Numbers
  <2> QED
    BY <2>1, <2>2, FS_EmptySet DEF Dense
<1>3. NumInv
  <2>1. KeyHeld /\ RowIsNext
    BY DEF KeyHeld, RowIsNext, Numbered, HasRow, CollabInit, Idle, At
  <2>2. BasesAreOld /\ BasesInOrder
    BY DEF BasesAreOld, BasesInOrder, CollabInit, Sorts
  <2> QED
    BY <1>2, <2>1, <2>2 DEF NumInv
<1>4. StarHeldOnce
  BY DEF StarHeldOnce, CollabInit, Idle, At
<1>5. Counted
  <2> SUFFICES ASSUME NEW b \in Boards
               PROVE  IsFiniteSet(StarsOf(b)) /\ count[b] = Cardinality(StarsOf(b))
    BY DEF Counted
  <2>1. StarsOf(b) = {} /\ count[b] = 0
    BY DEF CollabInit, StarsOf
  <2> QED
    BY <2>1, FS_EmptySet
<1> QED
  BY <1>1, <1>3, <1>4, <1>5 DEF CollabInv

-----------------------------------------------------------------------------
(* Steps that write no table *)

\* Only the transaction of c and the locks may change.
Private(c) == /\ \A d \in Clients : d # c => call'[d] = call[d]
              /\ UNCHANGED <<docs, current, stars, count>>

LEMMA PrivateData ==
  ASSUME CollabInv, NEW c \in Clients, Private(c)
  PROVE  /\ Counted' /\ BasesAreOld' /\ BasesInOrder'
         /\ \A b \in Boards, s \in Sorts : Dense(b, s)'
BY DEF Private, CollabInv, Counted, StarsOf, NumInv, BasesAreOld, BasesInOrder, Dense, Numbers

(* Whoever gains neither a key nor a row nor a star keeps the invariant. *)
LEMMA PrivateQuiet ==
  ASSUME CollabInv, NEW c \in Clients, Private(c), CallType', DataType', KeyHeld',
         HasRow(c)' => /\ HasRow(c) /\ call'[c].ask = call[c].ask
                       /\ call'[c].tx.no = call[c].tx.no /\ call'[c].tx.base = call[c].tx.base,
         call'[c].tx.rows = 0, ~call'[c].tx.board, call'[c].tx.at # "count"
  PROVE  CollabInv'
<1>1. RowIsNext'
  <2> SUFFICES ASSUME NEW d \in Clients, HasRow(d)'
               PROVE  /\ call'[d].tx.no = Cardinality(docs'[Board(d)'][Kind(d)']) + 1
                      /\ Kind(d)' = "suggestion" =>
                           /\ call'[d].tx.base <= BaseVersion(d)'
                           /\ \A e \in docs'[Board(d)']["suggestion"] : e.base <= call'[d].tx.base
    BY DEF RowIsNext
  <2>1. HasRow(d) /\ Board(d)' = Board(d) /\ Kind(d)' = Kind(d)
        /\ call'[d].tx.no = call[d].tx.no /\ call'[d].tx.base = call[d].tx.base
    BY DEF Private, HasRow, At, Kind, Board
  <2>2. docs' = docs /\ BaseVersion(d)' = BaseVersion(d)
    BY <2>1 DEF Private, BaseVersion
  <2> QED
    BY <2>1, <2>2 DEF CollabInv, NumInv, RowIsNext
<1>2. StarHeldOnce'
  BY DEF Private, CollabInv, StarHeldOnce, At, Kind, Star
<1> QED
  BY <1>1, <1>2, PrivateData DEF CollabInv, NumInv

LEMMA AskKeeps ==
  ASSUME CollabInv, NEW c \in Clients, NEW a \in Asks, Ask(c, a)
  PROVE  CollabInv'
<1> DEFINE tx == [Idle EXCEPT !.at = IF a[1] = "star" THEN "read" ELSE "lock"]
<1>1. tx \in Txs /\ tx.at \in {"read", "lock"} /\ (tx.at = "read" <=> a[1] = "star")
      /\ tx.rows = 0 /\ ~tx.board
  BY DEF Txs, Idle
<1>2. a[1] \in Sorts \cup {"star"}
  BY AskType DEF Kinds
<1>3. /\ call' \in [Clients -> [ask : Asks \cup {Free}, tx : Txs]]
      /\ call'[c].tx = tx /\ call'[c].ask = a
      /\ \A d \in Clients : d # c => call'[d] = call[d]
  BY <1>1 DEF Ask, CollabInv, CallType
<1>4. CallType' /\ DataType'
  BY <1>1, <1>2, <1>3 DEF Ask, CallType, DataType, CollabInv, At, Kind
<1>5. Private(c)
  BY <1>3 DEF Ask, Private
<1>6. KeyHeld'
  BY <1>1, <1>3 DEF Ask, CollabInv, NumInv, KeyHeld, Numbered, At, Kind, Board
<1>7. ~HasRow(c)'
  BY <1>1, <1>3 DEF HasRow, At
<1> QED
  BY <1>1, <1>3, <1>4, <1>5, <1>6, <1>7, PrivateQuiet

LEMMA NoStarYet ==
  ASSUME CollabInv, NEW c \in Clients, At(c) \notin {"count", "commit"}
  PROVE  call[c].tx.rows = 0 /\ ~call[c].tx.board /\ call[c].tx \in Txs
BY DEF CollabInv, CallType, StarHeldOnce, Txs

LEMMA TakeNumberingKeeps ==
  ASSUME CollabInv, NEW c \in Clients, TakeNumbering(c)
  PROVE  CollabInv'
<1> DEFINE tx == [call[c].tx EXCEPT !.at = "number"]
<1>0. At(c) = "lock" /\ Kind(c) \in Sorts /\ KeyOf[Board(c)] \in Keys
  BY BoardType DEF TakeNumbering, CollabInv, CallType
<1>1. tx \in Txs /\ tx.at = "number" /\ tx.rows = 0 /\ ~tx.board /\ Set(c, tx)
  BY <1>0, NoStarYet DEF Txs, TakeNumbering
<1>2. /\ CallType' /\ call'[c].tx = tx
      /\ \A d \in Clients : call'[d].ask = call[d].ask /\ (d # c => call'[d] = call[d])
  BY <1>0, <1>1, SetType DEF CollabInv
<1>3. DataType'
  BY <1>0 DEF TakeNumbering, CollabInv, DataType
<1>4. KeyHeld'
  <2> SUFFICES ASSUME NEW d \in Clients, Numbered(d)' PROVE lock'[KeyOf[Board(d)']] = d
    BY DEF KeyHeld
  <2>1. CASE d = c
    BY <2>1, <1>0, <1>2 DEF TakeNumbering, Board, CollabInv, DataType
  <2>2. CASE d # c
    <3>1. Numbered(d) /\ Board(d)' = Board(d)
      BY <2>2, <1>2 DEF Numbered, At, Kind, Board
    <3>2. lock[KeyOf[Board(d)]] = d
      BY <3>1 DEF CollabInv, NumInv, KeyHeld
    <3>3. KeyOf[Board(d)] # KeyOf[Board(c)]
      BY <3>2, CollabAssumption DEF TakeNumbering, LockIsFree
    <3> QED
      BY <3>1, <3>2, <3>3, <1>0 DEF TakeNumbering, CollabInv, DataType
  <2> QED
    BY <2>1, <2>2
<1>5. ~HasRow(c)'
  BY <1>1, <1>2 DEF HasRow, At
<1>6. Private(c)
  BY <1>2 DEF TakeNumbering, Private
<1> QED
  BY <1>1, <1>2, <1>3, <1>4, <1>5, <1>6, PrivateQuiet

(* The next number is one past the last, and the base is the newest. *)
LEMMA ComputeRowKeeps ==
  ASSUME CollabInv, NEW c \in Clients, ComputeRow(c)
  PROVE  CollabInv'
<1> DEFINE base == IF Kind(c) = "suggestion" THEN BaseVersion(c) ELSE 0
           tx == [call[c].tx EXCEPT !.at = "insert", !.no = NextNumber(c), !.base = base]
           n == Cardinality(docs[Board(c)][Kind(c)])
<1>0. At(c) = "number" /\ Kind(c) \in Sorts /\ Board(c) \in Boards
  BY BoardType DEF ComputeRow, CollabInv, CallType
<1>1. n \in Nat /\ NextNumber(c) = n + 1 /\ NextNumber(c) \in Nat
  <2>1. Dense(Board(c), Kind(c))
    BY <1>0 DEF CollabInv, NumInv
  <2>2. n \in Nat /\ Numbers(Board(c), Kind(c)) = 1..n
    BY <2>1, FS_CardinalityType DEF Dense
  <2> QED
    BY <2>2, HighestOfDense DEF NextNumber
<1>2. base \in Nat
  BY <1>0 DEF BaseVersion, CollabInv, DataType
<1>3. tx \in Txs /\ tx.at = "insert" /\ tx.no = n + 1 /\ tx.base = base
      /\ tx.rows = 0 /\ ~tx.board /\ Set(c, tx)
  <2>1. Set(c, tx)
    BY DEF ComputeRow
  <2>2. call[c].tx \in Txs /\ call[c].tx.rows = 0 /\ ~call[c].tx.board
    BY <1>0, NoStarYet
  <2> HIDE DEF base, n
  <2>3. tx \in Txs /\ tx.at = "insert" /\ tx.no = NextNumber(c) /\ tx.base = base
        /\ tx.rows = 0 /\ ~tx.board
    BY <1>1, <1>2, <2>2 DEF Txs
  <2> QED
    BY <1>1, <2>1, <2>3
<1>4. /\ CallType' /\ call'[c].tx = tx
      /\ \A d \in Clients : call'[d].ask = call[d].ask /\ (d # c => call'[d] = call[d])
  <2> HIDE DEF tx
  <2> QED
    BY <1>0, <1>3, SetType DEF CollabInv
<1>5. DataType' /\ Private(c)
  BY <1>4 DEF ComputeRow, CollabInv, DataType, Private
<1>6. KeyHeld'
  BY <1>0, <1>4 DEF ComputeRow, CollabInv, NumInv, KeyHeld, Numbered, At, Kind, Board
<1>7. RowIsNext'
  <2> SUFFICES ASSUME NEW d \in Clients, HasRow(d)'
               PROVE  /\ call'[d].tx.no = Cardinality(docs[Board(d)'][Kind(d)']) + 1
                      /\ Kind(d)' = "suggestion" =>
                           /\ call'[d].tx.base <= BaseVersion(d)'
                           /\ \A e \in docs[Board(d)']["suggestion"] : e.base <= call'[d].tx.base
    BY DEF RowIsNext, ComputeRow
  <2>1. Board(d)' = Board(d) /\ Kind(d)' = Kind(d) /\ BaseVersion(d)' = BaseVersion(d)
    BY <1>4 DEF Board, Kind, BaseVersion, ComputeRow
  <2>2. CASE d = c
    <3>1. \A e \in docs[Board(c)]["suggestion"] : e.base <= BaseVersion(c)
      BY <1>0 DEF CollabInv, NumInv, BasesAreOld, BaseVersion
    <3>2. call'[d].tx.no = n + 1 /\ call'[d].tx.base = base
      BY <2>2, <1>3, <1>4
    <3>3. BaseVersion(c) \in Nat
      BY <1>0 DEF BaseVersion, CollabInv, DataType
    <3> QED
      BY <2>1, <2>2, <3>1, <3>2, <3>3
  <2>3. CASE d # c
    <3>1. HasRow(d) /\ call'[d] = call[d]
      BY <2>3, <1>4 DEF HasRow, At, Kind
    <3> QED
      BY <2>1, <3>1 DEF CollabInv, NumInv, RowIsNext
  <2> QED
    BY <2>2, <2>3
<1>8. StarHeldOnce'
  <2> HIDE DEF tx
  <2> QED
    BY <1>3, <1>4, <1>5 DEF CollabInv, StarHeldOnce, At, Kind, Star, Private
<1> QED
  BY <1>4, <1>5, <1>6, <1>7, <1>8, PrivateData DEF CollabInv, NumInv

LEMMA EnterIndexKeeps ==
  ASSUME CollabInv, NEW c \in Clients, EnterIndex(c)
  PROVE  CollabInv'
<1> DEFINE tx == [call[c].tx EXCEPT !.at = "commit"]
<1>0. At(c) = "insert" /\ Kind(c) \in Sorts
  BY DEF EnterIndex, CollabInv, CallType
<1>1. tx \in Txs /\ tx.at = "commit" /\ tx.rows = 0 /\ ~tx.board /\ Set(c, tx)
      /\ tx.no = call[c].tx.no /\ tx.base = call[c].tx.base
  BY <1>0, NoStarYet DEF Txs, EnterIndex
<1>2. /\ CallType' /\ call'[c].tx = tx
      /\ \A d \in Clients : call'[d].ask = call[d].ask /\ (d # c => call'[d] = call[d])
  <2> HIDE DEF tx
  <2> QED
    BY <1>0, <1>1, SetType DEF CollabInv
<1>3. DataType' /\ Private(c)
  BY <1>2 DEF EnterIndex, CollabInv, DataType, Private
<1>4. KeyHeld'
  BY <1>0, <1>2 DEF EnterIndex, CollabInv, NumInv, KeyHeld, Numbered, At, Kind, Board
<1>5. HasRow(c)
  BY <1>0 DEF HasRow
<1> QED
  BY <1>1, <1>2, <1>3, <1>4, <1>5, PrivateQuiet

LEMMA AbortKeeps ==
  ASSUME CollabInv, NEW c \in Clients, call' = EndedTx(c), lock' = Released(c),
         UNCHANGED <<docs, current, stars, count>>
  PROVE  CollabInv'
<1>1. CallType' /\ call'[c].tx = Idle /\ \A d \in Clients : d # c => call'[d] = call[d]
  BY EndedType DEF CollabInv
<1>2. DataType' /\ Private(c)
  BY <1>1 DEF CollabInv, DataType, Released, Private
<1>3. Idle.at = "idle" /\ Idle.rows = 0 /\ ~Idle.board
  BY DEF Idle
<1>4. KeyHeld'
  <2> SUFFICES ASSUME NEW d \in Clients, Numbered(d)' PROVE lock'[KeyOf[Board(d)']] = d
    BY DEF KeyHeld
  <2>1. d # c
    BY <1>1, <1>3 DEF Numbered, At
  <2>2. Numbered(d) /\ Board(d)' = Board(d) /\ At(d) # "idle"
    BY <2>1, <1>1 DEF Numbered, At, Kind, Board
  <2>3. lock[KeyOf[Board(d)]] = d /\ KeyOf[Board(d)] \in Keys
    BY <2>2, BoardType DEF CollabInv, NumInv, KeyHeld
  <2> QED
    BY <2>1, <2>2, <2>3 DEF Released
<1>5. ~HasRow(c)'
  BY <1>1, <1>3 DEF HasRow, At
<1> QED
  BY <1>1, <1>2, <1>3, <1>4, <1>5, PrivateQuiet

-----------------------------------------------------------------------------
(* Stars *)

LEMMA ReadStarKeeps ==
  ASSUME CollabInv, NEW c \in Clients, ReadStar(c)
  PROVE  CollabInv'
<1> DEFINE tx == [call[c].tx EXCEPT !.at = "write", !.had = Star(c) \in stars]
<1>0. At(c) = "read" /\ Kind(c) = "star"
  BY DEF ReadStar, CollabInv, CallType
<1>1. tx \in Txs /\ tx.at = "write" /\ tx.rows = 0 /\ ~tx.board /\ Set(c, tx)
  <2>1. call[c].tx \in Txs /\ call[c].tx.rows = 0 /\ ~call[c].tx.board
    BY <1>0, NoStarYet
  <2>2. (Star(c) \in stars) \in BOOLEAN
    OBVIOUS
  <2> QED
    BY <2>1, <2>2 DEF Txs, ReadStar
<1>2. /\ CallType' /\ call'[c].tx = tx
      /\ \A d \in Clients : call'[d].ask = call[d].ask /\ (d # c => call'[d] = call[d])
  <2> HIDE DEF tx
  <2> QED
    BY <1>0, <1>1, SetType DEF CollabInv
<1>3. DataType' /\ Private(c)
  BY <1>2 DEF ReadStar, CollabInv, DataType, Private
<1>4. KeyHeld'
  <2> HIDE DEF tx
  <2> QED
    BY <1>1, <1>2 DEF ReadStar, CollabInv, NumInv, KeyHeld, Numbered, At, Kind, Board
<1>5. ~HasRow(c)'
  BY <1>1, <1>2 DEF HasRow, At
<1> HIDE DEF tx
<1> QED
  BY <1>1, <1>2, <1>3, <1>4, <1>5, PrivateQuiet

(* A call that is and stays at a star touches nothing of the numbers. *)
LEMMA StarsLeaveNumbers ==
  ASSUME CollabInv, NEW c \in Clients, Kind(c) = "star",
         \A d \in Clients : d # c => call'[d] = call[d],
         At(c)' = "idle" \/ call'[c].ask = call[c].ask,
         UNCHANGED <<lock, docs, current>>
  PROVE  NumInv'
<1>1. \A d \in Clients : /\ Numbered(d)' => Numbered(d) /\ call'[d] = call[d]
                         /\ HasRow(d)' => HasRow(d) /\ call'[d] = call[d]
  BY KindsApart DEF Numbered, HasRow, At, Kind
<1>2. KeyHeld'
  BY <1>1 DEF CollabInv, NumInv, KeyHeld, Board
<1>3. RowIsNext'
  <2> SUFFICES ASSUME NEW d \in Clients, HasRow(d)'
               PROVE  /\ call'[d].tx.no = Cardinality(docs[Board(d)'][Kind(d)']) + 1
                      /\ Kind(d)' = "suggestion" =>
                           /\ call'[d].tx.base <= BaseVersion(d)'
                           /\ \A e \in docs[Board(d)']["suggestion"] : e.base <= call'[d].tx.base
    BY DEF RowIsNext
  <2>1. HasRow(d) /\ call'[d] = call[d]
    BY <1>1
  <2>2. Board(d)' = Board(d) /\ Kind(d)' = Kind(d) /\ BaseVersion(d)' = BaseVersion(d)
    BY <2>1 DEF Board, Kind, BaseVersion
  <2> QED
    BY <2>1, <2>2 DEF CollabInv, NumInv, RowIsNext
<1>4. BasesAreOld' /\ BasesInOrder' /\ \A b \in Boards, s \in Sorts : Dense(b, s)'
  BY DEF CollabInv, NumInv, BasesAreOld, BasesInOrder, Dense, Numbers
<1> QED
  BY <1>2, <1>3, <1>4 DEF NumInv

(* A write that affects a row is the only open one of its star. *)
LEMMA WriteStarKeeps ==
  ASSUME CollabInv, NEW c \in Clients, WriteStar(c)
  PROVE  CollabInv'
<1> DEFINE at == IF Moves(c) THEN "count" ELSE "commit"
           tx == [call[c].tx EXCEPT !.at = at, !.rows = RowsAffected(c)]
<1>0. At(c) = "write" /\ Kind(c) = "star"
  BY DEF WriteStar, CollabInv, CallType
<1>1. RowsAffected(c) \in {0, 1} /\ (RowsAffected(c) = 1 <=> call[c].tx.had = (Star(c) \in stars))
      /\ at = IF RowsAffected(c) = 1 THEN "count" ELSE "commit"
  BY DEF RowsAffected, Moves
<1>2. tx \in Txs /\ tx.at = at /\ tx.rows = RowsAffected(c) /\ ~tx.board /\ Set(c, tx)
      /\ tx.had = call[c].tx.had
  <2>1. call[c].tx \in Txs /\ ~call[c].tx.board
    BY <1>0, NoStarYet
  <2>2. Set(c, tx)
    BY DEF WriteStar
  <2>3. at \in {"count", "commit"}
    OBVIOUS
  <2> HIDE DEF at
  <2>4. tx \in Txs /\ tx.at = at /\ tx.rows = RowsAffected(c) /\ ~tx.board
        /\ tx.had = call[c].tx.had
    BY <1>1, <2>1, <2>3 DEF Txs
  <2> QED
    BY <2>2, <2>4
<1>3. at \in {"count", "commit"}
  OBVIOUS
<1> HIDE DEF at, tx
<1>4. /\ CallType' /\ call'[c].tx = tx
      /\ \A d \in Clients : call'[d].ask = call[d].ask /\ (d # c => call'[d] = call[d])
  BY <1>0, <1>2, <1>3, SetType DEF CollabInv
<1>5. DataType' /\ Private(c)
  BY <1>4 DEF WriteStar, CollabInv, DataType, Private
<1>6. NumInv'
  BY <1>0, <1>4, StarsLeaveNumbers DEF WriteStar
<1>7. StarHeldOnce'
  <2>1. \A d \in Clients : Star(d)' = Star(d) /\ Kind(d)' = Kind(d)
    BY <1>4 DEF Star, Kind
  <2>2. ASSUME NEW d \in Clients, d # c, call[d].tx.rows = 1, RowsAffected(c) = 1
        PROVE  Star(d) # Star(c)
    <3> SUFFICES ASSUME Star(d) = Star(c) PROVE FALSE
      OBVIOUS
    <3>1. StarHeld(c)
      BY <2>2 DEF StarHeld
    <3>2. call[c].tx.had /\ Star(c) \notin stars
      BY <3>1 DEF WriteStar
    <3> QED
      BY <2>2, <3>2, <1>1
  <2>3. \A d \in Clients : d # c => At(d)' = At(d)
    BY <1>4 DEF At
  <2>4. At(c)' = at /\ stars' = stars
    BY <1>2, <1>4 DEF At, WriteStar
  <2> QED
    BY <1>0, <1>1, <1>2, <1>3, <1>4, <2>1, <2>2, <2>3, <2>4 DEF StarHeldOnce, CollabInv
<1> QED
  BY <1>4, <1>5, <1>6, <1>7, PrivateData DEF CollabInv

LEMMA MoveCountKeeps ==
  ASSUME CollabInv, NEW c \in Clients, MoveCount(c)
  PROVE  CollabInv'
<1> DEFINE tx == [call[c].tx EXCEPT !.at = "commit", !.board = TRUE]
<1>0. At(c) = "count" /\ Kind(c) = "star" /\ call[c].tx.rows = 1 /\ call[c].tx \in Txs
  BY DEF MoveCount, CollabInv, CallType, StarHeldOnce
<1>1. tx \in Txs /\ tx.at = "commit" /\ tx.rows = 1 /\ tx.board /\ Set(c, tx)
      /\ tx.had = call[c].tx.had
  BY <1>0 DEF Txs, MoveCount
<1> HIDE DEF tx
<1>2. /\ CallType' /\ call'[c].tx = tx
      /\ \A d \in Clients : call'[d].ask = call[d].ask /\ (d # c => call'[d] = call[d])
  BY <1>0, <1>1, SetType DEF CollabInv
<1>3. DataType' /\ Private(c)
  BY <1>2 DEF MoveCount, CollabInv, DataType, Private
<1>4. NumInv'
  BY <1>0, <1>2, StarsLeaveNumbers DEF MoveCount
<1>5. StarHeldOnce'
  <2>1. \A d \in Clients : Star(d)' = Star(d) /\ Kind(d)' = Kind(d) /\ (d # c => At(d)' = At(d))
    BY <1>2 DEF Star, Kind, At
  <2>2. At(c)' = "commit" /\ stars' = stars
    BY <1>1, <1>2 DEF At, MoveCount
  <2> QED
    BY <1>0, <1>1, <1>2, <2>1, <2>2 DEF StarHeldOnce, CollabInv
<1> QED
  BY <1>2, <1>3, <1>4, <1>5, PrivateData DEF CollabInv

(* The counter moves with the star, and only with a star that moved. *)
LEMMA CommitStarKeeps ==
  ASSUME CollabInv, NEW c \in Clients, CommitStar(c)
  PROVE  CollabInv'
<1> DEFINE tx == call[c].tx
           b == Board(c)
<1>0. /\ At(c) = "commit" /\ Kind(c) = "star" /\ b \in Boards /\ Star(c) \in Fans \X Boards
      /\ tx \in Txs /\ Star(c)[2] = b
  BY BoardType DEF CommitStar, CollabInv, CallType, Star, Board
<1>1. CallType' /\ call'[c].tx = Idle /\ \A d \in Clients : d # c => call'[d] = call[d]
  BY EndedType DEF CollabInv, CommitStar
<1>2. /\ tx.rows = 1 => tx.had = (Star(c) \in stars) /\ tx.board
      /\ tx.rows = 0 => ~tx.board
      /\ tx.rows \in {0, 1}
  BY <1>0 DEF CollabInv, StarHeldOnce, Txs
<1>3. NumInv'
  <2>1. At(c)' = "idle"
    BY <1>1 DEF At, Idle
  <2> QED
    BY <1>0, <1>1, <2>1, StarsLeaveNumbers DEF CommitStar
<1>4. ASSUME NEW a \in Boards
      PROVE  IsFiniteSet(StarsOf(a)') /\ count'[a] \in Nat /\ count'[a] = Cardinality(StarsOf(a)')
  <2>1. /\ IsFiniteSet(StarsOf(a)) /\ count[a] = Cardinality(StarsOf(a))
        /\ count \in [Boards -> Nat]
    BY DEF CollabInv, Counted, DataType
  <2>2. CASE tx.rows = 0 \/ a # b
    <3>1. StarsOf(a)' = StarsOf(a)
      BY <2>2, <1>0, <1>2 DEF CommitStar, StarsOf
    <3>2. count'[a] = count[a]
      BY <2>1, <2>2, <1>2 DEF CommitStar
    <3> QED
      BY <2>1, <3>1, <3>2
  <2>3. CASE tx.rows = 1 /\ a = b /\ tx.had
    <3>1. Star(c) \in StarsOf(a) /\ StarsOf(a)' = StarsOf(a) \ {Star(c)}
      BY <2>3, <1>0, <1>2 DEF CommitStar, StarsOf
    <3>2. count'[a] = Lowered(count[a])
      BY <2>1, <2>3, <1>2 DEF CommitStar
    <3>3. /\ IsFiniteSet(StarsOf(a)') /\ Cardinality(StarsOf(a)') = Cardinality(StarsOf(a)) - 1
          /\ Cardinality(StarsOf(a)') \in Nat
      BY <2>1, <3>1, FS_RemoveElement, FS_CardinalityType
    <3> QED
      BY <2>1, <3>2, <3>3 DEF Lowered
  <2>4. CASE tx.rows = 1 /\ a = b /\ ~tx.had
    <3>1. Star(c) \notin StarsOf(a) /\ StarsOf(a)' = StarsOf(a) \cup {Star(c)}
      BY <2>4, <1>0, <1>2 DEF CommitStar, StarsOf
    <3>2. count'[a] = count[a] + 1
      BY <2>1, <2>4, <1>2 DEF CommitStar
    <3>3. IsFiniteSet(StarsOf(a)') /\ Cardinality(StarsOf(a)') = Cardinality(StarsOf(a)) + 1
      BY <2>1, <3>1, FS_AddElement
    <3> QED
      BY <2>1, <3>2, <3>3
  <2> QED
    BY <1>2, <2>2, <2>3, <2>4
<1>5. Counted'
  BY <1>4 DEF Counted
<1>6. DataType'
  <2>1. count' \in [Boards -> Nat]
    <3>1. count' = [a \in Boards |-> count'[a]]
      BY DEF CommitStar, CollabInv, DataType
    <3> QED
      BY <1>4, <3>1
  <2> QED
    BY <1>0, <2>1 DEF CommitStar, CollabInv, DataType
<1>7. StarHeldOnce'
  <2>1. call'[c].tx.rows = 0 /\ ~call'[c].tx.board /\ At(c)' # "count"
    BY <1>1 DEF Idle, At
  <2>2. ASSUME NEW d \in Clients, d # c, call[d].tx.rows = 1
        PROVE  (Star(d) \in stars') = (Star(d) \in stars)
    BY <2>2, <1>2 DEF CommitStar, CollabInv, StarHeldOnce
  <2>3. \A d \in Clients : d # c => Star(d)' = Star(d) /\ Kind(d)' = Kind(d) /\ At(d)' = At(d)
    BY <1>1 DEF Star, Kind, At
  <2> QED
    BY <1>1, <2>1, <2>2, <2>3 DEF StarHeldOnce, CollabInv
<1> QED
  BY <1>1, <1>3, <1>5, <1>6, <1>7 DEF CollabInv

-----------------------------------------------------------------------------
(* Tasks and proposals *)

(* The committed row takes the next number; the next caller had no row yet. *)
LEMMA CommitRowKeeps ==
  ASSUME CollabInv, NEW c \in Clients, CommitRow(c)
  PROVE  CollabInv'
<1>b. PICK b : b = Board(c)
  OBVIOUS
<1>s. PICK s : s = Kind(c)
  OBVIOUS
<1>n. PICK n : n = Cardinality(docs[b][s])
  OBVIOUS
<1>r. PICK row : row = [no |-> call[c].tx.no, base |-> call[c].tx.base]
  OBVIOUS
<1> USE <1>b, <1>s, <1>r
<1>0. /\ At(c) = "commit" /\ s \in Sorts /\ b \in Boards /\ KeyOf[b] \in Keys
      /\ call[c].tx \in Txs /\ row \in [no : Nat, base : Nat]
  BY BoardType DEF CommitRow, CollabInv, CallType, Txs
<1>1. CallType' /\ call'[c].tx = Idle /\ \A d \in Clients : d # c => call'[d] = call[d]
  BY EndedType DEF CollabInv, CommitRow
<1>2. /\ docs'[b][s] = docs[b][s] \cup {row}
      /\ \A a \in Boards, z \in Sorts : (a # b \/ z # s) => docs'[a][z] = docs[a][z]
      /\ docs' \in [Boards -> [Sorts -> SUBSET [no : Nat, base : Nat]]]
  BY <1>0 DEF CommitRow, CollabInv, DataType
<1>3. DataType'
  BY <1>2 DEF CommitRow, CollabInv, DataType, Released
<1>4. Numbered(c) /\ HasRow(c) /\ lock[KeyOf[b]] = c
  BY <1>0 DEF Numbered, HasRow, CollabInv, NumInv, KeyHeld
<1>5. /\ n \in Nat /\ IsFiniteSet(docs[b][s]) /\ Numbers(b, s) = 1..n
      /\ \A d, e \in docs[b][s] : d.no = e.no => d = e
  BY <1>0, <1>n, FS_CardinalityType DEF CollabInv, NumInv, Dense
<1>6. /\ row.no = n + 1
      /\ s = "suggestion" => /\ row.base <= current[b]
                             /\ \A d \in docs[b]["suggestion"] : d.base <= row.base
  BY <1>4, <1>n DEF CollabInv, NumInv, RowIsNext, BaseVersion
<1>7. \A d \in docs[b][s] : d.no \in 1..n
  BY <1>5 DEF Numbers
<1>8. ASSUME NEW a \in Boards, NEW z \in Sorts PROVE Dense(a, z)'
  <2>1. CASE a = b /\ z = s
    <3>1. row \notin docs[b][s]
      BY <1>5, <1>6, <1>7
    <3>2. IsFiniteSet(docs'[b][s]) /\ Cardinality(docs'[b][s]) = n + 1
      <4> DEFINE old == docs[b][s]
      <4>1. IsFiniteSet(old) /\ row \notin old /\ Cardinality(old) = n
        BY <1>5, <1>n, <3>1
      <4>2. docs'[b][s] = old \cup {row}
        BY <1>2
      <4> HIDE <1>b, <1>s, <1>r DEF old
      <4>3. IsFiniteSet(old \cup {row}) /\ Cardinality(old \cup {row}) = n + 1
        BY <4>1, FS_AddElement
      <4> QED
        BY <4>2, <4>3
    <3>3. Numbers(b, s)' = 1..(n + 1)
      <4>1. Numbers(b, s)' = Numbers(b, s) \cup {row.no}
        BY <1>2 DEF Numbers
      <4> QED
        BY <4>1, <1>5, <1>6
    <3>4. \A d, e \in docs'[b][s] : d.no = e.no => d = e
      BY <1>2, <1>5, <1>6, <1>7
    <3> QED
      BY <2>1, <3>2, <3>3, <3>4 DEF Dense
  <2>2. CASE a # b \/ z # s
    BY <2>2, <1>2 DEF Dense, Numbers, CollabInv, NumInv
  <2> QED
    BY <2>1, <2>2
<1>9. BasesAreOld' /\ BasesInOrder'
  <2> SUFFICES ASSUME NEW a \in Boards
               PROVE  /\ \A d \in docs'[a]["suggestion"] : d.base <= current'[a]
                      /\ \A d, e \in docs'[a]["suggestion"] : d.no < e.no => d.base <= e.base
    BY DEF BasesAreOld, BasesInOrder
  <2>1. /\ \A d \in docs[a]["suggestion"] : d.base <= current[a]
        /\ \A d, e \in docs[a]["suggestion"] : d.no < e.no => d.base <= e.base
    BY DEF CollabInv, NumInv, BasesAreOld, BasesInOrder
  <2>2. current'[a] = current[a] /\ "suggestion" \in Sorts
    BY DEF CommitRow, Sorts
  <2>3. CASE a = b /\ s = "suggestion"
    <3>1. \A e \in docs[b]["suggestion"] : ~(row.no < e.no)
      BY <2>3, <1>5, <1>6, <1>7
    <3> QED
      BY <2>1, <2>2, <2>3, <3>1, <1>2, <1>5, <1>6, SMTT(60)
  <2>4. CASE a # b \/ s # "suggestion"
    BY <2>1, <2>2, <2>4, <1>2
  <2> QED
    BY <2>3, <2>4
<1>10. ASSUME NEW d \in Clients, Numbered(d)'
       PROVE  /\ d # c /\ Numbered(d) /\ call'[d] = call[d]
              /\ KeyOf[Board(d)] # KeyOf[b] /\ Board(d) # b
              /\ lock[KeyOf[Board(d)]] = d /\ lock'[KeyOf[Board(d)]] = d
  <2>1. d # c
    BY <1>10, <1>1 DEF Numbered, At, Idle
  <2>2. Numbered(d) /\ call'[d] = call[d] /\ At(d) # "idle"
    BY <2>1, <1>1, <1>10 DEF Numbered, At, Kind
  <2>3. lock[KeyOf[Board(d)]] = d /\ KeyOf[Board(d)] \in Keys
    BY <2>2, BoardType DEF CollabInv, NumInv, KeyHeld
  <2> QED
    BY <2>1, <2>2, <2>3, <1>4 DEF CommitRow, Released
<1>11. KeyHeld'
  BY <1>10 DEF KeyHeld, Board
<1>12. RowIsNext'
  <2> SUFFICES ASSUME NEW d \in Clients, HasRow(d)'
               PROVE  /\ call'[d].tx.no = Cardinality(docs'[Board(d)'][Kind(d)']) + 1
                      /\ Kind(d)' = "suggestion" =>
                           /\ call'[d].tx.base <= BaseVersion(d)'
                           /\ \A e \in docs'[Board(d)']["suggestion"] : e.base <= call'[d].tx.base
    BY DEF RowIsNext
  <2>1. Numbered(d)'
    BY DEF HasRow, Numbered
  <2>2. /\ d # c /\ call'[d] = call[d] /\ Board(d) # b /\ HasRow(d)
        /\ Board(d)' = Board(d) /\ Kind(d)' = Kind(d)
    BY <2>1, <1>10 DEF HasRow, At, Kind, Board
  <2>3. Board(d) \in Boards /\ Kind(d) \in Sorts /\ BaseVersion(d)' = BaseVersion(d)
    BY <2>2, BoardType DEF CollabInv, HasRow, BaseVersion, CommitRow
  <2>4. docs'[Board(d)][Kind(d)] = docs[Board(d)][Kind(d)]
    BY <2>2, <2>3, <1>2
  <2> QED
    BY <2>2, <2>3, <2>4 DEF CollabInv, NumInv, RowIsNext
<1>13. StarHeldOnce' /\ Counted'
  <2>1. call'[c].tx.rows = 0 /\ ~call'[c].tx.board /\ At(c)' # "count"
    BY <1>1 DEF Idle, At
  <2>2. stars' = stars /\ count' = count
    BY DEF CommitRow
  <2>3. \A d \in Clients : d # c => Star(d)' = Star(d) /\ Kind(d)' = Kind(d) /\ At(d)' = At(d)
    BY <1>1 DEF Star, Kind, At
  <2> QED
    BY <1>1, <2>1, <2>2, <2>3, SMTT(60) DEF StarHeldOnce, CollabInv, Counted, StarsOf
<1> QED
  BY <1>1, <1>3, <1>8, <1>9, <1>11, <1>12, <1>13 DEF CollabInv, NumInv

LEMMA PublishKeeps ==
  ASSUME CollabInv, NEW b \in Boards, Publish(b)
  PROVE  CollabInv'
<1>1. \A a \in Boards : current[a] \in Nat /\ current'[a] \in Nat /\ current[a] <= current'[a]
  BY DEF Publish, CollabInv, DataType
<1>2. CallType' /\ DataType'
  BY DEF Publish, CollabInv, CallType, DataType, At, Kind
<1>3. KeyHeld' /\ BasesInOrder' /\ Counted' /\ StarHeldOnce' /\ \A a \in Boards, s \in Sorts : Dense(a, s)'
  BY ZenonT(60) DEF Publish, CollabInv, NumInv, KeyHeld, Numbered, BasesInOrder, Counted, StarsOf, StarHeldOnce,
         Dense, Numbers, At, Kind, Board, Star
<1>4. BasesAreOld'
  <2> SUFFICES ASSUME NEW a \in Boards, NEW d \in docs[a]["suggestion"]
               PROVE  d.base <= current'[a]
    BY DEF BasesAreOld, Publish
  <2>1. d.base \in Nat /\ d.base <= current[a]
    BY KindsApart DEF CollabInv, NumInv, BasesAreOld, DataType
  <2> QED
    BY <2>1, <1>1
<1>5. RowIsNext'
  <2> SUFFICES ASSUME NEW c \in Clients, HasRow(c)
               PROVE  /\ call[c].tx.no = Cardinality(docs[Board(c)][Kind(c)]) + 1
                      /\ Kind(c) = "suggestion" =>
                           /\ call[c].tx.base <= BaseVersion(c)'
                           /\ \A d \in docs[Board(c)]["suggestion"] : d.base <= call[c].tx.base
    BY DEF RowIsNext, HasRow, Publish, At, Kind, Board
  <2>1. PICK a \in Boards : a = Board(c)
    BY BoardType DEF HasRow, CollabInv
  <2>2. call[c].tx.base \in Nat /\ BaseVersion(c) = current[a] /\ BaseVersion(c)' = current'[a]
    BY <2>1 DEF CollabInv, CallType, Txs, BaseVersion, Board, Publish
  <2>3. Kind(c) = "suggestion" => call[c].tx.base <= current[a]
    BY <2>2 DEF CollabInv, NumInv, RowIsNext
  <2>4. Kind(c) = "suggestion" => call[c].tx.base <= current'[a]
    BY <2>2, <2>3, <1>1
  <2> QED
    BY <2>2, <2>4 DEF CollabInv, NumInv, RowIsNext
<1> QED
  BY <1>2, <1>3, <1>4, <1>5 DEF CollabInv, NumInv

-----------------------------------------------------------------------------
LEMMA InvNext == CollabInv /\ [CollabNext]_collabVars => CollabInv'
<1> SUFFICES ASSUME CollabInv, [CollabNext]_collabVars PROVE CollabInv'
  OBVIOUS
<1>1. ASSUME NEW c \in Clients, ClientStep(c) PROVE CollabInv'
  BY <1>1, TakeNumberingKeeps, ComputeRowKeeps, EnterIndexKeeps, CommitRowKeeps,
     ReadStarKeeps, WriteStarKeeps, MoveCountKeeps, CommitStarKeeps DEF ClientStep
<1>2. ASSUME NEW c \in Clients, Abort(c) PROVE CollabInv'
  BY <1>2, AbortKeeps DEF Abort
<1>3. ASSUME NEW c \in Clients, NEW a \in Asks, Ask(c, a) PROVE CollabInv'
  BY <1>3, AskKeeps
<1>4. ASSUME NEW b \in Boards, Publish(b) PROVE CollabInv'
  BY <1>4, PublishKeeps
<1>5. CASE UNCHANGED collabVars
  <2>1. CallType' /\ DataType' /\ StarHeldOnce' /\ Counted'
    BY <1>5 DEF collabVars, CollabInv, CallType, DataType, StarHeldOnce, Counted, StarsOf, At, Kind, Star
  <2>2. NumInv'
    BY <1>5 DEF collabVars, CollabInv, NumInv, KeyHeld, RowIsNext, BasesAreOld, BasesInOrder, Dense,
                Numbers, Numbered, HasRow, BaseVersion, At, Kind, Board
  <2> QED
    BY <2>1, <2>2 DEF CollabInv
<1> QED
  BY <1>1, <1>2, <1>3, <1>4, <1>5 DEF CollabNext

(* Keys, the numbers calls carry, and the stars they have written.          *)
THEOREM CollabInvariance == CollabSpec => []CollabInv
BY InvInit, InvNext, PTL DEF CollabSpec

(* open_issue and create_suggestion: numbers without gap or repetition, no  *)
(* call refused for another's number, and a later proposal never on an      *)
(* older version, for any number of concurrent calls and rollbacks.         *)
THEOREM NumbersAreSerial == CollabSpec => []NumberingIsSerial
BY CollabInvariance, InvNumbers, PTL

(* toggle_star: stars_count is the number of stars, whoever presses at once. *)
THEOREM CounterIsExact == CollabSpec => []StarsCounted
BY CollabInvariance, InvStars, PTL
=============================================================================
