----------------------------- MODULE GameProof -----------------------------
(***************************************************************************)
(* Proofs about Game: every position of a game is a position of chess; what*)
(* the board and the king-pawn cache keep from move to move is what they   *)
(* would compute from nothing; the moves the search plays are the legal    *)
(* moves of ChessRules; and the text of a move names that move, once.      *)
(*                                                                         *)
(* The parts, in order: squares, keys and pieces; what each kind of move   *)
(* does to the board; attacks; positions stay positions; the generators;   *)
(* the cache; the invariant; the board shown square by square, and its     *)
(* attacks, pawns, pieces and castling against the rules; the move text.   *)
(***************************************************************************)
EXTENDS Game, FiniteSetTheorems, TLAPS

----------------------------------------------------------------------------
(* Players, types and squares.                                             *)

LEMMA PieceTypesAre ==
  PieceTypes = {"Pawn", "Knight", "Bishop", "Rook", "Queen", "King"}
BY DEF PieceTypes, PieceOrder

LEMMA PlayersAre ==
  ASSUME NEW p \in Players
  PROVE  /\ nextPlayer(p) \in Players /\ nextPlayer(p) # p
         /\ nextPlayer(nextPlayer(p)) = p
         /\ \A q \in Players : q = p \/ q = nextPlayer(p)
BY DEF Players, nextPlayer

LEMMA SquaresAre ==
  ASSUME NEW pos \in Squares
  PROVE  /\ Row(pos) \in 0..7 /\ File(pos) \in 0..7
         /\ pos = At(Row(pos), File(pos)) /\ pos = 8 * Row(pos) + File(pos)
BY DEF Squares, Row, File, At

LEMMA AtIsASquare ==
  ASSUME NEW r \in 0..7, NEW f \in 0..7
  PROVE  At(r, f) \in Squares /\ Row(At(r, f)) = r /\ File(At(r, f)) = f
BY DEF Squares, Row, File, At

LEMMA MasksAre ==
  ASSUME NEW pos \in Squares
  PROVE  /\ \A r \in 0..7 : pos \in RowMask[r] <=> Row(pos) = r
         /\ pos \in aFile <=> File(pos) = 0
         /\ pos \in hFile <=> File(pos) = 7
BY DEF RowMask, aFile, hFile, FileMask

\* The squares in front of a pawn and beside them.
LEMMA StepsAhead ==
  ASSUME NEW p \in Players, NEW pos \in Squares, relativeRow(p, pos) \in 0..6
  PROVE  /\ pos + Forward(p) \in Squares
         /\ relativeRow(p, pos + Forward(p)) = relativeRow(p, pos) + 1
         /\ File(pos + Forward(p)) = File(pos)
         /\ File(pos) # 0 => /\ pos + (Forward(p) - 1) \in Squares
                             /\ relativeRow(p, pos + (Forward(p) - 1)) = relativeRow(p, pos) + 1
                             /\ File(pos + (Forward(p) - 1)) = File(pos) - 1
         /\ File(pos) # 7 => /\ pos + (Forward(p) + 1) \in Squares
                             /\ relativeRow(p, pos + (Forward(p) + 1)) = relativeRow(p, pos) + 1
                             /\ File(pos + (Forward(p) + 1)) = File(pos) + 1
         /\ relativeRow(p, pos) = 1 => /\ pos + 2 * Forward(p) \in Squares
                                       /\ relativeRow(p, pos + 2 * Forward(p)) = 3
<1>1. CASE p = "White"
  BY <1>1 DEF Squares, Row, File, relativeRow, Forward
<1>2. CASE p = "Black"
  BY <1>2 DEF Squares, Row, File, relativeRow, Forward
<1> QED
  BY <1>1, <1>2 DEF Players

LEMMA RelativeRows ==
  ASSUME NEW p \in Players, NEW pos \in Squares
  PROVE  /\ relativeRow(p, pos) \in 0..7
         /\ relativeRow(nextPlayer(p), pos) = 7 - relativeRow(p, pos)
         /\ Row(pos) \in {0, 7} <=> relativeRow(p, pos) \in {0, 7}
BY SquaresAre DEF relativeRow, nextPlayer, Players

LEMMA Shifted ==
  ASSUME NEW squares, NEW n, NEW to
  PROVE  to \in Shift(squares, n) <=> to \in Squares /\ \E pos \in squares : to = pos + n
BY DEF Shift

LEMMA PromotionFlags ==
  ASSUME NEW t \in {"Queen", "Knight", "Bishop", "Rook"}, NEW c \in BOOLEAN
  PROVE  /\ promotionFlag(t, c) \in 8..15
         /\ (promotionFlag(t, c) \div 4) % 2 = 1 <=> c
         /\ promotionFlag(t, c) \div 8 = 1
         /\ promotionFlag(t, c) \notin {0, 1, 2, 3, 4, 5}
         /\ \A u \in {"Queen", "Knight", "Bishop", "Rook"}, d \in BOOLEAN :
              promotionFlag(u, d) = promotionFlag(t, c) => u = t /\ d = c
BY DEF promotionFlag, Flag

----------------------------------------------------------------------------
(* Hashes are sets of keys, and a key added twice is gone.                 *)

PieceSets == [Players -> [PieceTypes -> SUBSET Squares]]

LEMMA XorIs ==
  ASSUME NEW hash, NEW key
  PROVE  \A k : k \in Xor(hash, key) <=> IF k = key THEN key \notin hash ELSE k \in hash
BY DEF Xor

LEMMA XorOfKeys ==
  ASSUME NEW hash \in SUBSET Keys, NEW key \in Keys
  PROVE  Xor(hash, key) \in SUBSET Keys
BY DEF Xor

LEMMA XorIsUndone ==
  ASSUME NEW hash, NEW key
  PROVE  Xor(Xor(hash, key), key) = hash
BY DEF Xor

\* No two keys of different kinds are the same.
LEMMA KeysDiffer ==
  /\ \A p, t, pos, q, u, at :
       PieceKey(p, t, pos) = PieceKey(q, u, at) <=> p = q /\ t = u /\ pos = at
  /\ \A p, t, pos, at : PieceKey(p, t, pos) # EnpessantKey(at)
  /\ \A p, t, pos, rights : PieceKey(p, t, pos) # CastlingKey(rights)
  /\ \A p, t, pos : PieceKey(p, t, pos) # PlayerKey
  /\ \A pos, at : EnpessantKey(pos) = EnpessantKey(at) <=> pos = at
  /\ \A pos, rights : EnpessantKey(pos) # CastlingKey(rights)
  /\ \A pos : EnpessantKey(pos) # PlayerKey
  /\ \A rights, left : CastlingKey(rights) = CastlingKey(left) <=> rights = left
  /\ \A rights : CastlingKey(rights) # PlayerKey
BY DEF PieceKey, EnpessantKey, CastlingKey, PlayerKey

LEMMA KeysAre ==
  /\ \A p \in Players, t \in PieceTypes, pos \in Squares : PieceKey(p, t, pos) \in Keys
  /\ \A pos \in Squares : EnpessantKey(pos) \in Keys
  /\ \A rights \in SUBSET CastlingRights : CastlingKey(rights) \in Keys
  /\ PlayerKey \in Keys
BY DEF Keys

LEMMA PieceKeysAre ==
  ASSUME NEW b, NEW types
  PROVE  \A k : k \in PieceKeys(b, types) <=>
           \E p \in Players, t \in types : \E pos \in b.pieces[p][t] : k = PieceKey(p, t, pos)
<1> DEFINE Of(p, t) == {PieceKey(p, t, pos) : pos \in b.pieces[p][t]}
<1>1. PieceKeys(b, types) = UNION {Of(p, t) : p \in Players, t \in types}
  BY DEF PieceKeys
<1>2. \A p, t, k : k \in Of(p, t) <=> \E pos \in b.pieces[p][t] : k = PieceKey(p, t, pos)
  OBVIOUS
<1> HIDE DEF Of
<1> QED
  BY <1>1, <1>2

LEMMA PieceKeyIn ==
  ASSUME NEW b, NEW types, NEW p \in Players, NEW t, NEW pos
  PROVE  PieceKey(p, t, pos) \in PieceKeys(b, types) <=> t \in types /\ pos \in b.pieces[p][t]
BY PieceKeysAre, KeysDiffer

LEMMA OtherKeysIn ==
  ASSUME NEW b, NEW types
  PROVE  /\ \A pos : EnpessantKey(pos) \notin PieceKeys(b, types)
         /\ \A rights : CastlingKey(rights) \notin PieceKeys(b, types)
         /\ PlayerKey \notin PieceKeys(b, types)
BY PieceKeysAre, KeysDiffer

\* What a hash is made of.
LEMMA HashIs ==
  ASSUME NEW b
  PROVE  \A k : k \in generateHash(b) <=>
           \/ k \in PieceKeys(b, PieceTypes)
           \/ k = CastlingKey(b.castlingRights)
           \/ b.enPessant # NoPosition /\ k = EnpessantKey(b.enPessant)
           \/ b.player = "Black" /\ k = PlayerKey
BY DEF generateHash

LEMMA HashesAreKeys ==
  ASSUME NEW b \in Boards
  PROVE  generateHash(b) \in SUBSET Keys /\ generateKingPawnHash(b) \in SUBSET Keys
<1>1. \A types \in SUBSET PieceTypes : PieceKeys(b, types) \subseteq Keys
  BY KeysAre, PieceKeysAre DEF Boards
<1>2. generateKingPawnHash(b) \in SUBSET Keys
  BY <1>1, PieceTypesAre DEF generateKingPawnHash
<1>3. ASSUME NEW k, k \in generateHash(b) PROVE k \in Keys
  BY <1>1, <1>3, HashIs, KeysAre DEF Boards
<1> QED
  BY <1>2, <1>3

----------------------------------------------------------------------------
(* Putting pieces on squares and taking them away.                         *)

LEMMA BoardFields ==
  ASSUME NEW b \in Boards
  PROVE  /\ b.pieces \in PieceSets
         /\ b.occupation \in [Players -> SUBSET Squares]
         /\ b.attacks \in [Players -> SUBSET Squares]
         /\ b.castlingRights \in SUBSET CastlingRights /\ b.player \in Players
         /\ b.enPessant \in Squares \cup {NoPosition}
         /\ b.fullMoves \in Nat /\ b.halfMoves \in Nat
         /\ b.hash \in SUBSET Keys /\ b.kpHash \in SUBSET Keys
BY DEF Boards, PieceSets

SameButPieces(b, c) ==
  /\ c.occupation = b.occupation /\ c.attacks = b.attacks
  /\ c.castlingRights = b.castlingRights /\ c.player = b.player
  /\ c.enPessant = b.enPessant /\ c.fullMoves = b.fullMoves /\ c.halfMoves = b.halfMoves

HashInStep(b) == b.hash = generateHash(b)
KingPawnHashInStep(b) == b.kpHash = generateKingPawnHash(b)

\* The board c is the board b with a piece more or less on a square.
Differ(b, c, p, t, pos) ==
  /\ \A q \in Players, u \in PieceTypes :
       q # p \/ u # t => c.pieces[q][u] = b.pieces[q][u]
  /\ \A at \in Squares : at # pos => (at \in c.pieces[p][t] <=> at \in b.pieces[p][t])
  /\ pos \in c.pieces[p][t] <=> pos \notin b.pieces[p][t]

LEMMA PieceKeysDiffer ==
  ASSUME NEW b \in Boards, NEW c \in Boards, NEW p \in Players, NEW t \in PieceTypes,
         NEW pos \in Squares, Differ(b, c, p, t, pos), NEW types \in SUBSET PieceTypes
  PROVE  PieceKeys(c, types) = IF t \in types THEN Xor(PieceKeys(b, types), PieceKey(p, t, pos))
                                              ELSE PieceKeys(b, types)
<1> DEFINE key == PieceKey(p, t, pos)
<1>1. b.pieces \in PieceSets /\ c.pieces \in PieceSets
  BY BoardFields
<1>2. ASSUME NEW q \in Players, NEW u \in types, NEW at \in Squares
      PROVE  PieceKey(q, u, at) \in PieceKeys(c, types) <=>
               IF q = p /\ u = t /\ at = pos THEN key \notin PieceKeys(b, types)
                                             ELSE PieceKey(q, u, at) \in PieceKeys(b, types)
  <2>1. PieceKey(q, u, at) \in PieceKeys(c, types) <=> at \in c.pieces[q][u]
    BY <1>2, PieceKeyIn
  <2>2. PieceKey(q, u, at) \in PieceKeys(b, types) <=> at \in b.pieces[q][u]
    BY <1>2, PieceKeyIn
  <2>3. u \in PieceTypes
    OBVIOUS
  <2>4. CASE q = p /\ u = t
    BY <2>1, <2>2, <2>4 DEF Differ
  <2>5. CASE q # p \/ u # t
    BY <2>1, <2>2, <2>3, <2>5 DEF Differ
  <2> QED
    BY <2>4, <2>5
<1>3. \A k : k \in PieceKeys(c, types) \cup PieceKeys(b, types) =>
        \E q \in Players, u \in types, at \in Squares : k = PieceKey(q, u, at)
  BY <1>1, PieceKeysAre DEF PieceSets
<1>4. CASE t \in types
  <2>1. ASSUME NEW k PROVE k \in PieceKeys(c, types) <=> k \in Xor(PieceKeys(b, types), key)
    <3>1. CASE k = key
      BY <1>2, <1>4, <3>1, XorIs
    <3>2. CASE k # key
      <4>1. k \in Xor(PieceKeys(b, types), key) <=> k \in PieceKeys(b, types)
        BY <3>2, XorIs
      <4> QED
        BY <1>2, <1>3, <3>2, <4>1
    <3> QED
      BY <3>1, <3>2
  <2> QED
    BY <1>4, <2>1
<1>5. CASE t \notin types
  <2>1. ASSUME NEW k PROVE k \in PieceKeys(c, types) <=> k \in PieceKeys(b, types)
    BY <1>2, <1>3, <1>5
  <2> QED
    BY <1>5, <2>1
<1> QED
  BY <1>4, <1>5

LEMMA HashesDiffer ==
  ASSUME NEW b \in Boards, NEW c \in Boards, NEW p \in Players, NEW t \in PieceTypes,
         NEW pos \in Squares, Differ(b, c, p, t, pos), SameButPieces(b, c)
  PROVE  /\ generateHash(c) = Xor(generateHash(b), PieceKey(p, t, pos))
         /\ generateKingPawnHash(c) =
              IF t \in {"Pawn", "King"} THEN Xor(generateKingPawnHash(b), PieceKey(p, t, pos))
                                        ELSE generateKingPawnHash(b)
<1> DEFINE key == PieceKey(p, t, pos)
<1>1. PieceKeys(c, PieceTypes) = Xor(PieceKeys(b, PieceTypes), key)
  BY PieceKeysDiffer
<1>2. ASSUME NEW k PROVE k \in generateHash(c) <=> k \in Xor(generateHash(b), key)
  <2>1. CASE k = key
    <3>1. key \in generateHash(b) <=> key \in PieceKeys(b, PieceTypes)
      BY HashIs, KeysDiffer
    <3>2. key \in generateHash(c) <=> key \in PieceKeys(c, PieceTypes)
      BY HashIs, KeysDiffer
    <3> QED
      BY <1>1, <2>1, <3>1, <3>2, XorIs
  <2>2. CASE k # key
    <3>1. k \in PieceKeys(c, PieceTypes) <=> k \in PieceKeys(b, PieceTypes)
      BY <1>1, <2>2, XorIs
    <3>2. k \in Xor(generateHash(b), key) <=> k \in generateHash(b)
      BY <2>2, XorIs
    <3> QED
      BY <3>1, <3>2, HashIs DEF SameButPieces
  <2> QED
    BY <2>1, <2>2
<1>3. {"Pawn", "King"} \in SUBSET PieceTypes
  BY PieceTypesAre
<1>4. generateHash(c) = Xor(generateHash(b), key)
  BY <1>2
<1> QED
  BY <1>3, <1>4, PieceKeysDiffer DEF generateKingPawnHash

Replaced(b, pieces, hash) == [b EXCEPT !.pieces = pieces, !.hash = hash]
Put(pieces, p, t, s) == [pieces EXCEPT ![p][t] = s]

LEMMA ReplacedIs ==
  ASSUME NEW b \in Boards, NEW pieces \in PieceSets, NEW hash \in SUBSET Keys
  PROVE  LET c == Replaced(b, pieces, hash)
         IN /\ c \in Boards /\ SameButPieces(b, c)
            /\ c.pieces = pieces /\ c.hash = hash /\ c.kpHash = b.kpHash
BY DEF Boards, PieceSets, SameButPieces, Replaced

LEMMA PutIs ==
  ASSUME NEW pieces \in PieceSets, NEW p \in Players, NEW t \in PieceTypes, NEW s \in SUBSET Squares
  PROVE  LET after == Put(pieces, p, t, s)
         IN /\ after \in PieceSets /\ after[p][t] = s
            /\ \A q \in Players, u \in PieceTypes : q # p \/ u # t => after[q][u] = pieces[q][u]
BY DEF PieceSets, Put

PieceGone(b, c, p, t, pos) ==
  /\ c \in Boards /\ SameButPieces(b, c) /\ c.kpHash = b.kpHash
  /\ \A q \in Players, u \in PieceTypes, s \in Squares : s \in c.pieces[q][u] <=>
       s \in b.pieces[q][u] /\ ~(q = p /\ u = t /\ s = pos)
  /\ HashInStep(b) => HashInStep(c)
  /\ generateKingPawnHash(c) =
       IF t \in {"Pawn", "King"} THEN Xor(generateKingPawnHash(b), PieceKey(p, t, pos))
                                 ELSE generateKingPawnHash(b)

LEMMA Cleared ==
  ASSUME NEW b \in Boards, NEW p \in Players, NEW t \in PieceTypes, NEW pos \in b.pieces[p][t]
  PROVE  PieceGone(b, clearPiece(b, p, t, pos), p, t, pos)
<1> DEFINE key == PieceKey(p, t, pos)
           after == Put(b.pieces, p, t, b.pieces[p][t] \ {pos})
           hash == Xor(b.hash, key)
           c == Replaced(b, after, hash)
<1>1. clearPiece(b, p, t, pos) = c
  BY Zenon DEF clearPiece, Put, Replaced
<1>2. b.pieces \in PieceSets /\ pos \in Squares /\ b.hash \in SUBSET Keys
  BY BoardFields DEF PieceSets
<1>3. b.pieces[p][t] \ {pos} \in SUBSET Squares
  BY <1>2 DEF PieceSets
<1>4. /\ after \in PieceSets /\ after[p][t] = b.pieces[p][t] \ {pos}
      /\ \A q \in Players, u \in PieceTypes : q # p \/ u # t => after[q][u] = b.pieces[q][u]
  BY <1>2, <1>3, PutIs
<1>5. hash \in SUBSET Keys
  BY <1>2, KeysAre, XorOfKeys
<1> HIDE DEF after, hash
<1>6. /\ c \in Boards /\ SameButPieces(b, c)
      /\ c.pieces = after /\ c.hash = hash /\ c.kpHash = b.kpHash
  BY <1>4, <1>5, ReplacedIs
<1> HIDE DEF c
<1>7. Differ(b, c, p, t, pos)
  BY <1>4, <1>6 DEF Differ
<1>8. HashInStep(b) => HashInStep(c)
  BY <1>2, <1>6, <1>7, HashesDiffer DEF HashInStep, hash
<1>9. \A q \in Players, u \in PieceTypes, s \in Squares : s \in c.pieces[q][u] <=>
        s \in b.pieces[q][u] /\ ~(q = p /\ u = t /\ s = pos)
  BY <1>4, <1>6
<1> QED
  BY <1>1, <1>2, <1>6, <1>7, <1>8, <1>9, HashesDiffer DEF PieceGone

PieceCome(b, c, p, t, pos) ==
  /\ c \in Boards /\ SameButPieces(b, c) /\ c.kpHash = b.kpHash
  /\ \A q \in Players, u \in PieceTypes, s \in Squares : s \in c.pieces[q][u] <=>
       s \in b.pieces[q][u] \/ (q = p /\ u = t /\ s = pos)
  /\ HashInStep(b) => HashInStep(c)
  /\ generateKingPawnHash(c) =
       IF t \in {"Pawn", "King"} THEN Xor(generateKingPawnHash(b), PieceKey(p, t, pos))
                                 ELSE generateKingPawnHash(b)

LEMMA Placed ==
  ASSUME NEW b \in Boards, NEW p \in Players, NEW t \in PieceTypes,
         NEW pos \in Squares, pos \notin b.pieces[p][t]
  PROVE  PieceCome(b, setPiece(b, p, t, pos), p, t, pos)
<1> DEFINE key == PieceKey(p, t, pos)
           after == Put(b.pieces, p, t, b.pieces[p][t] \cup {pos})
           hash == Xor(b.hash, key)
           c == Replaced(b, after, hash)
<1>1. setPiece(b, p, t, pos) = c
  BY Zenon DEF setPiece, Put, Replaced
<1>2. b.pieces \in PieceSets /\ b.hash \in SUBSET Keys
  BY BoardFields
<1>3. b.pieces[p][t] \cup {pos} \in SUBSET Squares
  BY <1>2 DEF PieceSets
<1>4. /\ after \in PieceSets /\ after[p][t] = b.pieces[p][t] \cup {pos}
      /\ \A q \in Players, u \in PieceTypes : q # p \/ u # t => after[q][u] = b.pieces[q][u]
  BY <1>2, <1>3, PutIs
<1>5. hash \in SUBSET Keys
  BY <1>2, KeysAre, XorOfKeys
<1> HIDE DEF after, hash
<1>6. /\ c \in Boards /\ SameButPieces(b, c)
      /\ c.pieces = after /\ c.hash = hash /\ c.kpHash = b.kpHash
  BY <1>4, <1>5, ReplacedIs
<1> HIDE DEF c
<1>7. Differ(b, c, p, t, pos)
  BY <1>4, <1>6 DEF Differ
<1>8. HashInStep(b) => HashInStep(c)
  BY <1>6, <1>7, HashesDiffer DEF HashInStep, hash
<1>9. \A q \in Players, u \in PieceTypes, s \in Squares : s \in c.pieces[q][u] <=>
        s \in b.pieces[q][u] \/ (q = p /\ u = t /\ s = pos)
  BY <1>4, <1>6
<1> QED
  BY <1>1, <1>6, <1>7, <1>8, <1>9, HashesDiffer DEF PieceCome

\* The hashes depend on nothing but pieces, rights, en passant square and player.
LEMMA HashesFollow ==
  ASSUME NEW b, NEW c, c.pieces = b.pieces
  PROVE  /\ generateKingPawnHash(c) = generateKingPawnHash(b)
         /\ \A types : PieceKeys(c, types) = PieceKeys(b, types)
         /\ c.castlingRights = b.castlingRights /\ c.enPessant = b.enPessant /\ c.player = b.player
              => generateHash(c) = generateHash(b)
<1>1. \A types : PieceKeys(c, types) = PieceKeys(b, types)
  BY DEF PieceKeys
<1> QED
  BY <1>1 DEF generateHash, generateKingPawnHash

Hashed(b, c, p, t, pos) ==
  /\ c \in Boards /\ SameButPieces(b, c) /\ c.pieces = b.pieces
  /\ c.kpHash = Xor(b.kpHash, PieceKey(p, t, pos))
  /\ HashInStep(b) => HashInStep(c)
  /\ generateKingPawnHash(c) = generateKingPawnHash(b)

LEMMA KingPawnHashed ==
  ASSUME NEW b \in Boards, NEW p \in Players, NEW t \in PieceTypes, NEW pos \in Squares
  PROVE  Hashed(b, hashKp(b, p, t, pos), p, t, pos)
<1> DEFINE hash == Xor(b.kpHash, PieceKey(p, t, pos))
           c == [b EXCEPT !.kpHash = hash]
<1>1. hashKp(b, p, t, pos) = c
  BY Zenon DEF hashKp
<1>2. hash \in SUBSET Keys
  BY BoardFields, KeysAre, XorOfKeys
<1> HIDE DEF hash
<1>3. c \in Boards /\ SameButPieces(b, c) /\ c.pieces = b.pieces /\ c.kpHash = hash /\ c.hash = b.hash
  BY <1>2 DEF Boards, SameButPieces
<1> HIDE DEF c
<1> QED
  BY <1>1, <1>3, HashesFollow DEF HashInStep, SameButPieces, hash, Hashed

----------------------------------------------------------------------------
(* What the moves do to the pieces.                                        *)

Own(b) == b.pieces[b.player]
Theirs(b) == b.pieces[nextPlayer(b.player)]

\* Of the player's pieces, pairs of type and square, some are gone and some
\* have come; what the opponent had on `taken' is captured.
Transfer(b, c, gone, come, taken) ==
  \A t \in PieceTypes, s \in Squares :
    /\ s \in c.pieces[b.player][t] <=> (s \in Own(b)[t] /\ <<t, s>> \notin gone) \/ <<t, s>> \in come
    /\ s \in c.pieces[nextPlayer(b.player)][t] <=> s \in Theirs(b)[t] /\ s \notin taken

\* The board c is b with some pieces moved, and its hashes followed.
InStep(b, c) ==
  /\ c \in Boards /\ SameButPieces(b, c)
  /\ HashInStep(b) => HashInStep(c)
  /\ KingPawnHashInStep(b) => KingPawnHashInStep(c)

LEMMA PieceAtIs ==
  ASSUME NEW b, NEW p, NEW pos
  PROVE  IF \E t \in PieceTypes : pos \in b.pieces[p][t]
           THEN /\ getPieceAt(b, p, pos) \in PieceTypes
                /\ pos \in b.pieces[p][getPieceAt(b, p, pos)]
           ELSE getPieceAt(b, p, pos) = NoPiece
<1> DEFINE at == {i \in 1..6 : pos \in b.pieces[p][PieceOrder[i]]}
<1>1. CASE \E t \in PieceTypes : pos \in b.pieces[p][t]
  <2>1. at # {}
    BY <1>1 DEF PieceTypes
  <2>2. \E i \in at : \A j \in at : i =< j
    <3> SUFFICES ASSUME \A i \in at : \E j \in at : ~(i =< j) PROVE FALSE
      OBVIOUS
    <3>1. at \subseteq {1, 2, 3, 4, 5, 6}
      OBVIOUS
    <3>2. \A i \in {1, 2, 3, 4, 5, 6} : i \in at => \E j \in {1, 2, 3, 4, 5, 6} : j \in at /\ j < i
      BY <3>1
    <3> HIDE DEF at
    <3>3. 1 \notin at
      BY <3>2
    <3>4. 2 \notin at
      BY <3>2, <3>3
    <3>5. 3 \notin at
      BY <3>2, <3>3, <3>4
    <3>6. 4 \notin at
      BY <3>2, <3>3, <3>4, <3>5
    <3>7. 5 \notin at
      BY <3>2, <3>3, <3>4, <3>5, <3>6
    <3>8. 6 \notin at
      BY <3>2, <3>3, <3>4, <3>5, <3>6, <3>7
    <3> QED
      BY <2>1, <3>1, <3>3, <3>4, <3>5, <3>6, <3>7, <3>8
  <2> DEFINE i == CHOOSE i \in at : \A j \in at : i =< j
  <2>3. i \in at
    BY <2>2
  <2>4. getPieceAt(b, p, pos) = PieceOrder[i]
    BY <2>1 DEF getPieceAt
  <2> HIDE DEF i
  <2> QED
    BY <1>1, <2>3, <2>4 DEF PieceTypes
<1>2. CASE ~ \E t \in PieceTypes : pos \in b.pieces[p][t]
  BY <1>2 DEF getPieceAt, PieceTypes
<1> QED
  BY <1>1, <1>2

\* Of pieces that stand apart only one can be on a square.
LEMMA PieceAtIsOne ==
  ASSUME NEW b, PiecesStandApart(b), NEW p \in Players, NEW t \in PieceTypes,
         NEW pos \in b.pieces[p][t]
  PROVE  /\ getPieceAt(b, p, pos) = t
         /\ \A q \in Players, u \in PieceTypes : pos \in b.pieces[q][u] => q = p /\ u = t
<1>1. ASSUME NEW q \in Players, NEW u \in PieceTypes, pos \in b.pieces[q][u] PROVE q = p /\ u = t
  <2> DEFINE x == <<p, t>>
             y == <<q, u>>
  <2>1. x \in Players \X PieceTypes /\ y \in Players \X PieceTypes
    OBVIOUS
  <2>2. b.pieces[x[1]][x[2]] \cap b.pieces[y[1]][y[2]] # {}
    BY <1>1
  <2>3. x = y
    BY <2>1, <2>2 DEF PiecesStandApart
  <2> QED
    BY <2>3
<1> QED
  BY <1>1, PieceAtIs

LEMMA VictimIsCleared ==
  ASSUME NEW b \in Boards, PiecesStandApart(b), NEW m, m.to \in Squares,
         isCapture(m) \/ \A t \in PieceTypes : m.to \notin Theirs(b)[t],
         m.to \notin Theirs(b)["King"]
  PROVE  InStep(b, clearVictim(b, m)) /\ Transfer(b, clearVictim(b, m), {}, {}, {m.to})
<1> DEFINE their == nextPlayer(b.player)
           victim == getTargetAtSquare(b, b.player, m.to)
           cleared == clearPiece(b, their, victim, m.to)
<1>1. b.player \in Players /\ their \in Players /\ their # b.player
  BY BoardFields, PlayersAre
<1>2. victim = getPieceAt(b, their, m.to)
  BY DEF getTargetAtSquare
<1>3. CASE ~isCapture(m) \/ victim = NoPiece
  <2>1. clearVictim(b, m) = b
    BY <1>3 DEF clearVictim
  <2>2. \A t \in PieceTypes : m.to \notin Theirs(b)[t]
    <3>1. NoPiece \notin PieceTypes
      BY PieceTypesAre DEF NoPiece
    <3> QED
      BY <1>2, <1>3, <3>1, PieceAtIs DEF Theirs
  <2> QED
    BY <2>1, <2>2 DEF InStep, SameButPieces, Own, Theirs, Transfer
<1>4. CASE isCapture(m) /\ victim # NoPiece
  <2>1. victim \in PieceTypes /\ m.to \in Theirs(b)[victim]
    BY <1>2, <1>4, PieceAtIs DEF Theirs
  <2>2. victim # "King"
    BY <2>1
  <2>3. PieceGone(b, cleared, their, victim, m.to)
    <3>1. m.to \in b.pieces[their][victim]
      BY <2>1 DEF Theirs
    <3> QED
      BY <1>1, <2>1, <3>1, Cleared
  <2>4. \A t \in PieceTypes : t # victim => m.to \notin Theirs(b)[t]
    BY <1>1, <2>1, PieceAtIsOne DEF Theirs
  <2> HIDE DEF victim, cleared, their
  <2>5. \A t \in PieceTypes, s \in Squares :
          /\ s \in cleared.pieces[b.player][t] <=> s \in Own(b)[t]
          /\ s \in cleared.pieces[their][t] <=> s \in Theirs(b)[t] /\ s # m.to
    BY <1>1, <2>3, <2>4 DEF Own, Theirs, their, PieceGone
  <2>6. CASE victim = "Pawn"
    <3> DEFINE c == hashKp(cleared, their, "Pawn", m.to)
    <3>1. clearVictim(b, m) = c
      BY <1>4, <2>6 DEF clearVictim, victim, cleared, their
    <3>2. Hashed(cleared, c, their, "Pawn", m.to)
      BY <1>1, <2>1, <2>3, <2>6, KingPawnHashed DEF PieceGone
    <3> HIDE DEF c
    <3>3. InStep(b, c)
      BY <2>3, <2>6, <3>2 DEF InStep, SameButPieces, KingPawnHashInStep, PieceGone, Hashed
    <3> QED
      BY <2>5, <3>1, <3>2, <3>3 DEF their, Hashed, Transfer
  <2>7. CASE victim # "Pawn"
    <3>1. clearVictim(b, m) = cleared
      BY <1>4, <2>7 DEF clearVictim, victim, cleared, their
    <3>2. InStep(b, cleared)
      BY <2>2, <2>3, <2>7 DEF InStep, KingPawnHashInStep, PieceGone
    <3> QED
      BY <2>5, <3>1, <3>2 DEF their, Transfer
  <2> QED
    BY <2>6, <2>7
<1> QED
  BY <1>3, <1>4

PieceWent(b, c, p, t, from, to) ==
  /\ c \in Boards /\ SameButPieces(b, c) /\ c.kpHash = b.kpHash
  /\ \A q \in Players, u \in PieceTypes, s \in Squares : s \in c.pieces[q][u] <=>
       (s \in b.pieces[q][u] /\ ~(q = p /\ u = t /\ s = from)) \/ (q = p /\ u = t /\ s = to)
  /\ HashInStep(b) => HashInStep(c)
  /\ generateKingPawnHash(c) =
       IF t \in {"Pawn", "King"}
         THEN Xor(Xor(generateKingPawnHash(b), PieceKey(p, t, from)), PieceKey(p, t, to))
         ELSE generateKingPawnHash(b)

LEMMA PieceMoved ==
  ASSUME NEW b \in Boards, NEW p \in Players, NEW t \in PieceTypes, NEW from \in b.pieces[p][t],
         NEW to \in Squares, to \notin b.pieces[p][t]
  PROVE  PieceWent(b, movePiece(b, p, t, from, to), p, t, from, to)
<1> DEFINE cleared == clearPiece(b, p, t, from)
           c == setPiece(cleared, p, t, to)
<1>1. movePiece(b, p, t, from, to) = c
  BY DEF movePiece
<1>2. PieceGone(b, cleared, p, t, from)
  BY Cleared
<1> HIDE DEF cleared
<1>3. PieceCome(cleared, c, p, t, to)
  <2>1. cleared \in Boards /\ to \notin cleared.pieces[p][t]
    BY <1>2 DEF PieceGone
  <2> QED
    BY <2>1, Placed
<1> HIDE DEF c
<1>4. PieceWent(b, c, p, t, from, to)
  <2>1. SameButPieces(b, c) /\ c \in Boards /\ c.kpHash = b.kpHash
    BY <1>2, <1>3 DEF PieceGone, PieceCome, SameButPieces
  <2>2. \A q \in Players, u \in PieceTypes, s \in Squares : s \in c.pieces[q][u] <=>
          (s \in b.pieces[q][u] /\ ~(q = p /\ u = t /\ s = from)) \/ (q = p /\ u = t /\ s = to)
    BY <1>2, <1>3 DEF PieceGone, PieceCome
  <2> QED
    BY <1>2, <1>3, <2>1, <2>2 DEF PieceGone, PieceCome, PieceWent
<1> QED
  BY <1>1, <1>4

\* The king-pawn hash is brought up to date after the piece has moved.
LEMMA KingPawnMoved ==
  ASSUME NEW b \in Boards, NEW c, NEW p \in Players, NEW t \in {"Pawn", "King"},
         NEW from \in Squares, NEW to \in Squares, PieceWent(b, c, p, t, from, to)
  PROVE  /\ InStep(b, hashKp(hashKp(c, p, t, from), p, t, to))
         /\ hashKp(hashKp(c, p, t, from), p, t, to).pieces = c.pieces
<1> DEFINE d == hashKp(c, p, t, from)
           e == hashKp(d, p, t, to)
<1>1. t \in PieceTypes /\ c \in Boards
  BY PieceTypesAre DEF PieceWent
<1>2. Hashed(c, d, p, t, from)
  BY <1>1, KingPawnHashed
<1> HIDE DEF d
<1>3. Hashed(d, e, p, t, to)
  BY <1>1, <1>2, KingPawnHashed DEF Hashed
<1> HIDE DEF e
<1>4. SameButPieces(b, e) /\ e \in Boards /\ e.pieces = c.pieces /\ (HashInStep(b) => HashInStep(e))
  BY <1>2, <1>3 DEF Hashed, PieceWent, SameButPieces
<1>5. /\ e.kpHash = Xor(Xor(b.kpHash, PieceKey(p, t, from)), PieceKey(p, t, to))
      /\ generateKingPawnHash(e) =
           Xor(Xor(generateKingPawnHash(b), PieceKey(p, t, from)), PieceKey(p, t, to))
  BY <1>2, <1>3 DEF Hashed, PieceWent
<1> QED
  BY <1>4, <1>5 DEF d, e, InStep, KingPawnHashInStep

----------------------------------------------------------------------------
(* The kinds of moves.                                                     *)

OwnSquares(b) == occupationOf(b.pieces, b.player)
TheirSquares(b) == occupationOf(b.pieces, nextPlayer(b.player))

\* A piece goes to a square of its own side's, empty or with a piece to take
\* that is no king.
ReachesSquare(b, m, capture) ==
  /\ m.to \in Squares /\ m.to \notin OwnSquares(b)
  /\ capture <=> m.to \in TheirSquares(b)
  /\ m.to \notin Theirs(b)["King"]

PlainMove(b, m, type) ==
  /\ m.from \in Own(b)[type]
  /\ m.flag \in {Flag.Quiet, Flag.DoublePush, Flag.Capture}
  /\ ReachesSquare(b, m, m.flag = Flag.Capture)
  /\ type = "Pawn" => Row(m.to) \notin {0, 7}
  /\ m.flag = Flag.DoublePush =>
       /\ type = "Pawn" /\ relativeRow(b.player, m.from) = 1
       /\ m.to = m.from + 2 * Forward(b.player)
       /\ m.from + Forward(b.player) \notin OwnSquares(b) \cup TheirSquares(b)

EnPassantMove(b, m) ==
  /\ m.from \in Own(b)["Pawn"] /\ m.flag = Flag.EnPassant
  /\ b.enPessant # NoPosition /\ m.to = b.enPessant
  /\ m.to \notin OwnSquares(b) /\ m.to \notin TheirSquares(b)

PromotionMove(b, m) ==
  /\ m.from \in Own(b)["Pawn"]
  /\ \E t \in {"Queen", "Knight", "Bishop", "Rook"}, capture \in BOOLEAN :
       m.flag = promotionFlag(t, capture) /\ ReachesSquare(b, m, capture)

Home(b) == IF b.player = "White" THEN A1 ELSE A8

CastleMove(b, m) ==
  \E side \in {"KingSide", "QueenSide"} :
    /\ Right(b.player, side) \in b.castlingRights
    /\ CastlingTable[b.player][side].free \cap (OwnSquares(b) \cup TheirSquares(b)) = {}
    /\ m.from = Home(b) + 4 /\ m.to = CastlingTable[b.player][side].to
    /\ m.flag = IF side = "KingSide" THEN Flag.KingCastle ELSE Flag.QueenCastle

LEMMA SquaresOf ==
  ASSUME NEW b, NEW pos
  PROVE  /\ pos \in OwnSquares(b) <=> \E t \in PieceTypes : pos \in Own(b)[t]
         /\ pos \in TheirSquares(b) <=> \E t \in PieceTypes : pos \in Theirs(b)[t]
BY DEF OwnSquares, TheirSquares, Own, Theirs, occupationOf

LEMMA PlainMoveIs ==
  ASSUME NEW b \in Boards, PiecesStandApart(b), NEW type \in PieceTypes, NEW m,
         PlainMove(b, m, type)
  PROVE  /\ InStep(b, performPlainMove(b, m, type))
         /\ Transfer(b, performPlainMove(b, m, type), {<<type, m.from>>}, {<<type, m.to>>}, {m.to})
<1> DEFINE player == b.player
           taken == clearVictim(b, m)
           moved == movePiece(taken, player, type, m.from, m.to)
           c == performPlainMove(b, m, type)
<1>1. player \in Players /\ nextPlayer(player) \in Players /\ nextPlayer(player) # player
  BY BoardFields, PlayersAre
<1>2. isCapture(m) \/ \A t \in PieceTypes : m.to \notin Theirs(b)[t]
  BY SquaresOf DEF PlainMove, ReachesSquare, isCapture, Flag
<1>3. InStep(b, taken) /\ Transfer(b, taken, {}, {}, {m.to})
  BY <1>2, VictimIsCleared DEF PlainMove, ReachesSquare
<1> HIDE DEF taken
<1>4. /\ taken.player = player /\ taken \in Boards
      /\ \A t \in PieceTypes, s \in Squares :
           /\ s \in taken.pieces[player][t] <=> s \in Own(b)[t]
           /\ s \in taken.pieces[nextPlayer(player)][t] <=> s \in Theirs(b)[t] /\ s # m.to
  BY <1>3 DEF InStep, SameButPieces, Transfer
<1>5. m.from \in taken.pieces[player][type] /\ m.to \in Squares /\ m.to \notin taken.pieces[player][type]
  <2>1. m.from \in Own(b)[type] /\ m.to \in Squares /\ m.to \notin Own(b)[type]
    BY SquaresOf DEF PlainMove, ReachesSquare
  <2>2. m.from \in Squares
    BY <1>1, <2>1, BoardFields DEF PieceSets, Own
  <2> QED
    BY <1>4, <2>1, <2>2
<1>6. PieceWent(taken, moved, player, type, m.from, m.to)
  BY <1>1, <1>4, <1>5, PieceMoved
<1> HIDE DEF moved
<1>7. Transfer(b, moved, {<<type, m.from>>}, {<<type, m.to>>}, {m.to})
  BY <1>1, <1>4, <1>6 DEF PieceWent, Transfer
<1>8. CASE type \in {"Pawn", "King"}
  <2> DEFINE d == hashKp(hashKp(moved, player, type, m.from), player, type, m.to)
  <2>1. c = d
    BY <1>8 DEF performPlainMove, moved, taken
  <2>2. m.from \in Squares
    BY <1>1, <1>4, <1>5, BoardFields DEF PieceSets
  <2>3. InStep(taken, d) /\ d.pieces = moved.pieces
    BY <1>1, <1>4, <1>5, <1>6, <1>8, <2>2, KingPawnMoved
  <2> HIDE DEF d, c
  <2>4. InStep(b, d)
    BY <1>3, <2>3 DEF InStep, SameButPieces
  <2>5. Transfer(b, d, {<<type, m.from>>}, {<<type, m.to>>}, {m.to})
    BY <1>7, <2>3 DEF Transfer
  <2> QED
    BY <2>1, <2>4, <2>5 DEF c
<1>9. CASE type \notin {"Pawn", "King"}
  <2>1. c = moved
    BY <1>9 DEF performPlainMove, moved, taken
  <2>2. InStep(b, moved)
    BY <1>3, <1>6, <1>9 DEF InStep, SameButPieces, PieceWent, KingPawnHashInStep
  <2> QED
    BY <1>7, <2>1, <2>2
<1> QED
  BY <1>8, <1>9

LEMMA CastleSquares ==
  ASSUME NEW b \in Boards, NEW m, NEW side \in {"KingSide", "QueenSide"},
         CastlingTable[b.player][side].free \cap (OwnSquares(b) \cup TheirSquares(b)) = {},
         m.from = Home(b) + 4, m.to = CastlingTable[b.player][side].to
  PROVE  /\ m.from \in Squares /\ m.to \in Squares
         /\ m.to \notin OwnSquares(b) \cup TheirSquares(b)
         /\ m.to = Home(b) + (IF side = "KingSide" THEN 6 ELSE 2)
         /\ Home(b) + (IF side = "KingSide" THEN 5 ELSE 3) \in Squares
         /\ Home(b) + (IF side = "KingSide" THEN 5 ELSE 3) \notin OwnSquares(b) \cup TheirSquares(b)
<1>1. b.player \in {"White", "Black"}
  BY BoardFields DEF Players
<1>2. CASE b.player = "White" /\ side = "KingSide"
  BY <1>2 DEF CastlingTable, Home, Squares, A1
<1>3. CASE b.player = "White" /\ side = "QueenSide"
  BY <1>3 DEF CastlingTable, Home, Squares, A1
<1>4. CASE b.player = "Black" /\ side = "KingSide"
  BY <1>4 DEF CastlingTable, Home, Squares, A8
<1>5. CASE b.player = "Black" /\ side = "QueenSide"
  BY <1>5 DEF CastlingTable, Home, Squares, A8
<1> QED
  BY <1>1, <1>2, <1>3, <1>4, <1>5

LEMMA EnPassantMoveIs ==
  ASSUME NEW b \in Boards, PiecesStandApart(b), EnPassantNeedsItsPawn(b), NEW m, EnPassantMove(b, m)
  PROVE  /\ InStep(b, performEnpessantMove(b, m))
         /\ Transfer(b, performEnpessantMove(b, m), {<<"Pawn", m.from>>}, {<<"Pawn", m.to>>},
                     {enpessantCapturePosition(b.player, m.to)})
<1> DEFINE player == b.player
           their == nextPlayer(player)
           at == enpessantCapturePosition(player, m.to)
           moved == movePiece(b, player, "Pawn", m.from, m.to)
           taken == clearPiece(moved, their, "Pawn", at)
           hashed == hashKp(hashKp(taken, player, "Pawn", m.from), player, "Pawn", m.to)
           c == hashKp(hashed, their, "Pawn", at)
<1>1. player \in Players /\ their \in Players /\ their # player /\ "Pawn" \in PieceTypes
  BY BoardFields, PlayersAre, PieceTypesAre
<1>2. /\ m.from \in b.pieces[player]["Pawn"] /\ m.from \in Squares
      /\ m.to \in Squares /\ m.to \notin b.pieces[player]["Pawn"]
      /\ at \in b.pieces[their]["Pawn"] /\ at \in Squares
  <2>1. m.from \in b.pieces[player]["Pawn"] /\ m.to \in Squares /\ m.to \notin b.pieces[player]["Pawn"]
    BY <1>1, BoardFields, SquaresOf DEF EnPassantMove, Own
  <2>2. at \in b.pieces[their]["Pawn"]
    BY DEF EnPassantMove, EnPassantNeedsItsPawn
  <2> QED
    BY <1>1, <2>1, <2>2, BoardFields DEF PieceSets
<1>3. performEnpessantMove(b, m) = c
  BY DEF performEnpessantMove
<1> HIDE DEF at
<1>4. PieceWent(b, moved, player, "Pawn", m.from, m.to)
  BY <1>1, <1>2, PieceMoved
<1> HIDE DEF moved
<1>5. PieceGone(moved, taken, their, "Pawn", at)
  <2>1. moved \in Boards /\ at \in moved.pieces[their]["Pawn"]
    BY <1>1, <1>2, <1>4 DEF PieceWent
  <2> QED
    BY <1>1, <2>1, Cleared
<1> HIDE DEF taken
<1>6. /\ Hashed(taken, hashKp(taken, player, "Pawn", m.from), player, "Pawn", m.from)
      /\ Hashed(hashKp(taken, player, "Pawn", m.from), hashed, player, "Pawn", m.to)
  BY <1>1, <1>2, <1>5, KingPawnHashed DEF PieceGone, Hashed
<1>7. Hashed(hashed, c, their, "Pawn", at)
  BY <1>1, <1>2, <1>6, KingPawnHashed DEF Hashed
<1>8. /\ c \in Boards /\ SameButPieces(b, c) /\ (HashInStep(b) => HashInStep(c))
      /\ c.pieces = taken.pieces
      /\ c.kpHash = Xor(Xor(Xor(b.kpHash, PieceKey(player, "Pawn", m.from)),
                            PieceKey(player, "Pawn", m.to)), PieceKey(their, "Pawn", at))
      /\ generateKingPawnHash(c) =
           Xor(Xor(Xor(generateKingPawnHash(b), PieceKey(player, "Pawn", m.from)),
                   PieceKey(player, "Pawn", m.to)), PieceKey(their, "Pawn", at))
  <2> HIDE DEF hashed, c
  <2>1. /\ Hashed(hashed, c, their, "Pawn", at) /\ taken.kpHash = b.kpHash
        /\ PieceWent(b, moved, player, "Pawn", m.from, m.to)
        /\ PieceGone(moved, taken, their, "Pawn", at)
    BY <1>4, <1>5, <1>7 DEF PieceGone, PieceWent
  <2>2. PICK d : Hashed(taken, d, player, "Pawn", m.from) /\ Hashed(d, hashed, player, "Pawn", m.to)
    BY <1>6
  <2>3. c \in Boards /\ c.pieces = taken.pieces /\ (HashInStep(b) => HashInStep(c))
    BY <2>1, <2>2 DEF Hashed, PieceGone, PieceWent
  <2>4. SameButPieces(b, c)
    BY <2>1, <2>2 DEF Hashed, PieceGone, PieceWent, SameButPieces
  <2> QED
    BY <2>1, <2>2, <2>3, <2>4 DEF Hashed, PieceGone, PieceWent
<1> HIDE DEF c
<1>9. Transfer(b, c, {<<"Pawn", m.from>>}, {<<"Pawn", m.to>>}, {at})
  <2>1. ASSUME NEW t \in PieceTypes, NEW s \in Squares
        PROVE  /\ s \in c.pieces[player][t] <=>
                    (s \in Own(b)[t] /\ ~(t = "Pawn" /\ s = m.from)) \/ (t = "Pawn" /\ s = m.to)
               /\ s \in c.pieces[their][t] <=> s \in Theirs(b)[t] /\ ~(t = "Pawn" /\ s = at)
    BY <1>1, <1>4, <1>5, <1>8 DEF PieceWent, PieceGone, Own, Theirs
  <2>2. \A t \in PieceTypes : t # "Pawn" => at \notin Theirs(b)[t]
    BY <1>1, <1>2, PieceAtIsOne DEF Theirs
  <2> QED
    BY <1>1, <2>1, <2>2 DEF Transfer
<1> QED
  BY <1>3, <1>8, <1>9 DEF InStep, KingPawnHashInStep, at

LEMMA PromotionMoveIs ==
  ASSUME NEW b \in Boards, PiecesStandApart(b), NEW m,
         NEW t \in {"Queen", "Knight", "Bishop", "Rook"}, NEW capture \in BOOLEAN,
         m.from \in Own(b)["Pawn"], m.flag = promotionFlag(t, capture), ReachesSquare(b, m, capture)
  PROVE  /\ InStep(b, performPromotionMove(b, m))
         /\ Transfer(b, performPromotionMove(b, m), {<<"Pawn", m.from>>}, {<<t, m.to>>}, {m.to})
<1> DEFINE player == b.player
           their == nextPlayer(player)
           cleared == clearPiece(b, player, "Pawn", m.from)
           pawn == hashKp(cleared, player, "Pawn", m.from)
           taken == clearVictim(pawn, m)
           c == setPiece(taken, player, t, m.to)
<1>1. /\ player \in Players /\ their \in Players /\ their # player
      /\ "Pawn" \in PieceTypes /\ "King" \in PieceTypes /\ t \in PieceTypes /\ t \notin {"Pawn", "King"}
  BY BoardFields, PlayersAre, PieceTypesAre
<1>2. /\ m.from \in b.pieces[player]["Pawn"] /\ m.from \in Squares /\ m.to \in Squares
      /\ m.to \notin b.pieces[player][t] /\ m.to \notin b.pieces[their]["King"]
      /\ capture \/ \A u \in PieceTypes : m.to \notin b.pieces[their][u]
  BY <1>1, BoardFields, SquaresOf DEF ReachesSquare, Own, Theirs, PieceSets
<1>3. promotionType(m) = t /\ (isCapture(m) <=> capture)
  <2>1. isPromotionMove(m) /\ (isCapture(m) <=> capture)
    BY PromotionFlags DEF isPromotionMove, isCapture
  <2>2. \A u \in {"Knight", "Bishop", "Rook", "Queen"} :
          m.flag = promotionFlag(u, isCapture(m)) <=> u = t
    BY <2>1, PromotionFlags DEF isCapture
  <2>3. t \in {"Knight", "Bishop", "Rook", "Queen"}
    OBVIOUS
  <2> QED
    BY <2>1, <2>2, <2>3 DEF promotionType
<1>4. performPromotionMove(b, m) = c
  BY <1>3 DEF performPromotionMove
<1>5. PieceGone(b, cleared, player, "Pawn", m.from)
  BY <1>1, <1>2, Cleared
<1> HIDE DEF cleared
<1>6. Hashed(cleared, pawn, player, "Pawn", m.from)
  BY <1>1, <1>2, <1>5, KingPawnHashed DEF PieceGone
<1> HIDE DEF pawn
<1>7. InStep(b, pawn)
  BY <1>5, <1>6 DEF PieceGone, Hashed, InStep, SameButPieces, KingPawnHashInStep
<1>8. \A q \in Players, u \in PieceTypes, s \in Squares : s \in pawn.pieces[q][u] <=>
        s \in b.pieces[q][u] /\ ~(q = player /\ u = "Pawn" /\ s = m.from)
  BY <1>5, <1>6 DEF PieceGone, Hashed
<1>9. pawn \in Boards /\ pawn.player = player
  BY <1>7 DEF InStep, SameButPieces
<1>10. PiecesStandApart(pawn)
  <2> SUFFICES ASSUME NEW x \in Players \X PieceTypes, NEW y \in Players \X PieceTypes, x # y,
                      NEW s, s \in pawn.pieces[x[1]][x[2]], s \in pawn.pieces[y[1]][y[2]]
               PROVE  FALSE
    BY DEF PiecesStandApart
  <2>1. s \in Squares
    BY <1>9, BoardFields DEF PieceSets
  <2>2. s \in b.pieces[x[1]][x[2]] /\ s \in b.pieces[y[1]][y[2]]
    BY <1>8, <2>1
  <2> QED
    BY <2>2 DEF PiecesStandApart
<1>11. InStep(pawn, taken) /\ Transfer(pawn, taken, {}, {}, {m.to})
  <2>1. isCapture(m) \/ \A u \in PieceTypes : m.to \notin Theirs(pawn)[u]
    BY <1>1, <1>2, <1>3, <1>8, <1>9 DEF Theirs
  <2>2. m.to \notin Theirs(pawn)["King"]
    BY <1>1, <1>2, <1>8, <1>9 DEF Theirs
  <2> QED
    BY <1>2, <1>9, <1>10, <2>1, <2>2, VictimIsCleared
<1> HIDE DEF taken
<1>12. \A u \in PieceTypes, s \in Squares :
         /\ s \in taken.pieces[player][u] <=> s \in b.pieces[player][u] /\ ~(u = "Pawn" /\ s = m.from)
         /\ s \in taken.pieces[their][u] <=> s \in b.pieces[their][u] /\ s # m.to
  BY <1>1, <1>8, <1>9, <1>11 DEF Transfer, Own, Theirs
<1>13. InStep(b, taken)
  BY <1>7, <1>11 DEF InStep, SameButPieces
<1>14. PieceCome(taken, c, player, t, m.to)
  BY <1>1, <1>2, <1>12, <1>13, Placed DEF InStep
<1> HIDE DEF c
<1>15. InStep(b, c)
  BY <1>1, <1>13, <1>14 DEF PieceCome, InStep, SameButPieces, KingPawnHashInStep
<1>16. Transfer(b, c, {<<"Pawn", m.from>>}, {<<t, m.to>>}, {m.to})
  BY <1>1, <1>12, <1>14 DEF PieceCome, Transfer, Own, Theirs
<1> QED
  BY <1>4, <1>15, <1>16

Corner(b, side) == Home(b) + (IF side = "KingSide" THEN 7 ELSE 0)
Beside(b, side) == Home(b) + (IF side = "KingSide" THEN 5 ELSE 3)

LEMMA CastleMoveIs ==
  ASSUME NEW b \in Boards, RightsNeedKingAndRook(b), NEW m, NEW side \in {"KingSide", "QueenSide"},
         Right(b.player, side) \in b.castlingRights,
         CastlingTable[b.player][side].free \cap (OwnSquares(b) \cup TheirSquares(b)) = {},
         m.from = Home(b) + 4, m.to = CastlingTable[b.player][side].to,
         m.flag = IF side = "KingSide" THEN Flag.KingCastle ELSE Flag.QueenCastle
  PROVE  /\ InStep(b, performCastleMove(b, m))
         /\ Transfer(b, performCastleMove(b, m), {<<"King", m.from>>, <<"Rook", Corner(b, side)>>},
                     {<<"King", m.to>>, <<"Rook", Beside(b, side)>>}, {})
<1> DEFINE player == b.player
           their == nextPlayer(player)
           king == movePiece(b, player, "King", m.from, m.to)
           rook == movePiece(king, player, "Rook", Corner(b, side), Beside(b, side))
           c == hashKp(hashKp(rook, player, "King", m.from), player, "King", m.to)
<1>1. /\ player \in Players /\ their \in Players /\ their # player
      /\ "King" \in PieceTypes /\ "Rook" \in PieceTypes
  BY BoardFields, PlayersAre, PieceTypesAre
<1>2. m.from \in b.pieces[player]["King"] /\ Corner(b, side) \in b.pieces[player]["Rook"]
  BY <1>1 DEF RightsNeedKingAndRook, Home, Corner
<1>3. /\ m.from \in Squares /\ m.to \in Squares /\ Beside(b, side) \in Squares
      /\ m.to \notin b.pieces[player]["King"] /\ Beside(b, side) \notin b.pieces[player]["Rook"]
      /\ Corner(b, side) \in Squares
  <2>1. /\ m.from \in Squares /\ m.to \in Squares /\ m.to \notin OwnSquares(b)
        /\ Beside(b, side) \in Squares /\ Beside(b, side) \notin OwnSquares(b)
    BY CastleSquares DEF Beside
  <2>2. Corner(b, side) \in Squares
    BY <1>1, <1>2, BoardFields DEF PieceSets
  <2> QED
    BY <1>1, <2>1, <2>2, SquaresOf DEF Own
<1>4. performCastleMove(b, m) = c
  <2>1. m.flag = Flag.KingCastle <=> side = "KingSide"
    BY DEF Flag
  <2>2. CASE side = "KingSide"
    BY <2>1, <2>2 DEF performCastleMove, Corner, Beside, Home
  <2>3. CASE side = "QueenSide"
    <3>1. Corner(b, side) = Home(b) /\ Beside(b, side) = Home(b) + 3
      BY <2>3 DEF Corner, Beside, Home, A1, A8
    <3> QED
      BY <2>1, <2>3, <3>1 DEF performCastleMove, Home
  <2> QED
    BY <2>2, <2>3
<1>5. PieceWent(b, king, player, "King", m.from, m.to)
  BY <1>1, <1>2, <1>3, PieceMoved
<1> HIDE DEF king
<1>6. PieceWent(king, rook, player, "Rook", Corner(b, side), Beside(b, side))
  <2>1. /\ king \in Boards /\ Corner(b, side) \in king.pieces[player]["Rook"]
        /\ Beside(b, side) \notin king.pieces[player]["Rook"]
    BY <1>1, <1>2, <1>3, <1>5 DEF PieceWent
  <2> QED
    BY <1>1, <1>3, <2>1, PieceMoved
<1> HIDE DEF rook
<1>7. rook \in Boards
  BY <1>6 DEF PieceWent
<1>8. PICK d : Hashed(rook, d, player, "King", m.from) /\ Hashed(d, c, player, "King", m.to)
  <2>1. Hashed(rook, hashKp(rook, player, "King", m.from), player, "King", m.from)
    BY <1>1, <1>3, <1>7, KingPawnHashed
  <2>2. hashKp(rook, player, "King", m.from) \in Boards
    BY <2>1 DEF Hashed
  <2>3. Hashed(hashKp(rook, player, "King", m.from), c, player, "King", m.to)
    BY <1>1, <1>3, <2>2, KingPawnHashed
  <2> QED
    BY <2>1, <2>3
<1> HIDE DEF c
<1>9. InStep(b, c)
  <2>1. c \in Boards /\ (HashInStep(b) => HashInStep(c)) /\ SameButPieces(b, c)
    BY <1>5, <1>6, <1>8 DEF PieceWent, Hashed, SameButPieces
  <2>2. KingPawnHashInStep(b) => KingPawnHashInStep(c)
    BY <1>5, <1>6, <1>8 DEF PieceWent, Hashed, KingPawnHashInStep
  <2> QED
    BY <2>1, <2>2 DEF InStep
<1>10. c.pieces = rook.pieces
  BY <1>8 DEF Hashed
<1>11. Transfer(b, c, {<<"King", m.from>>, <<"Rook", Corner(b, side)>>},
                {<<"King", m.to>>, <<"Rook", Beside(b, side)>>}, {})
  BY <1>1, <1>5, <1>6, <1>10 DEF PieceWent, Transfer, Own, Theirs
<1> QED
  BY <1>4, <1>9, <1>11

----------------------------------------------------------------------------
(* Rays: the squares in a direction, up to the edge.                       *)

LEMMA FromOneUp ==
  ASSUME NEW on \in SUBSET (1..7), \A n \in on : \A k \in 1..n : k \in on
  PROVE  Cardinality(on) \in 0..7 /\ on = 1..Cardinality(on)
<1> DEFINE UpTo(k) == \A n \in 1..7 : n \in on <=> n =< k
<1>1. \E k \in 0..7 : UpTo(k)
  <2>1. CASE 7 \in on
    <3>1. UpTo(7)
      <4> SUFFICES ASSUME NEW n \in 1..7 PROVE n \in on <=> n =< 7
        OBVIOUS
      <4> QED
        BY <2>1, n \in {1, 2, 3, 4, 5, 6, 7}
    <3> QED
      BY <3>1
  <2>2. CASE 7 \notin on /\ 6 \in on
    <3>1. UpTo(6)
      <4> SUFFICES ASSUME NEW n \in 1..7 PROVE n \in on <=> n =< 6
        OBVIOUS
      <4> QED
        BY <2>2, n \in {1, 2, 3, 4, 5, 6, 7}
    <3> QED
      BY <3>1
  <2>3. CASE 7 \notin on /\ 6 \notin on /\ 5 \in on
    <3>1. UpTo(5)
      <4> SUFFICES ASSUME NEW n \in 1..7 PROVE n \in on <=> n =< 5
        OBVIOUS
      <4> QED
        BY <2>3, n \in {1, 2, 3, 4, 5, 6, 7}
    <3> QED
      BY <3>1
  <2>4. CASE 7 \notin on /\ 6 \notin on /\ 5 \notin on /\ 4 \in on
    <3>1. UpTo(4)
      <4> SUFFICES ASSUME NEW n \in 1..7 PROVE n \in on <=> n =< 4
        OBVIOUS
      <4> QED
        BY <2>4, n \in {1, 2, 3, 4, 5, 6, 7}
    <3> QED
      BY <3>1
  <2>5. CASE 7 \notin on /\ 6 \notin on /\ 5 \notin on /\ 4 \notin on /\ 3 \in on
    <3>1. UpTo(3)
      <4> SUFFICES ASSUME NEW n \in 1..7 PROVE n \in on <=> n =< 3
        OBVIOUS
      <4> QED
        BY <2>5, n \in {1, 2, 3, 4, 5, 6, 7}
    <3> QED
      BY <3>1
  <2>6. CASE 7 \notin on /\ 6 \notin on /\ 5 \notin on /\ 4 \notin on /\ 3 \notin on /\ 2 \in on
    <3>1. UpTo(2)
      <4> SUFFICES ASSUME NEW n \in 1..7 PROVE n \in on <=> n =< 2
        OBVIOUS
      <4> QED
        BY <2>6, n \in {1, 2, 3, 4, 5, 6, 7}
    <3> QED
      BY <3>1
  <2>7. CASE 7 \notin on /\ 6 \notin on /\ 5 \notin on /\ 4 \notin on /\ 3 \notin on /\ 2 \notin on /\ 1 \in on
    <3>1. UpTo(1)
      <4> SUFFICES ASSUME NEW n \in 1..7 PROVE n \in on <=> n =< 1
        OBVIOUS
      <4> QED
        BY <2>7, n \in {1, 2, 3, 4, 5, 6, 7}
    <3> QED
      BY <3>1
  <2>8. CASE 7 \notin on /\ 6 \notin on /\ 5 \notin on /\ 4 \notin on /\ 3 \notin on /\ 2 \notin on /\ 1 \notin on
    <3>1. UpTo(0)
      <4> SUFFICES ASSUME NEW n \in 1..7 PROVE n \in on <=> n =< 0
        OBVIOUS
      <4> QED
        BY <2>8, n \in {1, 2, 3, 4, 5, 6, 7}
    <3> QED
      BY <3>1
  <2> QED
    BY <2>1, <2>2, <2>3, <2>4, <2>5, <2>6, <2>7, <2>8
<1>2. PICK k \in 0..7 : UpTo(k)
  BY <1>1
<1>3. on = 1..k
  <2>1. ASSUME NEW n \in on PROVE n \in 1..k
    <3>1. n \in 1..7
      OBVIOUS
    <3> QED
      BY <1>2, <3>1
  <2>2. ASSUME NEW n \in 1..k PROVE n \in on
    <3>1. n \in 1..7 /\ n =< k
      OBVIOUS
    <3> QED
      BY <1>2, <3>1
  <2> QED
    BY <2>1, <2>2
<1>4. Cardinality(1..k) = k
  <2>1. 1 \in Int /\ k \in Int
    OBVIOUS
  <2>2. Cardinality(1..k) = IF 1 > k THEN 0 ELSE k - 1 + 1
    BY <2>1, FS_Interval, Zenon
  <2> QED
    BY <2>2
<1> QED
  BY <1>3, <1>4

OnRay(d, pos, n) == Row(pos) + n * d[1] \in 0..7 /\ File(pos) + n * d[2] \in 0..7
Directions == bishopDirections \cup rookDirections

LEMMA DirectionsAre ==
  ASSUME NEW d \in Directions
  PROVE  d[1] \in {-1, 0, 1} /\ d[2] \in {-1, 0, 1}
BY DEF Directions, bishopDirections, rookDirections

LEMMA RaysAre ==
  ASSUME NEW d \in Directions, NEW pos \in Squares
  PROVE  /\ Len(Rays[d][pos]) \in 0..7 /\ DOMAIN Rays[d][pos] = 1..Len(Rays[d][pos])
         /\ \A n \in 1..7 : n \in 1..Len(Rays[d][pos]) <=> OnRay(d, pos, n)
         /\ \A n \in 1..Len(Rays[d][pos]) :
              Rays[d][pos][n] = At(Row(pos) + n * d[1], File(pos) + n * d[2])
<1> DEFINE on == {n \in 1..7 : OnRay(d, pos, n)}
           ray == [n \in 1..Cardinality(on) |-> At(Row(pos) + n * d[1], File(pos) + n * d[2])]
<1>1. Rays[d][pos] = ray
  BY DEF Rays, Directions, OnRay
<1>2. d[1] \in {-1, 0, 1} /\ d[2] \in {-1, 0, 1} /\ Row(pos) \in 0..7 /\ File(pos) \in 0..7
  BY SquaresAre, DirectionsAre
<1>3. \A n \in on : \A k \in 1..n : k \in on
  <2> SUFFICES ASSUME NEW n \in 1..7, OnRay(d, pos, n), NEW k \in 1..n PROVE OnRay(d, pos, k)
    OBVIOUS
  <2>1. Row(pos) + k * d[1] \in 0..7
    BY <1>2 DEF OnRay
  <2>2. File(pos) + k * d[2] \in 0..7
    BY <1>2 DEF OnRay
  <2> QED
    BY <2>1, <2>2 DEF OnRay
<1>4. Cardinality(on) \in 0..7 /\ on = 1..Cardinality(on)
  BY <1>3, FromOneUp
<1> DEFINE n == Cardinality(on)
<1>5. n \in 0..7 /\ \A i \in 1..7 : i \in 1..n <=> OnRay(d, pos, i)
  <2>1. \A i \in 1..7 : i \in on <=> OnRay(d, pos, i)
    OBVIOUS
  <2> HIDE DEF on
  <2> QED
    BY <1>4, <2>1
<1> HIDE DEF on, n
<1> DEFINE r == [i \in 1..n |-> At(Row(pos) + i * d[1], File(pos) + i * d[2])]
<1>6. Rays[d][pos] = r
  BY <1>1 DEF n
<1> HIDE DEF ray
<1>7. Len(r) = n /\ DOMAIN r = 1..n
  BY <1>5
<1> QED
  BY <1>5, <1>6, <1>7

\* From pos, to is seen in a direction: nothing blocks the squares before it.
Sees(d, pos, block, to) ==
  \E n \in 1..Len(Rays[d][pos]) :
    /\ to = Rays[d][pos][n]
    /\ \A k \in 1..(n - 1) : Rays[d][pos][k] \notin block

LEMMA RayAttacksAre ==
  ASSUME NEW d \in Directions, NEW pos \in Squares, NEW block, NEW to
  PROVE  to \in RayAttacks(Rays[d][pos], block) <=> Sees(d, pos, block, to)
BY RaysAre DEF RayAttacks, Sees

LEMMA RaySquares ==
  ASSUME NEW d \in Directions, NEW pos \in Squares
  PROVE  \A n \in 1..Len(Rays[d][pos]) : Rays[d][pos][n] \in Squares
<1> DEFINE len == Len(Rays[d][pos])
<1>0. len \in 0..7 /\ \A n \in 1..7 : n \in 1..len <=> OnRay(d, pos, n)
  BY RaysAre
<1> TAKE n \in 1..Len(Rays[d][pos])
<1>1. n \in 1..7
  <2>1. n \in 1..len
    OBVIOUS
  <2> HIDE DEF len
  <2> QED
    BY <1>0, <2>1
<1>2. OnRay(d, pos, n) /\ Rays[d][pos][n] = At(Row(pos) + n * d[1], File(pos) + n * d[2])
  BY <1>1, RaysAre
<1> QED
  BY <1>2, AtIsASquare DEF OnRay

LEMMA SlidersStayOn ==
  ASSUME NEW pos \in Squares, NEW occupancy
  PROVE  getRookMoves(pos, occupancy) \subseteq Squares /\ getBishopMoves(pos, occupancy) \subseteq Squares
<1>1. ASSUME NEW d \in Directions, NEW block, NEW to \in RayAttacks(Rays[d][pos], block)
      PROVE  to \in Squares
  <2>1. Sees(d, pos, block, to)
    BY RayAttacksAre
  <2> QED
    BY <2>1, RaySquares DEF Sees
<1> QED
  BY <1>1 DEF Directions, getRookMoves, getBishopMoves, rookAttacksWithBlock, bishopAttacksWithBlock

LEMMA LeapersStayOn ==
  ASSUME NEW pos \in Squares
  PROVE  knightsTable[pos] \subseteq Squares /\ kingsTable[pos] \subseteq Squares
<1>1. \A o : Step(pos, o) \subseteq Squares
  BY AtIsASquare DEF Step
<1> QED
  BY <1>1 DEF knightsTable, kingsTable

\* What a side attacks.
LEMMA AllAttacksAre ==
  ASSUME NEW b \in Boards, NEW p \in Players
  PROVE  \A to : to \in getAllAttacks(b, p) <=>
           \/ to \in getPawnAttacks(b, p)
           \/ \E from \in b.pieces[p]["Knight"] : to \in knightsTable[from]
           \/ \E from \in b.pieces[p]["Rook"] \cup b.pieces[p]["Queen"] : to \in getRookMoves(from, both(b))
           \/ \E from \in b.pieces[p]["Bishop"] \cup b.pieces[p]["Queen"] : to \in getBishopMoves(from, both(b))
           \/ \E from \in b.pieces[p]["King"] : to \in kingsTable[from]
BY DEF getAllAttacks

LEMMA AttacksStayOn ==
  ASSUME NEW b \in Boards, NEW p \in Players
  PROVE  getAllAttacks(b, p) \subseteq Squares
<1>1. \A t \in PieceTypes : b.pieces[p][t] \subseteq Squares
  BY BoardFields DEF PieceSets
<1>2. getPawnAttacks(b, p) \subseteq Squares
  BY DEF getPawnAttacks, Shift
<1> QED
  BY <1>1, <1>2, AllAttacksAre, SlidersStayOn, LeapersStayOn, PieceTypesAre

\* Attacks depend on nothing but pieces and occupation.
LEMMA AttacksFollow ==
  ASSUME NEW b, NEW c, c.pieces = b.pieces, c.occupation = b.occupation, NEW p
  PROVE  getAllAttacks(c, p) = getAllAttacks(b, p)
<1>1. both(c) = both(b) /\ getPawnAttacks(c, p) = getPawnAttacks(b, p)
  BY DEF both, getPawnAttacks
<1> QED
  BY <1>1 DEF getAllAttacks

----------------------------------------------------------------------------
(* The rest of performMove(): rights, en passant square, attacks, player.  *)

\* The board c is b with its pieces as they are, and its hashes followed.
StaysInStep(b, c) ==
  /\ c \in Boards /\ c.pieces = b.pieces
  /\ HashInStep(b) => HashInStep(c)
  /\ KingPawnHashInStep(b) => KingPawnHashInStep(c)

LEMMA RightsUpdated ==
  ASSUME NEW b \in Boards, NEW m
  PROVE  LET c == updateCastlingRights(b, m)
         IN /\ StaysInStep(b, c)
            /\ c.castlingRights = b.castlingRights \ (castlingRightMaskTable[m.from]
                                                      \cup castlingRightMaskTable[m.to])
            /\ c.player = b.player /\ c.enPessant = b.enPessant
<1> DEFINE rights == b.castlingRights \ (castlingRightMaskTable[m.from]
                                         \cup castlingRightMaskTable[m.to])
           hash == Xor(Xor(b.hash, CastlingKey(b.castlingRights)), CastlingKey(rights))
           c == [b EXCEPT !.castlingRights = rights, !.hash = hash]
<1>1. updateCastlingRights(b, m) = c
  BY Zenon DEF updateCastlingRights
<1>2. rights \in SUBSET CastlingRights /\ b.castlingRights \in SUBSET CastlingRights
  BY BoardFields
<1>3. c.castlingRights = rights
  BY DEF Boards
<1> HIDE DEF rights
<1>4. hash \in SUBSET Keys
  BY <1>2, BoardFields, KeysAre, XorOfKeys
<1>5. HashInStep(b) => hash = generateHash(c)
  <2>1. c.pieces = b.pieces /\ c.enPessant = b.enPessant /\ c.player = b.player /\ c.castlingRights = rights
    BY <1>3 DEF Boards
  <2> SUFFICES ASSUME HashInStep(b), NEW k PROVE k \in hash <=> k \in generateHash(c)
    OBVIOUS
  <2>2. k \in PieceKeys(b, PieceTypes) <=> k \in PieceKeys(c, PieceTypes)
    BY <2>1, HashesFollow
  <2> HIDE DEF c
  <2>3. k \in hash <=> IF k = CastlingKey(rights) THEN CastlingKey(rights) \notin Xor(b.hash, CastlingKey(b.castlingRights))
                       ELSE k \in Xor(b.hash, CastlingKey(b.castlingRights))
    BY XorIs
  <2>4. \A key : key \in Xor(b.hash, CastlingKey(b.castlingRights)) <=>
          IF key = CastlingKey(b.castlingRights) THEN CastlingKey(b.castlingRights) \notin b.hash ELSE key \in b.hash
    BY XorIs
  <2>5. CastlingKey(b.castlingRights) \in b.hash
    BY HashIs DEF HashInStep
  <2>6. \A r : CastlingKey(r) \in b.hash => r = b.castlingRights
    BY HashIs, KeysDiffer, OtherKeysIn DEF HashInStep
  <2>7. k \in b.hash <=> k \in generateHash(b)
    BY DEF HashInStep
  <2> HIDE DEF hash
  <2>8. CASE \E r : k = CastlingKey(r)
    <3>1. k \in generateHash(c) <=> k = CastlingKey(rights)
      BY <2>1, <2>8, HashIs, KeysDiffer, OtherKeysIn
    <3> QED
      BY <2>3, <2>4, <2>5, <2>6, <2>8, <3>1, KeysDiffer
  <2>9. CASE ~ \E r : k = CastlingKey(r)
    <3>1. k \in hash <=> k \in b.hash
      BY <2>3, <2>4, <2>9
    <3> QED
      BY <2>1, <2>2, <2>7, <2>9, <3>1, HashIs
  <2> QED
    BY <2>8, <2>9
<1> HIDE DEF hash
<1>6. /\ c \in Boards /\ c.pieces = b.pieces /\ c.hash = hash /\ c.kpHash = b.kpHash
      /\ c.player = b.player /\ c.enPessant = b.enPessant
  BY <1>2, <1>4 DEF Boards
<1> HIDE DEF c
<1> QED
  BY <1>1, <1>3, <1>5, <1>6, HashesFollow DEF StaysInStep, HashInStep, KingPawnHashInStep, rights

LEMMA EnPassantCleared ==
  ASSUME NEW b \in Boards
  PROVE  LET c == clearEnpessant(b)
         IN /\ StaysInStep(b, c)
            /\ c.enPessant = NoPosition
            /\ c.castlingRights = b.castlingRights /\ c.player = b.player
            /\ c.occupation = b.occupation /\ c.attacks = b.attacks
<1>1. CASE b.enPessant = NoPosition
  BY <1>1 DEF clearEnpessant, StaysInStep
<1>2. CASE b.enPessant # NoPosition
  <2> DEFINE hash == Xor(b.hash, EnpessantKey(b.enPessant))
             c == [b EXCEPT !.enPessant = NoPosition, !.hash = hash]
  <2>1. clearEnpessant(b) = c
    BY <1>2 DEF clearEnpessant
  <2>2. hash \in SUBSET Keys /\ b.enPessant \in Squares
    BY <1>2, BoardFields, KeysAre, XorOfKeys
  <2>3. b.enPessant # NoPosition /\ \A k : k \in hash <=> IF k = EnpessantKey(b.enPessant) THEN k \notin b.hash ELSE k \in b.hash
    BY <1>2, XorIs
  <2> HIDE DEF hash
  <2>4. /\ c \in Boards /\ c.pieces = b.pieces /\ c.hash = hash /\ c.kpHash = b.kpHash
        /\ c.player = b.player /\ c.castlingRights = b.castlingRights /\ c.enPessant = NoPosition
        /\ c.occupation = b.occupation /\ c.attacks = b.attacks
    BY <2>2 DEF Boards
  <2> HIDE DEF c
  <2>5. HashInStep(b) => HashInStep(c)
    <3> SUFFICES ASSUME HashInStep(b), NEW k PROVE k \in hash <=> k \in generateHash(c)
      BY <2>4 DEF HashInStep
    <3>1. k \in PieceKeys(b, PieceTypes) <=> k \in PieceKeys(c, PieceTypes)
      BY <2>4, HashesFollow
    <3>2. k \in b.hash <=> k \in generateHash(b)
      BY DEF HashInStep
    <3>3. CASE k = EnpessantKey(b.enPessant)
      <4>1. k \in generateHash(b)
        BY <2>3, <3>3, HashIs
      <4>2. k \notin generateHash(c)
        BY <2>4, <3>3, HashIs, KeysDiffer, OtherKeysIn
      <4> QED
        BY <2>3, <3>2, <3>3, <4>1, <4>2
    <3>4. CASE k # EnpessantKey(b.enPessant)
      BY <2>3, <2>4, <3>1, <3>2, <3>4, HashIs
    <3> QED
      BY <3>3, <3>4
  <2> QED
    BY <2>1, <2>4, <2>5, HashesFollow DEF StaysInStep, KingPawnHashInStep
<1> QED
  BY <1>1, <1>2

LEMMA EnPassantSet ==
  ASSUME NEW b \in Boards, b.enPessant = NoPosition, NEW p, NEW m,
         isDoublePush(m) => enpessantCapturePosition(p, m.to) \in Squares
  PROVE  LET c == setEnpessant(b, p, m)
         IN /\ StaysInStep(b, c)
            /\ c.enPessant = IF isDoublePush(m) THEN enpessantCapturePosition(p, m.to) ELSE NoPosition
            /\ c.castlingRights = b.castlingRights /\ c.player = b.player
<1>1. CASE ~isDoublePush(m)
  BY <1>1 DEF setEnpessant, StaysInStep
<1>2. CASE isDoublePush(m)
  <2> DEFINE pos == enpessantCapturePosition(p, m.to)
             hash == Xor(b.hash, EnpessantKey(pos))
             c == [b EXCEPT !.enPessant = pos, !.hash = hash]
  <2>1. setEnpessant(b, p, m) = c
    BY <1>2 DEF setEnpessant
  <2>2. pos \in Squares /\ pos # NoPosition
    BY <1>2 DEF Squares, NoPosition
  <2>3. isDoublePush(m) /\ c.enPessant = pos
    BY <1>2 DEF Boards
  <2> HIDE DEF pos
  <2>4. hash \in SUBSET Keys
    BY <2>2, BoardFields, KeysAre, XorOfKeys
  <2>5. \A k : k \in hash <=> IF k = EnpessantKey(pos) THEN k \notin b.hash ELSE k \in b.hash
    BY XorIs
  <2> HIDE DEF hash
  <2>6. /\ c \in Boards /\ c.pieces = b.pieces /\ c.hash = hash /\ c.kpHash = b.kpHash
        /\ c.player = b.player /\ c.castlingRights = b.castlingRights
    BY <2>2, <2>4 DEF Boards
  <2> HIDE DEF c
  <2>7. HashInStep(b) => HashInStep(c)
    <3> SUFFICES ASSUME HashInStep(b), NEW k PROVE k \in hash <=> k \in generateHash(c)
      BY <2>6 DEF HashInStep
    <3>1. k \in PieceKeys(b, PieceTypes) <=> k \in PieceKeys(c, PieceTypes)
      BY <2>6, HashesFollow
    <3>2. k \in b.hash <=> k \in generateHash(b)
      BY DEF HashInStep
    <3>3. CASE k = EnpessantKey(pos)
      <4>1. k \notin generateHash(b)
        BY <3>3, HashIs, KeysDiffer, OtherKeysIn
      <4>2. k \in generateHash(c)
        BY <2>2, <2>3, <3>3, HashIs
      <4> QED
        BY <2>5, <3>2, <3>3, <4>1, <4>2
    <3>4. CASE k # EnpessantKey(pos)
      BY <2>3, <2>5, <2>6, <3>1, <3>2, <3>4, HashIs
    <3> QED
      BY <3>3, <3>4
  <2> QED
    BY <2>1, <2>3, <2>6, <2>7, HashesFollow DEF StaysInStep, KingPawnHashInStep, pos
<1> QED
  BY <1>1, <1>2

OccupationAndAttacksAre(b) ==
  /\ b.occupation = [p \in Players |-> occupationOf(b.pieces, p)]
  /\ b.attacks = [p \in Players |-> getAllAttacks(b, p)]

LEMMA AttacksUpdated ==
  ASSUME NEW b \in Boards
  PROVE  LET c == updateAttacks(updateOccupation(b))
         IN /\ StaysInStep(b, c) /\ OccupationAndAttacksAre(c)
            /\ c.castlingRights = b.castlingRights /\ c.player = b.player /\ c.enPessant = b.enPessant
<1> DEFINE occ == [p \in Players |-> occupationOf(b.pieces, p)]
           d == [b EXCEPT !.occupation = occ]
           att == [p \in Players |-> getAllAttacks(d, p)]
           c == [d EXCEPT !.attacks = att]
<1>1. updateAttacks(updateOccupation(b)) = c
  BY Zenon DEF updateAttacks, updateOccupation
<1>2. occ \in [Players -> SUBSET Squares]
  <2>1. \A p \in Players : occupationOf(b.pieces, p) \in SUBSET Squares
    BY BoardFields DEF PieceSets, occupationOf
  <2> QED
    BY <2>1
<1>3. occ = [p \in Players |-> occupationOf(b.pieces, p)]
  OBVIOUS
<1> HIDE DEF occ
<1>4. /\ d \in Boards /\ d.pieces = b.pieces /\ d.occupation = occ /\ d.hash = b.hash /\ d.kpHash = b.kpHash
      /\ d.castlingRights = b.castlingRights /\ d.player = b.player /\ d.enPessant = b.enPessant
  BY <1>2 DEF Boards
<1> HIDE DEF d
<1>5. att \in [Players -> SUBSET Squares]
  BY <1>4, AttacksStayOn
<1>6. att = [p \in Players |-> getAllAttacks(d, p)]
  OBVIOUS
<1> HIDE DEF att
<1>7. /\ c \in Boards /\ c.pieces = d.pieces /\ c.occupation = d.occupation /\ c.attacks = att
      /\ c.hash = d.hash /\ c.kpHash = d.kpHash
      /\ c.castlingRights = d.castlingRights /\ c.player = d.player /\ c.enPessant = d.enPessant
  BY <1>4, <1>5 DEF Boards
<1> HIDE DEF c
<1>8. OccupationAndAttacksAre(c)
  <2>1. \A p \in Players : getAllAttacks(c, p) = getAllAttacks(d, p)
    BY <1>7, AttacksFollow
  <2> QED
    BY <1>3, <1>4, <1>6, <1>7, <2>1 DEF OccupationAndAttacksAre
<1>9. StaysInStep(b, c)
  BY <1>4, <1>7, HashesFollow DEF StaysInStep, HashInStep, KingPawnHashInStep
<1> QED
  BY <1>1, <1>4, <1>7, <1>8, <1>9

\* The hash of the same board with the other player to move.
LEMMA TurnHash ==
  ASSUME NEW b \in Boards, NEW c, c.pieces = b.pieces, c.castlingRights = b.castlingRights,
         c.enPessant = b.enPessant, c.player = nextPlayer(b.player)
  PROVE  generateHash(c) = Xor(generateHash(b), PlayerKey)
<1>1. b.player = "Black" <=> c.player # "Black"
  BY BoardFields DEF nextPlayer, Players
<1>2. PieceKeys(c, PieceTypes) = PieceKeys(b, PieceTypes)
  BY HashesFollow
<1>3. ASSUME NEW k PROVE k \in generateHash(c) <=> k \in Xor(generateHash(b), PlayerKey)
  <2>1. k \in Xor(generateHash(b), PlayerKey) <=>
          IF k = PlayerKey THEN PlayerKey \notin generateHash(b) ELSE k \in generateHash(b)
    BY XorIs
  <2>2. CASE k = PlayerKey
    <3>1. PlayerKey \in generateHash(b) <=> b.player = "Black"
      BY HashIs, KeysDiffer, OtherKeysIn
    <3>2. PlayerKey \in generateHash(c) <=> c.player = "Black"
      BY HashIs, KeysDiffer, OtherKeysIn
    <3> QED
      BY <1>1, <2>1, <2>2, <3>1, <3>2
  <2>3. CASE k # PlayerKey
    BY <1>2, <2>1, <2>3, HashIs
  <2> QED
    BY <2>2, <2>3
<1> QED
  BY <1>3

PassTurn(b, full, half) ==
  [b EXCEPT !.fullMoves = full, !.halfMoves = half,
            !.player = nextPlayer(b.player), !.hash = Xor(b.hash, PlayerKey)]
TurnIsPassed(b, c) ==
  /\ c \in Boards /\ c.pieces = b.pieces /\ HashInStep(c)
  /\ c.occupation = b.occupation /\ c.attacks = b.attacks /\ c.kpHash = b.kpHash
  /\ c.castlingRights = b.castlingRights /\ c.enPessant = b.enPessant
  /\ c.player = nextPlayer(b.player)

LEMMA TurnPassed ==
  ASSUME NEW b \in Boards, NEW full \in Nat, NEW half \in Nat, HashInStep(b)
  PROVE  TurnIsPassed(b, PassTurn(b, full, half))
<1> DEFINE c == PassTurn(b, full, half)
<1>1. Xor(b.hash, PlayerKey) \in SUBSET Keys /\ nextPlayer(b.player) \in Players
  BY BoardFields, KeysAre, XorOfKeys, PlayersAre
<1>2. /\ c \in Boards /\ c.pieces = b.pieces /\ c.hash = Xor(b.hash, PlayerKey)
      /\ c.occupation = b.occupation /\ c.attacks = b.attacks /\ c.kpHash = b.kpHash
      /\ c.castlingRights = b.castlingRights /\ c.enPessant = b.enPessant
      /\ c.player = nextPlayer(b.player)
  BY <1>1 DEF Boards, PassTurn
<1> HIDE DEF c
<1>3. generateHash(c) = Xor(generateHash(b), PlayerKey)
  BY <1>2, TurnHash
<1>4. HashInStep(c)
  BY <1>2, <1>3 DEF HashInStep
<1> QED
  BY <1>2, <1>4 DEF TurnIsPassed, c

\* The board performMove() makes of the one with the pieces moved.
Finish(b, moved, m, type) ==
  LET player == b.player
      rights == updateCastlingRights(moved, m)
      ep == setEnpessant(clearEnpessant(rights), player, m)
      attacked == updateAttacks(updateOccupation(ep))
  IN [attacked EXCEPT
        !.fullMoves = IF player = "Black" THEN @ + 1 ELSE @,
        !.halfMoves = IF isCapture(m) \/ type = "Pawn" THEN 0 ELSE @ + 1,
        !.player = nextPlayer(player),
        !.hash = Xor(@, PlayerKey)]

\* What performMove() leaves, but for the pieces.
Finished(b, c, m) ==
  /\ c \in Boards /\ IsFresh(c)
  /\ c.castlingRights = b.castlingRights \ (castlingRightMaskTable[m.from]
                                            \cup castlingRightMaskTable[m.to])
  /\ c.player = nextPlayer(b.player)
  /\ c.enPessant = IF isDoublePush(m) THEN enpessantCapturePosition(b.player, m.to) ELSE NoPosition

LEMMA FreshIs ==
  ASSUME NEW b
  PROVE  IsFresh(b) <=> OccupationAndAttacksAre(b) /\ HashInStep(b) /\ KingPawnHashInStep(b)
BY DEF IsFresh, OccupationAndAttacksAre, HashInStep, KingPawnHashInStep

LEMMA FinishIs ==
  ASSUME NEW b \in Boards, IsFresh(b), NEW moved, InStep(b, moved), NEW m, NEW type,
         isDoublePush(m) => enpessantCapturePosition(b.player, m.to) \in Squares
  PROVE  /\ Finished(b, Finish(b, moved, m, type), m)
         /\ Finish(b, moved, m, type).pieces = moved.pieces
<1> DEFINE player == b.player
           rights == updateCastlingRights(moved, m)
           cleared == clearEnpessant(rights)
           ep == setEnpessant(cleared, player, m)
           attacked == updateAttacks(updateOccupation(ep))
           full == IF player = "Black" THEN attacked.fullMoves + 1 ELSE attacked.fullMoves
           half == IF isCapture(m) \/ type = "Pawn" THEN 0 ELSE attacked.halfMoves + 1
           c == PassTurn(attacked, full, half)
<1>1. moved \in Boards /\ HashInStep(moved) /\ KingPawnHashInStep(moved) /\ SameButPieces(b, moved)
  BY FreshIs DEF InStep
<1>2. /\ StaysInStep(moved, rights)
      /\ rights.castlingRights = b.castlingRights \ (castlingRightMaskTable[m.from]
                                                     \cup castlingRightMaskTable[m.to])
      /\ rights.player = player
  <2>1. /\ StaysInStep(moved, rights)
        /\ rights.castlingRights = moved.castlingRights \ (castlingRightMaskTable[m.from]
                                                           \cup castlingRightMaskTable[m.to])
        /\ rights.player = moved.player
    BY <1>1, RightsUpdated, Zenon
  <2>2. moved.castlingRights = b.castlingRights /\ moved.player = b.player
    BY <1>1 DEF SameButPieces
  <2> HIDE DEF rights
  <2> QED
    BY <2>1, <2>2
<1>3. /\ StaysInStep(rights, cleared) /\ cleared.enPessant = NoPosition
      /\ cleared.castlingRights = rights.castlingRights /\ cleared.player = player
  <2> HIDE DEF rights
  <2> QED
    BY <1>2, EnPassantCleared DEF StaysInStep
<1>4. /\ StaysInStep(cleared, ep)
      /\ ep.enPessant = IF isDoublePush(m) THEN enpessantCapturePosition(player, m.to) ELSE NoPosition
      /\ ep.castlingRights = cleared.castlingRights /\ ep.player = player
  <2>1. cleared \in Boards
    BY <1>3 DEF StaysInStep
  <2> HIDE DEF cleared
  <2> QED
    BY <1>3, <2>1, EnPassantSet
<1>5. /\ StaysInStep(ep, attacked) /\ OccupationAndAttacksAre(attacked)
      /\ attacked.castlingRights = ep.castlingRights /\ attacked.player = player
      /\ attacked.enPessant = ep.enPessant
  <2>1. ep \in Boards
    BY <1>4 DEF StaysInStep
  <2> HIDE DEF ep
  <2> QED
    BY <1>4, <2>1, AttacksUpdated
<1>6. Finish(b, moved, m, type) = c
  <2>1. attacked.player = player
    BY <1>5
  <2>2. Finish(b, moved, m, type) =
          [attacked EXCEPT !.fullMoves = full, !.halfMoves = half,
             !.player = nextPlayer(player), !.hash = Xor(attacked.hash, PlayerKey)]
    BY Zenon DEF Finish
  <2> HIDE DEF attacked, full, half
  <2> QED
    BY <2>1, <2>2 DEF PassTurn
<1> HIDE DEF rights, cleared, ep, attacked
<1>7. /\ attacked \in Boards /\ attacked.pieces = moved.pieces
      /\ HashInStep(attacked) /\ KingPawnHashInStep(attacked)
  BY <1>1, <1>2, <1>3, <1>4, <1>5 DEF StaysInStep
<1>8. full \in Nat /\ half \in Nat
  BY <1>7, BoardFields
<1> HIDE DEF full, half
<1>9. /\ c \in Boards /\ c.pieces = attacked.pieces /\ HashInStep(c)
      /\ c.occupation = attacked.occupation /\ c.attacks = attacked.attacks
      /\ c.kpHash = attacked.kpHash /\ c.castlingRights = attacked.castlingRights
      /\ c.enPessant = attacked.enPessant /\ c.player = nextPlayer(attacked.player)
  BY <1>7, <1>8, TurnPassed DEF TurnIsPassed
<1> HIDE DEF c
<1>10. IsFresh(c)
  <2>1. KingPawnHashInStep(c)
    BY <1>7, <1>9, HashesFollow DEF KingPawnHashInStep
  <2>2. both(c) = both(attacked) /\ \A p : getAllAttacks(c, p) = getAllAttacks(attacked, p)
    BY <1>9, AttacksFollow DEF both
  <2>3. OccupationAndAttacksAre(c)
    BY <1>5, <1>9, <2>2 DEF OccupationAndAttacksAre
  <2> QED
    BY <1>9, <2>1, <2>3, FreshIs
<1> QED
  BY <1>2, <1>3, <1>4, <1>5, <1>6, <1>7, <1>9, <1>10 DEF Finished

LEMMA NullMoveIs ==
  ASSUME NEW b \in Boards, IsFresh(b)
  PROVE  LET c == performNullMove(b)
         IN /\ c \in Boards /\ IsFresh(c) /\ c.pieces = b.pieces
            /\ c.castlingRights = b.castlingRights /\ c.attacks = b.attacks
            /\ c.enPessant = NoPosition /\ c.player = nextPlayer(b.player)
<1> DEFINE cleared == clearEnpessant(b)
           c == PassTurn(cleared, cleared.fullMoves, cleared.halfMoves)
<1>1. /\ StaysInStep(b, cleared) /\ cleared.enPessant = NoPosition
      /\ cleared.castlingRights = b.castlingRights /\ cleared.player = b.player
      /\ cleared.occupation = b.occupation /\ cleared.attacks = b.attacks
  BY EnPassantCleared
<1>2. performNullMove(b) =
        [cleared EXCEPT !.player = nextPlayer(cleared.player), !.hash = Xor(cleared.hash, PlayerKey)]
  BY Zenon DEF performNullMove
<1> HIDE DEF cleared
<1>3. /\ cleared \in Boards /\ HashInStep(cleared) /\ KingPawnHashInStep(cleared)
      /\ cleared.pieces = b.pieces
  BY <1>1, FreshIs DEF StaysInStep
<1>4. performNullMove(b) = c
  <2> DEFINE n == performNullMove(b)
  <2>1. n = [cleared EXCEPT !.player = nextPlayer(cleared.player), !.hash = Xor(cleared.hash, PlayerKey)]
    BY <1>2
  <2>2. /\ cleared = [cleared EXCEPT !.fullMoves = cleared.fullMoves, !.halfMoves = cleared.halfMoves]
    BY <1>3 DEF Boards
  <2> QED
    BY <1>3, <2>1, <2>2 DEF Boards, PassTurn
<1>5. /\ c \in Boards /\ c.pieces = cleared.pieces /\ HashInStep(c)
      /\ c.occupation = cleared.occupation /\ c.attacks = cleared.attacks
      /\ c.kpHash = cleared.kpHash /\ c.castlingRights = cleared.castlingRights
      /\ c.enPessant = cleared.enPessant /\ c.player = nextPlayer(cleared.player)
  <2>1. cleared.fullMoves \in Nat /\ cleared.halfMoves \in Nat
    BY <1>3, BoardFields
  <2> QED
    BY <1>3, <2>1, TurnPassed DEF TurnIsPassed
<1> HIDE DEF c
<1>6. IsFresh(c)
  <2>1. KingPawnHashInStep(c)
    BY <1>3, <1>5, HashesFollow DEF KingPawnHashInStep
  <2>2. \A p : getAllAttacks(c, p) = getAllAttacks(b, p)
    BY <1>1, <1>3, <1>5, AttacksFollow
  <2>3. OccupationAndAttacksAre(c)
    BY <1>1, <1>3, <1>5, <2>2, FreshIs DEF OccupationAndAttacksAre
  <2> QED
    BY <1>5, <2>1, <2>3, FreshIs
<1> QED
  BY <1>1, <1>3, <1>4, <1>5, <1>6

----------------------------------------------------------------------------
(* A move leads from a position to a position.                             *)

\* What the kinds of moves have in common.
IsMoveOf(b, m, gone, come, taken) ==
  /\ m.from \in Squares /\ m.to \in Squares
  /\ gone \in SUBSET (PieceTypes \X Squares) /\ come \in SUBSET (PieceTypes \X Squares)
  /\ taken \in SUBSET Squares
  \* The piece on `from' moves; a castling rook comes along with the king.
  /\ \A t \in PieceTypes, s \in Squares : <<t, s>> \in gone =>
       /\ s \in Own(b)[t]
       /\ s = m.from \/ (t = "Rook" /\ m.from = Home(b) + 4)
  /\ \A s \in Squares : <<"King", s>> \in come => <<"King", m.from>> \in gone
  /\ <<"King", m.from>> \in gone =>
       \E s \in Squares : \A r \in Squares : <<"King", r>> \in come <=> r = s
  \* They come to squares of their own, free of other pieces.
  /\ \A t \in PieceTypes, s \in Squares : <<t, s>> \in come =>
       /\ s \notin OwnSquares(b)
       /\ s \in TheirSquares(b) => s \in taken
       /\ \A u \in PieceTypes : <<u, s>> \in come => u = t
       /\ t = "Pawn" => Row(s) \notin {0, 7}
  /\ \A s \in Squares : <<"Pawn", s>> \in come => s = m.to /\ <<"Pawn", m.from>> \in gone
  \* What is taken is on `to', or a pawn.
  /\ \A s \in taken : s = m.to \/ s \in Theirs(b)["Pawn"]
  /\ \A s \in taken : s \notin Theirs(b)["King"]
  /\ isDoublePush(m) =>
       /\ <<"Pawn", m.to>> \in come /\ relativeRow(b.player, m.to) = 3
       /\ enpessantCapturePosition(b.player, m.to) \notin OwnSquares(b) \cup TheirSquares(b)
       /\ \A t \in PieceTypes : <<t, enpessantCapturePosition(b.player, m.to)>> \notin come

LEMMA StandApart ==
  ASSUME NEW b \in Boards,
         \A p, q \in Players, t, u \in PieceTypes, s \in Squares :
           s \in b.pieces[p][t] /\ s \in b.pieces[q][u] => p = q /\ t = u
  PROVE  PiecesStandApart(b)
<1> SUFFICES ASSUME NEW x \in Players \X PieceTypes, NEW y \in Players \X PieceTypes, x # y,
                    NEW s, s \in b.pieces[x[1]][x[2]], s \in b.pieces[y[1]][y[2]]
             PROVE  FALSE
  BY DEF PiecesStandApart
<1>1. s \in Squares
  BY BoardFields DEF PieceSets
<1> QED
  BY <1>1

LEMMA ApartAfter ==
  ASSUME NEW b \in Boards, PiecesStandApart(b), NEW m, NEW gone, NEW come, NEW taken,
         IsMoveOf(b, m, gone, come, taken), NEW c \in Boards, Transfer(b, c, gone, come, taken)
  PROVE  PiecesStandApart(c)
<1> DEFINE player == b.player
           their == nextPlayer(player)
<1>1. player \in Players /\ their \in Players /\ their # player /\ \A q \in Players : q = player \/ q = their
  BY BoardFields, PlayersAre
<1>2. \A t \in PieceTypes, s \in Squares :
        /\ s \in c.pieces[player][t] => s \in b.pieces[player][t] \/ <<t, s>> \in come
        /\ s \in c.pieces[their][t] => s \in b.pieces[their][t] /\ s \notin taken
  BY DEF Transfer, Own, Theirs
<1>3. \A t \in PieceTypes, s \in Squares : <<t, s>> \in come =>
        /\ \A u \in PieceTypes : s \notin b.pieces[player][u]
        /\ \A u \in PieceTypes : s \in b.pieces[their][u] => s \in taken
        /\ \A u \in PieceTypes : <<u, s>> \in come => u = t
  BY SquaresOf DEF IsMoveOf, Own, Theirs
<1>4. ASSUME NEW p \in Players, NEW q \in Players, NEW t \in PieceTypes, NEW u \in PieceTypes,
             NEW s \in Squares, s \in b.pieces[p][t], s \in b.pieces[q][u]
      PROVE  p = q /\ t = u
  BY <1>4, PieceAtIsOne
<1> SUFFICES ASSUME NEW p \in Players, NEW q \in Players, NEW t \in PieceTypes, NEW u \in PieceTypes,
                    NEW s \in Squares, s \in c.pieces[p][t], s \in c.pieces[q][u]
             PROVE  p = q /\ t = u
  BY StandApart
<1>5. CASE p = player /\ q = player
  <2>1. CASE <<t, s>> \in come
    BY <1>2, <1>3, <1>5, <2>1
  <2>2. CASE <<t, s>> \notin come
    <3>1. s \in b.pieces[player][t] /\ s \in b.pieces[player][u]
      BY <1>2, <1>3, <1>5, <2>2
    <3> QED
      BY <1>1, <1>4, <1>5, <3>1
  <2> QED
    BY <2>1, <2>2
<1>6. ASSUME NEW v \in PieceTypes, NEW w \in PieceTypes, s \in c.pieces[player][v], s \in c.pieces[their][w]
      PROVE  FALSE
  <2>1. s \in b.pieces[their][w] /\ s \notin taken
    BY <1>2, <1>6
  <2>2. s \in b.pieces[player][v]
    BY <1>2, <1>3, <1>6, <2>1
  <2> QED
    BY <1>1, <1>4, <2>1, <2>2
<1>8. CASE p = their /\ q = their
  <2>1. s \in b.pieces[their][t] /\ s \in b.pieces[their][u]
    BY <1>2, <1>8
  <2> QED
    BY <1>1, <1>4, <1>8, <2>1
<1> QED
  BY <1>1, <1>5, <1>6, <1>8

LEMMA OneKingAfter ==
  ASSUME NEW b \in Boards, OneKingEach(b), NEW m, NEW gone, NEW come, NEW taken,
         IsMoveOf(b, m, gone, come, taken), NEW c \in Boards, Transfer(b, c, gone, come, taken)
  PROVE  OneKingEach(c)
<1> DEFINE player == b.player
           their == nextPlayer(player)
<1>1. /\ player \in Players /\ their \in Players /\ \A q \in Players : q = player \/ q = their
      /\ "King" \in PieceTypes
  BY BoardFields, PlayersAre, PieceTypesAre
<1>2. \A q \in Players : c.pieces[q]["King"] \subseteq Squares
  BY <1>1, BoardFields DEF PieceSets
<1>3. \A s \in Squares :
        /\ s \in c.pieces[player]["King"] <=>
             (s \in Own(b)["King"] /\ <<"King", s>> \notin gone) \/ <<"King", s>> \in come
        /\ s \in c.pieces[their]["King"] <=> s \in Theirs(b)["King"] /\ s \notin taken
  BY <1>1 DEF Transfer
<1>4. PICK king \in Squares : Own(b)["King"] = {king}
  BY <1>1 DEF OneKingEach, Own
<1>5. \E s \in Squares : c.pieces[player]["King"] = {s}
  <2>1. \A s \in Squares : <<"King", s>> \in gone => s = king /\ s = m.from
    BY <1>1, <1>4, PieceTypesAre DEF IsMoveOf
  <2>2. CASE <<"King", m.from>> \in gone
    <3>1. PICK s \in Squares : \A r \in Squares : <<"King", r>> \in come <=> r = s
      BY <2>2 DEF IsMoveOf
    <3>2. m.from \in Squares
      BY DEF IsMoveOf
    <3>3. \A r \in Squares : r \in c.pieces[player]["King"] <=> r = s
      BY <1>3, <1>4, <2>1, <2>2, <3>1, <3>2
    <3>4. c.pieces[player]["King"] = {s}
      BY <1>1, <1>2, <3>3
    <3> QED
      BY <3>4
  <2>3. CASE <<"King", m.from>> \notin gone
    <3>1. \A r \in Squares : <<"King", r>> \notin come
      BY <2>3 DEF IsMoveOf
    <3>2. \A r \in Squares : r \in c.pieces[player]["King"] <=> r = king
      BY <1>3, <1>4, <2>1, <2>3, <3>1
    <3>3. c.pieces[player]["King"] = {king}
      BY <1>1, <1>2, <3>2
    <3> QED
      BY <3>3
  <2> QED
    BY <2>2, <2>3
<1>6. \E s \in Squares : c.pieces[their]["King"] = {s}
  <2>1. PICK s \in Squares : Theirs(b)["King"] = {s}
    BY <1>1 DEF OneKingEach, Theirs
  <2>2. s \notin taken
    BY <2>1 DEF IsMoveOf
  <2>3. \A r \in Squares : r \in c.pieces[their]["King"] <=> r = s
    BY <1>3, <2>1, <2>2
  <2>4. c.pieces[their]["King"] = {s}
    BY <1>1, <1>2, <2>3
  <2> QED
    BY <2>4
<1> QED
  BY <1>1, <1>5, <1>6 DEF OneKingEach

LEMMA PawnsAfter ==
  ASSUME NEW b \in Boards, PawnsAreOnTheirWay(b), NEW m, NEW gone, NEW come, NEW taken,
         IsMoveOf(b, m, gone, come, taken), NEW c \in Boards, Transfer(b, c, gone, come, taken)
  PROVE  PawnsAreOnTheirWay(c)
<1> DEFINE player == b.player
           their == nextPlayer(player)
<1>1. /\ player \in Players /\ their \in Players /\ \A q \in Players : q = player \/ q = their
      /\ "Pawn" \in PieceTypes
  BY BoardFields, PlayersAre, PieceTypesAre
<1> SUFFICES ASSUME NEW p \in Players, NEW s \in c.pieces[p]["Pawn"]
             PROVE  s \notin RowMask[0] \cup RowMask[7]
  BY DEF PawnsAreOnTheirWay
<1>2. s \in Squares
  BY <1>1, BoardFields DEF PieceSets
<1>3. s \in b.pieces[p]["Pawn"] \/ <<"Pawn", s>> \in come
  BY <1>1, <1>2 DEF Transfer, Own, Theirs
<1>4. CASE s \in b.pieces[p]["Pawn"]
  BY <1>4 DEF PawnsAreOnTheirWay
<1>5. CASE <<"Pawn", s>> \in come
  <2>1. Row(s) \notin {0, 7}
    BY <1>1, <1>2, <1>5 DEF IsMoveOf
  <2> QED
    BY <1>2, <2>1, MasksAre
<1> QED
  BY <1>3, <1>4, <1>5

LEMMA PawnsFewAfter ==
  ASSUME NEW b \in Boards, PawnsAreFew(b), NEW m, NEW gone, NEW come, NEW taken,
         IsMoveOf(b, m, gone, come, taken), NEW c \in Boards, Transfer(b, c, gone, come, taken)
  PROVE  PawnsAreFew(c)
<1> DEFINE player == b.player
           their == nextPlayer(player)
<1>1. /\ player \in Players /\ their \in Players /\ \A q \in Players : q = player \/ q = their
      /\ "Pawn" \in PieceTypes
  BY BoardFields, PlayersAre, PieceTypesAre
<1> SUFFICES ASSUME NEW p \in Players PROVE Cardinality(c.pieces[p]["Pawn"]) =< 8
  BY DEF PawnsAreFew
<1> DEFINE A == b.pieces[p]["Pawn"]
           B == c.pieces[p]["Pawn"]
<1>2. A \subseteq Squares /\ B \subseteq Squares /\ m.from \in Squares /\ m.to \in Squares
  BY <1>1, BoardFields DEF PieceSets, IsMoveOf
<1>3. \A X : X \subseteq Squares => IsFiniteSet(X) /\ Cardinality(X) \in Nat
  <2>1. 0 \in Int /\ 63 \in Int
    OBVIOUS
  <2>2. IsFiniteSet(Squares)
    BY <2>1, FS_Interval, Zenon DEF Squares
  <2> QED
    BY <2>2, FS_Subset, FS_CardinalityType
<1>4. Cardinality(A) =< 8
  BY DEF PawnsAreFew
<1>5. B \subseteq A \/ (m.from \in A /\ B \subseteq (A \ {m.from}) \cup {m.to})
  <2>1. CASE p = their
    BY <1>1, <1>2, <2>1 DEF Transfer, Theirs
  <2>2. CASE p = player /\ \A s \in Squares : <<"Pawn", s>> \notin come
    BY <1>1, <1>2, <2>2 DEF Transfer, Own
  <2>3. ASSUME p = player, NEW s \in Squares, <<"Pawn", s>> \in come
        PROVE  m.from \in A /\ B \subseteq (A \ {m.from}) \cup {m.to}
    <3>1. <<"Pawn", m.from>> \in gone /\ \A r \in Squares : <<"Pawn", r>> \in come => r = m.to
      BY <2>3 DEF IsMoveOf
    <3>2. m.from \in A
      BY <1>1, <1>2, <2>3, <3>1 DEF IsMoveOf, Own
    <3> QED
      BY <1>1, <1>2, <2>3, <3>1, <3>2 DEF Transfer, Own
  <2> QED
    BY <1>1, <2>1, <2>2, <2>3
<1> HIDE DEF A, B
<1>6. CASE B \subseteq A
  <2>1. Cardinality(B) =< Cardinality(A)
    BY <1>2, <1>3, <1>6, FS_Subset
  <2> QED
    BY <1>2, <1>3, <1>4, <2>1 DEF B
<1>7. CASE m.from \in A /\ B \subseteq (A \ {m.from}) \cup {m.to}
  <2> DEFINE C == A \ {m.from}
             D == C \cup {m.to}
  <2>1. C \subseteq Squares /\ D \subseteq Squares
    BY <1>2
  <2>2. Cardinality(C) = Cardinality(A) - 1
    BY <1>2, <1>3, <1>7, FS_RemoveElement
  <2>3. Cardinality(D) =< Cardinality(C) + 1
    <3>1. IsFiniteSet(C) /\ Cardinality(C) \in Nat
      BY <1>3, <2>1
    <3> HIDE DEF C
    <3>2. Cardinality(D) = IF m.to \in C THEN Cardinality(C) ELSE Cardinality(C) + 1
      BY <3>1, FS_AddElement
    <3> QED
      BY <3>1, <3>2
  <2>4. B \subseteq D
    BY <1>7
  <2> HIDE DEF C, D
  <2>5. Cardinality(B) =< Cardinality(D)
    BY <1>3, <2>1, <2>4, FS_Subset
  <2>6. Cardinality(A) \in Nat /\ Cardinality(B) \in Nat /\ Cardinality(C) \in Nat /\ Cardinality(D) \in Nat
    BY <1>2, <1>3, <2>1
  <2>7. Cardinality(B) =< 8
    BY <1>4, <2>2, <2>3, <2>5, <2>6
  <2> QED
    BY <2>7 DEF B
<1> QED
  BY <1>5, <1>6, <1>7

LEMMA RightsAreLost ==
  ASSUME NEW p \in Players, NEW side \in {"KingSide", "QueenSide"}
  PROVE  LET home == IF p = "White" THEN A1 ELSE A8
             corner == home + (IF side = "KingSide" THEN 7 ELSE 0)
         IN /\ home + 4 \in Squares /\ corner \in Squares
            /\ Right(p, side) \in castlingRightMaskTable[home + 4]
            /\ Right(p, side) \in castlingRightMaskTable[corner]
<1>1. CASE p = "White" /\ side = "KingSide"
  BY <1>1 DEF Right, castlingRightMaskTable, Squares, A1, A8, E1, E8, H1, H8
<1>2. CASE p = "White" /\ side = "QueenSide"
  BY <1>2 DEF Right, castlingRightMaskTable, Squares, A1, A8, E1, E8, H1, H8
<1>3. CASE p = "Black" /\ side = "KingSide"
  BY <1>3 DEF Right, castlingRightMaskTable, Squares, A1, A8, E1, E8, H1, H8
<1>4. CASE p = "Black" /\ side = "QueenSide"
  BY <1>4 DEF Right, castlingRightMaskTable, Squares, A1, A8, E1, E8, H1, H8
<1> QED
  BY <1>1, <1>2, <1>3, <1>4 DEF Players

LEMMA RightsAfter ==
  ASSUME NEW b \in Boards, RightsNeedKingAndRook(b), PiecesStandApart(b),
         NEW m, NEW gone, NEW come, NEW taken, IsMoveOf(b, m, gone, come, taken),
         NEW c, Finished(b, c, m), Transfer(b, c, gone, come, taken)
  PROVE  RightsNeedKingAndRook(c)
<1> SUFFICES ASSUME NEW q \in Players, NEW side \in {"KingSide", "QueenSide"},
                    Right(q, side) \in c.castlingRights
             PROVE  LET home == IF q = "White" THEN A1 ELSE A8
                    IN /\ home + 4 \in c.pieces[q]["King"]
                       /\ home + (IF side = "KingSide" THEN 7 ELSE 0) \in c.pieces[q]["Rook"]
  BY DEF RightsNeedKingAndRook
<1> DEFINE player == b.player
           their == nextPlayer(player)
           home == IF q = "White" THEN A1 ELSE A8
           king == home + 4
           corner == home + (IF side = "KingSide" THEN 7 ELSE 0)
<1>1. /\ player \in Players /\ their \in Players /\ their # player /\ \A p \in Players : p = player \/ p = their
      /\ "King" \in PieceTypes /\ "Rook" \in PieceTypes /\ "Pawn" \in PieceTypes
  BY BoardFields, PlayersAre, PieceTypesAre
<1>2. /\ Right(q, side) \in b.castlingRights
      /\ Right(q, side) \notin castlingRightMaskTable[m.from]
      /\ Right(q, side) \notin castlingRightMaskTable[m.to]
  BY DEF Finished
<1>3. king \in b.pieces[q]["King"] /\ corner \in b.pieces[q]["Rook"]
  BY <1>2 DEF RightsNeedKingAndRook
<1>4. /\ king \in Squares /\ corner \in Squares
      /\ m.from # king /\ m.from # corner /\ m.to # king /\ m.to # corner
  BY <1>2, RightsAreLost
<1>5. q = player => king = Home(b) + 4
  BY DEF Home
<1> HIDE DEF home, king, corner
<1>6. CASE q = player
  <2>1. <<"King", king>> \notin gone /\ <<"Rook", corner>> \notin gone
    BY <1>1, <1>4, <1>5, <1>6 DEF IsMoveOf
  <2> QED
    BY <1>1, <1>3, <1>4, <1>6, <2>1 DEF Transfer, Own, home, king, corner
<1>7. CASE q = their
  <2>1. king \notin taken
    BY <1>3, <1>7 DEF IsMoveOf, Theirs
  <2>2. corner \notin b.pieces[their]["Pawn"]
    BY <1>1, <1>3, <1>7, PieceAtIsOne
  <2>3. corner \notin taken
    BY <1>4, <2>2 DEF IsMoveOf, Theirs
  <2> QED
    BY <1>1, <1>3, <1>4, <1>7, <2>1, <2>3 DEF Transfer, Theirs, home, king, corner
<1> QED
  BY <1>1, <1>6, <1>7

\* The square behind a pawn that has made its double step.
LEMMA BehindDoublePush ==
  ASSUME NEW p \in Players, NEW to \in Squares, relativeRow(p, to) = 3
  PROVE  /\ enpessantCapturePosition(p, to) \in Squares
         /\ relativeRow(nextPlayer(p), enpessantCapturePosition(p, to)) = 5
         /\ enpessantCapturePosition(nextPlayer(p), enpessantCapturePosition(p, to)) = to
<1>1. CASE p = "White"
  BY <1>1 DEF Squares, Row, relativeRow, enpessantCapturePosition, Forward, nextPlayer
<1>2. CASE p = "Black"
  BY <1>2 DEF Squares, Row, relativeRow, enpessantCapturePosition, Forward, nextPlayer
<1> QED
  BY <1>1, <1>2 DEF Players

LEMMA EnPassantAfter ==
  ASSUME NEW b \in Boards, NEW m, NEW gone, NEW come, NEW taken, IsMoveOf(b, m, gone, come, taken),
         NEW c, Finished(b, c, m), Transfer(b, c, gone, come, taken)
  PROVE  EnPassantNeedsItsPawn(c)
<1> SUFFICES ASSUME c.enPessant # NoPosition
             PROVE  /\ \A p \in Players : c.enPessant \notin occupationOf(c.pieces, p)
                    /\ relativeRow(c.player, c.enPessant) = 5
                    /\ enpessantCapturePosition(c.player, c.enPessant)
                         \in c.pieces[nextPlayer(c.player)]["Pawn"]
  BY DEF EnPassantNeedsItsPawn
<1>1. /\ b.player \in Players /\ c.player = nextPlayer(b.player) /\ nextPlayer(c.player) = b.player
      /\ "Pawn" \in PieceTypes /\ \A p \in Players : p = b.player \/ p = nextPlayer(b.player)
  BY BoardFields, PlayersAre, PieceTypesAre DEF Finished
<1>2. isDoublePush(m) /\ c.enPessant = enpessantCapturePosition(b.player, m.to)
  BY DEF Finished
<1>3. <<"Pawn", m.to>> \in come /\ relativeRow(b.player, m.to) = 3 /\ m.to \in Squares
  BY <1>2 DEF IsMoveOf
<1>4. m.to \in c.pieces[b.player]["Pawn"]
  BY <1>1, <1>3 DEF Transfer
<1>5. c.enPessant \in Squares
  BY <1>1, <1>2, <1>3, BehindDoublePush
<1>6. /\ c.enPessant \notin OwnSquares(b) /\ c.enPessant \notin TheirSquares(b)
      /\ \A t \in PieceTypes : <<t, c.enPessant>> \notin come
  BY <1>2 DEF IsMoveOf
<1>7. ASSUME NEW p \in Players, NEW t \in PieceTypes PROVE c.enPessant \notin c.pieces[p][t]
  BY <1>1, <1>5, <1>6, SquaresOf DEF Transfer, Own, Theirs
<1>8. \A p \in Players : c.enPessant \notin occupationOf(c.pieces, p)
  BY <1>7 DEF occupationOf
<1> QED
  BY <1>1, <1>2, <1>3, <1>4, <1>8, BehindDoublePush

LEMMA PositionAfter ==
  ASSUME NEW b \in Boards, IsPosition(b), NEW m, NEW gone, NEW come, NEW taken,
         IsMoveOf(b, m, gone, come, taken), NEW c, Finished(b, c, m),
         Transfer(b, c, gone, come, taken), ~isKingAttacked(c, b.player)
  PROVE  IsPosition(c)
<1>1. nextPlayer(c.player) = b.player /\ c \in Boards
  BY BoardFields, PlayersAre DEF Finished
<1> QED
  BY <1>1, ApartAfter, OneKingAfter, PawnsAfter, PawnsFewAfter, RightsAfter, EnPassantAfter DEF IsPosition

\* The kinds of moves there are.
IsAMove(b, m) ==
  \/ \E type \in PieceTypes : PlainMove(b, m, type)
  \/ EnPassantMove(b, m) \/ PromotionMove(b, m) \/ CastleMove(b, m)

\* What the move does to the pieces.
PiecesMoved(b, m, c) ==
  \E gone, come, taken : IsMoveOf(b, m, gone, come, taken) /\ Transfer(b, c, gone, come, taken)

LEMMA DispatchIs ==
  ASSUME NEW b, NEW m, NEW type, type = getAttackerAtSquare(b, b.player, m.from)
  PROVE  /\ isCastleMove(m) /\ ~takeEnPessant(m) /\ ~isPromotionMove(m) =>
              performMove(b, m) = Finish(b, performCastleMove(b, m), m, type)
         /\ ~isCastleMove(m) /\ takeEnPessant(m) /\ ~isPromotionMove(m) =>
              performMove(b, m) = Finish(b, performEnpessantMove(b, m), m, type)
         /\ ~isCastleMove(m) /\ ~takeEnPessant(m) /\ isPromotionMove(m) =>
              performMove(b, m) = Finish(b, performPromotionMove(b, m), m, type)
         /\ ~isCastleMove(m) /\ ~takeEnPessant(m) /\ ~isPromotionMove(m) =>
              performMove(b, m) = Finish(b, performPlainMove(b, m, type), m, type)
<1>1. CASE isCastleMove(m) /\ ~takeEnPessant(m) /\ ~isPromotionMove(m)
  BY <1>1 DEF performMove, Finish
<1>2. CASE ~isCastleMove(m) /\ takeEnPessant(m) /\ ~isPromotionMove(m)
  BY <1>2 DEF performMove, Finish
<1>3. CASE ~isCastleMove(m) /\ ~takeEnPessant(m) /\ isPromotionMove(m)
  BY <1>3 DEF performMove, Finish
<1>4. CASE ~isCastleMove(m) /\ ~takeEnPessant(m) /\ ~isPromotionMove(m)
  BY <1>4 DEF performMove, Finish
<1> QED
  BY <1>1, <1>2, <1>3, <1>4

LEMMA MovedIs ==
  ASSUME NEW b \in Boards, IsFresh(b), NEW m, NEW type, NEW gone, NEW come, NEW taken,
         IsMoveOf(b, m, gone, come, taken), NEW moved, InStep(b, moved),
         Transfer(b, moved, gone, come, taken)
  PROVE  /\ Finished(b, Finish(b, moved, m, type), m)
         /\ PiecesMoved(b, m, Finish(b, moved, m, type))
         /\ Transfer(b, Finish(b, moved, m, type), gone, come, taken)
<1> DEFINE c == Finish(b, moved, m, type)
<1>0. isDoublePush(m) => relativeRow(b.player, m.to) = 3 /\ m.to \in Squares
  BY DEF IsMoveOf
<1>1. isDoublePush(m) => enpessantCapturePosition(b.player, m.to) \in Squares
  BY <1>0, BoardFields, BehindDoublePush
<1>2. Finished(b, c, m) /\ c.pieces = moved.pieces
  BY <1>1, FinishIs
<1> HIDE DEF c
<1>3. Transfer(b, c, gone, come, taken)
  BY <1>2 DEF Transfer
<1> QED
  BY <1>2, <1>3 DEF PiecesMoved, c

LEMMA PlainMoveMade ==
  ASSUME NEW b \in Boards, IsFresh(b), IsPosition(b), NEW m, NEW type \in PieceTypes, PlainMove(b, m, type)
  PROVE  /\ Finished(b, performMove(b, m), m) /\ PiecesMoved(b, m, performMove(b, m))
         /\ Transfer(b, performMove(b, m), {<<type, m.from>>}, {<<type, m.to>>}, {m.to})
<1> DEFINE gone == {<<type, m.from>>}
           come == {<<type, m.to>>}
           taken == {m.to}
           moved == performPlainMove(b, m, type)
<1>1. PiecesStandApart(b) /\ b.player \in Players /\ b.pieces \in PieceSets
  BY BoardFields DEF IsPosition
<1>2. m.from \in b.pieces[b.player][type] /\ m.from \in Squares /\ m.to \in Squares
  BY <1>1 DEF PlainMove, ReachesSquare, PieceSets, Own
<1>3. performMove(b, m) = Finish(b, moved, m, type)
  <2>1. getAttackerAtSquare(b, b.player, m.from) = type
    BY <1>1, <1>2, PieceAtIsOne DEF getAttackerAtSquare
  <2>2. ~isCastleMove(m) /\ ~takeEnPessant(m) /\ ~isPromotionMove(m)
    BY DEF PlainMove, isCastleMove, takeEnPessant, isPromotionMove, Flag
  <2> QED
    BY <2>1, <2>2, DispatchIs
<1>4. InStep(b, moved) /\ Transfer(b, moved, gone, come, taken)
  BY <1>1, PlainMoveIs
<1>5. IsMoveOf(b, m, gone, come, taken)
  <2>1. isDoublePush(m) => type = "Pawn" /\ relativeRow(b.player, m.to) = 3
    BY <1>1, <1>2, StepsAhead DEF PlainMove, isDoublePush
  <2>4. isDoublePush(m) =>
          /\ enpessantCapturePosition(b.player, m.to) \notin OwnSquares(b) \cup TheirSquares(b)
          /\ enpessantCapturePosition(b.player, m.to) # m.to
    <3> SUFFICES ASSUME isDoublePush(m)
                 PROVE  /\ enpessantCapturePosition(b.player, m.to) \notin OwnSquares(b) \cup TheirSquares(b)
                        /\ enpessantCapturePosition(b.player, m.to) # m.to
      OBVIOUS
    <3>1. /\ m.to = m.from + 2 * Forward(b.player)
          /\ m.from + Forward(b.player) \notin OwnSquares(b) \cup TheirSquares(b)
      BY DEF PlainMove, isDoublePush
    <3>2. Forward(b.player) \in {8, -8} /\ m.from \in Int /\ m.to \in Int
      BY <1>2 DEF Forward, Squares
    <3>3. enpessantCapturePosition(b.player, m.to) = m.from + Forward(b.player)
      BY <3>1, <3>2 DEF enpessantCapturePosition
    <3> QED
      BY <3>1, <3>2, <3>3
  <2>2. m.to \notin OwnSquares(b) /\ m.to \notin Theirs(b)["King"]
    BY DEF PlainMove, ReachesSquare
  <2>3. type = "Pawn" => Row(m.to) \notin {0, 7}
    BY DEF PlainMove
  <2> QED
    BY <1>1, <1>2, <2>1, <2>2, <2>3, <2>4 DEF IsMoveOf, Own
<1> HIDE DEF moved, gone, come, taken
<1>9. /\ Finished(b, performMove(b, m), m) /\ PiecesMoved(b, m, performMove(b, m))
      /\ Transfer(b, performMove(b, m), gone, come, taken)
  BY <1>3, <1>4, <1>5, MovedIs
<1> QED
  BY <1>9 DEF gone, come, taken

LEMMA EnPassantMoveMade ==
  ASSUME NEW b \in Boards, IsFresh(b), IsPosition(b), NEW m, EnPassantMove(b, m)
  PROVE  /\ Finished(b, performMove(b, m), m) /\ PiecesMoved(b, m, performMove(b, m))
         /\ Transfer(b, performMove(b, m), {<<"Pawn", m.from>>}, {<<"Pawn", m.to>>},
                     {enpessantCapturePosition(b.player, m.to)})
<1> DEFINE at == enpessantCapturePosition(b.player, m.to)
           gone == {<<"Pawn", m.from>>}
           come == {<<"Pawn", m.to>>}
           taken == {at}
           moved == performEnpessantMove(b, m)
           type == getAttackerAtSquare(b, b.player, m.from)
<1>1. /\ PiecesStandApart(b) /\ EnPassantNeedsItsPawn(b)
      /\ b.player \in Players /\ nextPlayer(b.player) \in Players /\ nextPlayer(b.player) # b.player
      /\ b.pieces \in PieceSets /\ "Pawn" \in PieceTypes /\ "King" \in PieceTypes
  BY BoardFields, PlayersAre, PieceTypesAre DEF IsPosition
<1>2. m.from \in b.pieces[b.player]["Pawn"] /\ m.from \in Squares /\ m.to \in Squares
  BY <1>1, BoardFields DEF EnPassantMove, PieceSets, Own
<1>3. performMove(b, m) = Finish(b, moved, m, type)
  <2>1. ~isCastleMove(m) /\ takeEnPessant(m) /\ ~isPromotionMove(m)
    BY DEF EnPassantMove, isCastleMove, takeEnPessant, isPromotionMove, Flag
  <2> HIDE DEF type
  <2> QED
    BY <2>1, DispatchIs DEF type
<1>4. InStep(b, moved) /\ Transfer(b, moved, gone, come, taken)
  BY <1>1, EnPassantMoveIs
<1>5. IsMoveOf(b, m, gone, come, taken)
  <2>1. ~isDoublePush(m)
    BY DEF EnPassantMove, isDoublePush, Flag
  <2>2. m.to \notin OwnSquares(b) /\ m.to \notin TheirSquares(b)
    BY DEF EnPassantMove
  <2>3. relativeRow(b.player, m.to) = 5 /\ at \in b.pieces[nextPlayer(b.player)]["Pawn"]
    BY <1>1 DEF EnPassantMove, EnPassantNeedsItsPawn
  <2>4. Row(m.to) \notin {0, 7}
    BY <1>1, <1>2, <2>3, RelativeRows
  <2>5. at \in Squares /\ at \notin b.pieces[nextPlayer(b.player)]["King"]
    BY <1>1, <2>3, PieceAtIsOne DEF PieceSets
  <2> HIDE DEF at
  <2> QED
    BY <1>1, <1>2, <2>1, <2>2, <2>3, <2>4, <2>5 DEF IsMoveOf, Own, Theirs
<1> HIDE DEF moved, gone, come, taken, type
<1>9. /\ Finished(b, performMove(b, m), m) /\ PiecesMoved(b, m, performMove(b, m))
      /\ Transfer(b, performMove(b, m), gone, come, taken)
  BY <1>3, <1>4, <1>5, MovedIs
<1> QED
  BY <1>9 DEF gone, come, taken

LEMMA PromotionMoveMade ==
  ASSUME NEW b \in Boards, IsFresh(b), IsPosition(b), NEW m,
         NEW t \in {"Queen", "Knight", "Bishop", "Rook"}, NEW capture \in BOOLEAN,
         m.from \in Own(b)["Pawn"], m.flag = promotionFlag(t, capture), ReachesSquare(b, m, capture)
  PROVE  /\ Finished(b, performMove(b, m), m) /\ PiecesMoved(b, m, performMove(b, m))
         /\ Transfer(b, performMove(b, m), {<<"Pawn", m.from>>}, {<<t, m.to>>}, {m.to})
<1> DEFINE gone == {<<"Pawn", m.from>>}
           come == {<<t, m.to>>}
           taken == {m.to}
           moved == performPromotionMove(b, m)
           type == getAttackerAtSquare(b, b.player, m.from)
<1>1. /\ PiecesStandApart(b) /\ b.player \in Players /\ b.pieces \in PieceSets
      /\ "Pawn" \in PieceTypes /\ t \in PieceTypes /\ t \notin {"Pawn", "King"}
  BY BoardFields, PieceTypesAre DEF IsPosition
<1>2. m.from \in b.pieces[b.player]["Pawn"] /\ m.from \in Squares /\ m.to \in Squares
  BY <1>1 DEF ReachesSquare, PieceSets, Own
<1>3. performMove(b, m) = Finish(b, moved, m, type)
  <2>1. promotionFlag(t, capture) \div 8 = 1 /\ promotionFlag(t, capture) \notin {0, 1, 2, 3, 4, 5}
    BY PromotionFlags
  <2>2. ~isCastleMove(m) /\ ~takeEnPessant(m) /\ isPromotionMove(m)
    BY <2>1 DEF isCastleMove, takeEnPessant, isPromotionMove, Flag
  <2> HIDE DEF type
  <2> QED
    BY <2>2, DispatchIs DEF type
<1>4. InStep(b, moved) /\ Transfer(b, moved, gone, come, taken)
  BY <1>1, <1>2, PromotionMoveIs DEF Own
<1>5. IsMoveOf(b, m, gone, come, taken)
  <2>1. ~isDoublePush(m)
    BY PromotionFlags DEF isDoublePush, Flag
  <2>2. m.to \notin OwnSquares(b) /\ m.to \notin Theirs(b)["King"]
    BY DEF ReachesSquare
  <2> QED
    BY <1>1, <1>2, <2>1, <2>2 DEF IsMoveOf, Own
<1> HIDE DEF moved, gone, come, taken, type
<1>9. /\ Finished(b, performMove(b, m), m) /\ PiecesMoved(b, m, performMove(b, m))
      /\ Transfer(b, performMove(b, m), gone, come, taken)
  BY <1>3, <1>4, <1>5, MovedIs
<1> QED
  BY <1>9 DEF gone, come, taken

LEMMA CastleMoveMade ==
  ASSUME NEW b \in Boards, IsFresh(b), IsPosition(b), NEW m, NEW side \in {"KingSide", "QueenSide"},
         Right(b.player, side) \in b.castlingRights,
         CastlingTable[b.player][side].free \cap (OwnSquares(b) \cup TheirSquares(b)) = {},
         m.from = Home(b) + 4, m.to = CastlingTable[b.player][side].to,
         m.flag = IF side = "KingSide" THEN Flag.KingCastle ELSE Flag.QueenCastle
  PROVE  /\ Finished(b, performMove(b, m), m) /\ PiecesMoved(b, m, performMove(b, m))
         /\ Transfer(b, performMove(b, m), {<<"King", m.from>>, <<"Rook", Corner(b, side)>>},
                     {<<"King", m.to>>, <<"Rook", Beside(b, side)>>}, {})
<1> DEFINE gone == {<<"King", m.from>>, <<"Rook", Corner(b, side)>>}
           come == {<<"King", m.to>>, <<"Rook", Beside(b, side)>>}
           taken == {}
           moved == performCastleMove(b, m)
           type == getAttackerAtSquare(b, b.player, m.from)
<1>1. /\ RightsNeedKingAndRook(b) /\ b.player \in Players /\ b.pieces \in PieceSets
      /\ "King" \in PieceTypes /\ "Rook" \in PieceTypes
  BY BoardFields, PieceTypesAre DEF IsPosition
<1>2. /\ m.from \in b.pieces[b.player]["King"] /\ Corner(b, side) \in b.pieces[b.player]["Rook"]
      /\ m.from \in Squares /\ Corner(b, side) \in Squares
  <2>1. m.from \in b.pieces[b.player]["King"] /\ Corner(b, side) \in b.pieces[b.player]["Rook"]
    BY <1>1 DEF RightsNeedKingAndRook, Home, Corner
  <2> QED
    BY <1>1, <2>1 DEF PieceSets
<1>3. /\ m.to \in Squares /\ Beside(b, side) \in Squares /\ m.to # Beside(b, side)
      /\ m.to \notin OwnSquares(b) \cup TheirSquares(b)
      /\ Beside(b, side) \notin OwnSquares(b) \cup TheirSquares(b)
  <2>1. /\ m.to \in Squares
        /\ m.to \notin OwnSquares(b) \cup TheirSquares(b)
        /\ m.to = Home(b) + (IF side = "KingSide" THEN 6 ELSE 2)
        /\ Beside(b, side) \in Squares
        /\ Beside(b, side) \notin OwnSquares(b) \cup TheirSquares(b)
    BY CastleSquares DEF Beside
  <2>2. m.to # Beside(b, side)
    BY <2>1 DEF Beside, Home, A1, A8
  <2> QED
    BY <2>1, <2>2
<1>4. performMove(b, m) = Finish(b, moved, m, type)
  <2>1. isCastleMove(m) /\ ~takeEnPessant(m) /\ ~isPromotionMove(m)
    BY DEF isCastleMove, takeEnPessant, isPromotionMove, Flag
  <2> HIDE DEF type
  <2> QED
    BY <2>1, DispatchIs DEF type
<1>5. InStep(b, moved) /\ Transfer(b, moved, gone, come, taken)
  BY <1>1, CastleMoveIs
<1>6. IsMoveOf(b, m, gone, come, taken)
  <2>1. ~isDoublePush(m)
    BY DEF isDoublePush, Flag
  <2>2. gone \in SUBSET (PieceTypes \X Squares) /\ come \in SUBSET (PieceTypes \X Squares)
    BY <1>1, <1>2, <1>3
  <2>3. \A t \in PieceTypes, s \in Squares :
          /\ <<t, s>> \in gone <=> (t = "King" /\ s = m.from) \/ (t = "Rook" /\ s = Corner(b, side))
          /\ <<t, s>> \in come <=> (t = "King" /\ s = m.to) \/ (t = "Rook" /\ s = Beside(b, side))
    OBVIOUS
  <2> HIDE DEF gone, come
  <2> QED
    BY <1>1, <1>2, <1>3, <2>1, <2>2, <2>3 DEF IsMoveOf, Own
<1> HIDE DEF moved, gone, come, taken, type
<1>9. /\ Finished(b, performMove(b, m), m) /\ PiecesMoved(b, m, performMove(b, m))
      /\ Transfer(b, performMove(b, m), gone, come, taken)
  BY <1>4, <1>5, <1>6, MovedIs
<1> QED
  BY <1>9 DEF gone, come, taken

\* A move of any kind is made as it should.
LEMMA MoveMade ==
  ASSUME NEW b \in Boards, IsFresh(b), IsPosition(b), NEW m, IsAMove(b, m)
  PROVE  Finished(b, performMove(b, m), m) /\ PiecesMoved(b, m, performMove(b, m))
BY PlainMoveMade, EnPassantMoveMade, PromotionMoveMade, CastleMoveMade
   DEF IsAMove, PromotionMove, CastleMove

----------------------------------------------------------------------------
(* What the generators generate.                                           *)

\* A piece may go to a square it attacks unless its own side is there; noisy
\* moves and captures end on the opponent's pieces.
MayGo(type, b, to) ==
  IF type = "PseudoLegal" THEN to \notin b.occupation[b.player]
                          ELSE to \in b.occupation[nextPlayer(b.player)]
Going(b, from, to) == create(from, to, to \in b.occupation[nextPlayer(b.player)])

LEMMA KnightMovesAre ==
  ASSUME NEW type, NEW b, NEW froms, NEW m
  PROVE  m \in generateKnightMoves(type, b, froms) <=>
           \E from \in froms : \E to \in knightsTable[from] : MayGo(type, b, to) /\ m = Going(b, from, to)
BY DEF generateKnightMoves, Generate, MayGo, Going

LEMMA RookMovesAre ==
  ASSUME NEW type, NEW b, NEW froms, NEW m
  PROVE  m \in generateRookMoves(type, b, froms) <=>
           \E from \in froms : \E to \in getRookMoves(from, both(b)) :
             MayGo(type, b, to) /\ m = Going(b, from, to)
BY DEF generateRookMoves, Generate, MayGo, Going

LEMMA BishopMovesAre ==
  ASSUME NEW type, NEW b, NEW froms, NEW m
  PROVE  m \in generateBishopMoves(type, b, froms) <=>
           \E from \in froms : \E to \in getBishopMoves(from, both(b)) :
             MayGo(type, b, to) /\ m = Going(b, from, to)
BY DEF generateBishopMoves, Generate, MayGo, Going

LEMMA KingMovesAre ==
  ASSUME NEW type, NEW b, NEW froms, NEW attacks, NEW m
  PROVE  m \in generateKingMoves(type, b, froms, attacks) <=>
           \E from \in froms : \E to \in kingsTable[from] \ attacks :
             MayGo(type, b, to) /\ m = Going(b, from, to)
BY DEF generateKingMoves, Generate, MayGo, Going

\* The square a pawn steps to, and those it takes on.
StepsTo(b, from, to) == to = from + Forward(b.player) /\ to \notin both(b)
StepsTwiceTo(b, from, to) ==
  /\ relativeRow(b.player, from) = 1
  /\ to = from + 2 * Forward(b.player) /\ to \notin both(b)
  /\ from + Forward(b.player) \notin both(b)
TakesOn(b, from, to) ==
  \/ File(from) # 0 /\ to = from + (Forward(b.player) - 1)
  \/ File(from) # 7 /\ to = from + (Forward(b.player) + 1)

Promoted == {"Queen", "Knight", "Bishop", "Rook"}

PawnGoes(type, b, from, to, m) ==
  LET last == relativeRow(b.player, from) = 6
      takes == TakesOn(b, from, to) /\ to \in b.occupation[nextPlayer(b.player)]
  IN \/ /\ type = "PseudoLegal" /\ ~last /\ StepsTo(b, from, to)
        /\ m = Move(from, to, Flag.Quiet)
     \/ /\ type = "PseudoLegal" /\ StepsTwiceTo(b, from, to)
        /\ m = Move(from, to, Flag.DoublePush)
     \/ ~last /\ takes /\ m = Move(from, to, Flag.Capture)
     \/ /\ type \in {"PseudoLegal", "Noisy"} /\ last /\ StepsTo(b, from, to)
        /\ \E t \in Promoted : m = Move(from, to, promotionFlag(t, FALSE))
     \/ /\ last /\ takes
        /\ \E t \in Promoted : m = Move(from, to, promotionFlag(t, TRUE))

\* The moves that end on the targets of a shift.
BackMoves(targets, n, flag) == {Move(to - n, to, flag) : to \in targets}

Goes(froms, n, block, m, flag) ==
  \E from \in froms, to \in Squares : to = from + n /\ to \in block /\ m = Move(from, to, flag)
GoesOn(froms, n, block, m, capture) ==
  \E from \in froms, to \in Squares :
    /\ to = from + n /\ to \in block
    /\ \E t \in Promoted : m = Move(from, to, promotionFlag(t, capture))

LEMMA ShiftedBack ==
  ASSUME NEW froms \in SUBSET Squares, NEW n \in Int
  PROVE  /\ \A to \in Shift(froms, n) : to \in Squares /\ to - n \in froms /\ to = (to - n) + n
         /\ \A from \in froms, to \in Squares : to = from + n => to \in Shift(froms, n) /\ to - n = from
BY DEF Shift, Squares

LEMMA MovesGo ==
  ASSUME NEW froms \in SUBSET Squares, NEW n \in Int, NEW block, NEW targets,
         targets = Shift(froms, n) \cap block, NEW flag, NEW m
  PROVE  m \in BackMoves(targets, n, flag) <=> Goes(froms, n, block, m, flag)
<1>1. /\ \A to \in Shift(froms, n) : to \in Squares /\ to - n \in froms /\ to = (to - n) + n
      /\ \A from \in froms, to \in Squares : to = from + n => to \in Shift(froms, n) /\ to - n = from
  BY ShiftedBack, Zenon
<1>2. ASSUME m \in BackMoves(targets, n, flag) PROVE Goes(froms, n, block, m, flag)
  <2>1. PICK to \in targets : m = Move(to - n, to, flag)
    BY <1>2 DEF BackMoves
  <2>2. to \in Shift(froms, n) /\ to \in block
    OBVIOUS
  <2>3. to \in Squares /\ to - n \in froms /\ to = (to - n) + n
    BY <1>1, <2>2
  <2> QED
    BY <2>1, <2>2, <2>3 DEF Goes
<1>3. ASSUME NEW from \in froms, NEW to \in Squares, to = from + n, to \in block, m = Move(from, to, flag)
      PROVE  m \in BackMoves(targets, n, flag)
  <2>1. to \in targets /\ to - n = from
    BY <1>1, <1>3
  <2> QED
    BY <1>3, <2>1 DEF BackMoves
<1> QED
  BY <1>2, <1>3 DEF Goes

LEMMA PromotionsGo ==
  ASSUME NEW froms \in SUBSET Squares, NEW n \in Int, NEW block, NEW targets,
         targets = Shift(froms, n) \cap block, NEW capture, NEW m
  PROVE  m \in Promotions(targets, n, capture) <=> GoesOn(froms, n, block, m, capture)
<1>0. m \in Promotions(targets, n, capture) <=>
        \E to \in targets, t \in Promoted : m = Move(to - n, to, promotionFlag(t, capture))
  BY DEF Promotions, Promoted
<1>1. /\ \A to \in Shift(froms, n) : to \in Squares /\ to - n \in froms /\ to = (to - n) + n
      /\ \A from \in froms, to \in Squares : to = from + n => to \in Shift(froms, n) /\ to - n = from
  BY ShiftedBack, Zenon
<1>2. ASSUME m \in Promotions(targets, n, capture) PROVE GoesOn(froms, n, block, m, capture)
  <2>1. PICK to \in targets, t \in Promoted : m = Move(to - n, to, promotionFlag(t, capture))
    BY <1>0, <1>2
  <2>2. to \in Shift(froms, n) /\ to \in block
    OBVIOUS
  <2>3. to \in Squares /\ to - n \in froms /\ to = (to - n) + n
    BY <1>1, <2>2
  <2> QED
    BY <2>1, <2>2, <2>3 DEF GoesOn
<1>3. ASSUME NEW from \in froms, NEW to \in Squares, NEW t \in Promoted, to = from + n, to \in block,
             m = Move(from, to, promotionFlag(t, capture))
      PROVE  m \in Promotions(targets, n, capture)
  <2>1. to \in targets /\ to - n = from
    BY <1>1, <1>3
  <2> QED
    BY <1>0, <1>3, <2>1
<1> QED
  BY <1>2, <1>3 DEF GoesOn

LEMMA PawnRows ==
  ASSUME NEW p \in Players, NEW pos \in Squares
  PROVE  /\ pos \in RowMask[IF p = "White" THEN 1 ELSE 6] <=> relativeRow(p, pos) = 1
         /\ pos \in RowMask[IF p = "White" THEN 6 ELSE 1] <=> relativeRow(p, pos) = 6
BY SquaresAre, MasksAre DEF relativeRow

LEMMA EnPassantMovesAre ==
  ASSUME NEW b \in Boards, NEW froms \in SUBSET Squares, NEW m
  PROVE  m \in generateEnPessantMoves(b, froms) <=>
           \E from \in froms, to \in Squares :
             /\ TakesOn(b, from, to) /\ to = b.enPessant /\ to \notin both(b)
             /\ m = Move(from, to, Flag.EnPassant)
<1> DEFINE f == Forward(b.player)
           square == {b.enPessant} \ both(b)
           left == Shift(froms \ aFile, f - 1) \cap square
           right == Shift(froms \ hFile, f + 1) \cap square
<1>1. generateEnPessantMoves(b, froms) =
        BackMoves(left, f - 1, Flag.EnPassant) \cup BackMoves(right, f + 1, Flag.EnPassant)
  BY DEF generateEnPessantMoves, backtrack, BackMoves
<1>2. /\ f - 1 \in Int /\ f + 1 \in Int
      /\ froms \ aFile \in SUBSET Squares /\ froms \ hFile \in SUBSET Squares
  BY DEF Forward
<1>3. \A from \in froms : (from \in aFile <=> File(from) = 0) /\ (from \in hFile <=> File(from) = 7)
  BY MasksAre
<1>4. /\ m \in BackMoves(left, f - 1, Flag.EnPassant)
           <=> Goes(froms \ aFile, f - 1, square, m, Flag.EnPassant)
      /\ m \in BackMoves(right, f + 1, Flag.EnPassant)
           <=> Goes(froms \ hFile, f + 1, square, m, Flag.EnPassant)
  <2> HIDE DEF f, square
  <2> QED
    BY <1>2, MovesGo
<1>5. \A to : to \in square <=> to = b.enPessant /\ to \notin both(b)
  OBVIOUS
<1> HIDE DEF left, right, square
<1> QED
  BY <1>1, <1>3, <1>4, <1>5 DEF Goes, TakesOn

LEMMA PawnMovesAre ==
  ASSUME NEW b \in Boards, NEW froms \in SUBSET Squares, NEW type, NEW m
  PROVE  m \in generatePawnMoves(type, b, froms) <=>
           \E from \in froms, to \in Squares : PawnGoes(type, b, from, to, m)
<1> DEFINE player == b.player
           all == both(b)
           their == b.occupation[nextPlayer(player)]
           f == Forward(player)
           start == RowMask[IF player = "White" THEN 1 ELSE 6]
           last == RowMask[IF player = "White" THEN 6 ELSE 1]
           Straight(from) == Shift(from, f) \ all
           Double(from) == Shift(from \cap start, 2 * f) \ (all \cup Shift(all, f))
           Left(from) == Shift(from \ aFile, f - 1) \cap their
           Right_(from) == Shift(from \ hFile, f + 1) \cap their
           quiet == BackMoves(Straight(froms \ last), f, Flag.Quiet)
           double == BackMoves(Double(froms), 2 * f, Flag.DoublePush)
           left == BackMoves(Left(froms \ last), f - 1, Flag.Capture)
           right == BackMoves(Right_(froms \ last), f + 1, Flag.Capture)
           straightOn == Promotions(Straight(froms \cap last), f, FALSE)
           leftOn == Promotions(Left(froms \cap last), f - 1, TRUE)
           rightOn == Promotions(Right_(froms \cap last), f + 1, TRUE)
           free == Squares \ all
           freeTwice == Squares \ (all \cup Shift(all, f))
<1>1. /\ player \in Players /\ f \in Int /\ 2 * f \in Int /\ f - 1 \in Int /\ f + 1 \in Int
      /\ all \subseteq Squares
  BY BoardFields DEF Forward, both, Players
<1>2. generatePawnMoves(type, b, froms) =
        (IF type = "PseudoLegal" THEN quiet \cup double ELSE {}) \cup left \cup right
        \cup (IF type \in {"PseudoLegal", "Noisy"} THEN straightOn ELSE {}) \cup leftOn \cup rightOn
  BY DEF generatePawnMoves, backtrack, BackMoves, create
<1>3. /\ \A from \in froms : from \in aFile <=> File(from) = 0
      /\ \A from \in froms : from \in hFile <=> File(from) = 7
      /\ \A from \in froms : from \in start <=> relativeRow(player, from) = 1
      /\ \A from \in froms : from \in last <=> relativeRow(player, from) = 6
  BY <1>1, MasksAre, PawnRows
<1>4. \A squares, n : /\ Shift(squares, n) \ all = Shift(squares, n) \cap free
                      /\ Shift(squares, n) \ (all \cup Shift(all, f)) = Shift(squares, n) \cap freeTwice
  BY DEF Shift
<1> HIDE DEF start, last, free, freeTwice
<1>5. /\ m \in quiet <=> Goes(froms \ last, f, free, m, Flag.Quiet)
      /\ m \in double <=> Goes(froms \cap start, 2 * f, freeTwice, m, Flag.DoublePush)
      /\ m \in left <=> Goes((froms \ last) \ aFile, f - 1, their, m, Flag.Capture)
      /\ m \in right <=> Goes((froms \ last) \ hFile, f + 1, their, m, Flag.Capture)
  <2>1. m \in quiet <=> Goes(froms \ last, f, free, m, Flag.Quiet)
    <3>1. Straight(froms \ last) = Shift(froms \ last, f) \cap free /\ froms \ last \in SUBSET Squares
      BY <1>4
    <3> HIDE DEF Straight, f
    <3> QED
      BY <1>1, <3>1, MovesGo
  <2>2. m \in double <=> Goes(froms \cap start, 2 * f, freeTwice, m, Flag.DoublePush)
    <3>1. Double(froms) = Shift(froms \cap start, 2 * f) \cap freeTwice /\ froms \cap start \in SUBSET Squares
      BY <1>4
    <3> HIDE DEF Double, f
    <3> QED
      BY <1>1, <3>1, MovesGo
  <2>3. m \in left <=> Goes((froms \ last) \ aFile, f - 1, their, m, Flag.Capture)
    BY <1>1, MovesGo
  <2>4. m \in right <=> Goes((froms \ last) \ hFile, f + 1, their, m, Flag.Capture)
    BY <1>1, MovesGo
  <2> QED
    BY <2>1, <2>2, <2>3, <2>4
<1>6. /\ m \in straightOn <=> GoesOn(froms \cap last, f, free, m, FALSE)
      /\ m \in leftOn <=> GoesOn((froms \cap last) \ aFile, f - 1, their, m, TRUE)
      /\ m \in rightOn <=> GoesOn((froms \cap last) \ hFile, f + 1, their, m, TRUE)
  <2>1. m \in straightOn <=> GoesOn(froms \cap last, f, free, m, FALSE)
    BY <1>1, <1>4, PromotionsGo
  <2>2. m \in leftOn <=> GoesOn((froms \cap last) \ aFile, f - 1, their, m, TRUE)
    BY <1>1, PromotionsGo
  <2>3. m \in rightOn <=> GoesOn((froms \cap last) \ hFile, f + 1, their, m, TRUE)
    BY <1>1, PromotionsGo
  <2> QED
    BY <2>1, <2>2, <2>3
<1> HIDE DEF quiet, double, left, right, straightOn, leftOn, rightOn
<1>7. \A from \in froms, to \in Squares :
        to = from + 2 * f => (to \in freeTwice <=> to \notin all /\ from + f \notin all)
  <2> TAKE from \in froms, to \in Squares
  <2> SUFFICES ASSUME to = from + 2 * f PROVE to \in Shift(all, f) <=> from + f \in all
    BY DEF freeTwice
  <2>1. to = (from + f) + f /\ \A s \in all : to = s + f <=> s = from + f
    BY <1>1 DEF Squares
  <2> HIDE DEF all, f
  <2> QED
    BY <2>1, Shifted
<1>8. \A to \in Squares : to \in free <=> to \notin all
  BY DEF free
<1> HIDE DEF f, all, their
<1>9. Goes(froms \ last, f, free, m, Flag.Quiet) <=> \E from \in froms, to \in Squares :
        /\ relativeRow(player, from) # 6 /\ StepsTo(b, from, to) /\ m = Move(from, to, Flag.Quiet)
  BY <1>3, <1>8 DEF Goes, StepsTo, f, all
<1>10. Goes(froms \cap start, 2 * f, freeTwice, m, Flag.DoublePush) <=> \E from \in froms, to \in Squares :
        StepsTwiceTo(b, from, to) /\ m = Move(from, to, Flag.DoublePush)
  BY <1>3, <1>7 DEF Goes, StepsTwiceTo, f, all
<1>11. \/ Goes((froms \ last) \ aFile, f - 1, their, m, Flag.Capture)
       \/ Goes((froms \ last) \ hFile, f + 1, their, m, Flag.Capture)
       <=> \E from \in froms, to \in Squares :
             /\ relativeRow(player, from) # 6 /\ TakesOn(b, from, to) /\ to \in their
             /\ m = Move(from, to, Flag.Capture)
  BY <1>3 DEF Goes, TakesOn, f
<1>12. GoesOn(froms \cap last, f, free, m, FALSE) <=> \E from \in froms, to \in Squares :
        /\ relativeRow(player, from) = 6 /\ StepsTo(b, from, to)
        /\ \E t \in Promoted : m = Move(from, to, promotionFlag(t, FALSE))
  BY <1>3, <1>8 DEF GoesOn, StepsTo, f, all
<1>13. \/ GoesOn((froms \cap last) \ aFile, f - 1, their, m, TRUE)
       \/ GoesOn((froms \cap last) \ hFile, f + 1, their, m, TRUE)
       <=> \E from \in froms, to \in Squares :
             /\ relativeRow(player, from) = 6 /\ TakesOn(b, from, to) /\ to \in their
             /\ \E t \in Promoted : m = Move(from, to, promotionFlag(t, TRUE))
  BY <1>3 DEF GoesOn, TakesOn, f
<1> QED
  BY <1>2, <1>5, <1>6, <1>9, <1>10, <1>11, <1>12, <1>13 DEF PawnGoes, their

\* A piece that is no pawn reaches the squares it attacks; the king does not
\* walk into an attack.
Reaches(b, t, from, to) ==
  \/ t = "Knight" /\ to \in knightsTable[from]
  \/ t \in {"Rook", "Queen"} /\ to \in getRookMoves(from, both(b))
  \/ t \in {"Bishop", "Queen"} /\ to \in getBishopMoves(from, both(b))
  \/ t = "King" /\ to \in kingsTable[from] \ b.attacks[nextPlayer(b.player)]
PieceGoes(type, b, t, from, to, m) ==
  Reaches(b, t, from, to) /\ MayGo(type, b, to) /\ m = Going(b, from, to)

EnPassantGoes(b, from, to, m) ==
  /\ TakesOn(b, from, to) /\ to = b.enPessant /\ to \notin both(b)
  /\ m = Move(from, to, Flag.EnPassant)

CastleGoes(b, side, m) ==
  /\ Right(b.player, side) \in b.castlingRights
  /\ CastlingTable[b.player][side].free \cap both(b) = {}
  /\ CastlingTable[b.player][side].safe \cap b.attacks[nextPlayer(b.player)] = {}
  /\ m = Move(Home(b) + 4, CastlingTable[b.player][side].to,
              IF side = "KingSide" THEN Flag.KingCastle ELSE Flag.QueenCastle)

LEMMA CastlingMovesAre ==
  ASSUME NEW b, NEW type, NEW m
  PROVE  m \in getCastlingMoves(type, b, b.attacks[nextPlayer(b.player)]) <=>
           type = "PseudoLegal" /\ \E side \in {"KingSide", "QueenSide"} : CastleGoes(b, side, m)
<1>1. (IF b.player = "White" THEN E1 ELSE E8) = Home(b) + 4
  BY DEF Home, E1, E8, A1, A8
<1> QED
  BY <1>1 DEF getCastlingMoves, generateCastlingMoves, CastleGoes

\* Where the pieces are, as the board keeps it and as its piece sets say.
LEMMA FreshSquares ==
  ASSUME NEW b \in Boards, IsFresh(b)
  PROVE  /\ b.occupation[b.player] = OwnSquares(b)
         /\ b.occupation[nextPlayer(b.player)] = TheirSquares(b)
         /\ both(b) = OwnSquares(b) \cup TheirSquares(b)
         /\ \A p \in Players : b.attacks[p] = getAllAttacks(b, p)
<1>1. b.player \in Players /\ nextPlayer(b.player) \in Players
  BY BoardFields, PlayersAre
<1>2. /\ b.occupation[b.player] = OwnSquares(b)
      /\ b.occupation[nextPlayer(b.player)] = TheirSquares(b)
      /\ \A p \in Players : b.attacks[p] = getAllAttacks(b, p)
  BY <1>1 DEF IsFresh, OwnSquares, TheirSquares
<1> QED
  BY <1>1, <1>2 DEF both, Players, nextPlayer

\* The moves of the pieces, of whatever list they are for.
LEMMA PieceMovesAre ==
  ASSUME NEW b \in Boards, NEW type, NEW m
  PROVE  LET own == b.pieces[b.player]
             attacks == b.attacks[nextPlayer(b.player)]
         IN (\/ m \in generateKingMoves(type, b, own["King"], attacks)
             \/ m \in generateKnightMoves(type, b, own["Knight"])
             \/ m \in generateRookMoves(type, b, own["Rook"])
             \/ m \in generateBishopMoves(type, b, own["Bishop"])
             \/ m \in generateQueenMoves(type, b, own["Queen"]))
            <=> \E t \in PieceTypes, from, to \in Squares :
                  from \in own[t] /\ PieceGoes(type, b, t, from, to, m)
<1> DEFINE own == b.pieces[b.player]
           attacks == b.attacks[nextPlayer(b.player)]
           Went(t) == \E from, to \in Squares : from \in own[t] /\ PieceGoes(type, b, t, from, to, m)
<1>1. \A t \in PieceTypes : own[t] \subseteq Squares
  BY BoardFields DEF PieceSets
<1>2. m \in generateKingMoves(type, b, own["King"], attacks) <=> Went("King")
  BY <1>1, KingMovesAre, LeapersStayOn, PieceTypesAre DEF PieceGoes, Reaches
<1>3. m \in generateKnightMoves(type, b, own["Knight"]) <=> Went("Knight")
  BY <1>1, KnightMovesAre, LeapersStayOn, PieceTypesAre DEF PieceGoes, Reaches
<1>4. m \in generateRookMoves(type, b, own["Rook"]) <=> Went("Rook")
  BY <1>1, RookMovesAre, SlidersStayOn, PieceTypesAre DEF PieceGoes, Reaches
<1>5. m \in generateBishopMoves(type, b, own["Bishop"]) <=> Went("Bishop")
  BY <1>1, BishopMovesAre, SlidersStayOn, PieceTypesAre DEF PieceGoes, Reaches
<1>6. m \in generateQueenMoves(type, b, own["Queen"]) <=> Went("Queen")
  BY <1>1, RookMovesAre, BishopMovesAre, SlidersStayOn, PieceTypesAre
     DEF PieceGoes, Reaches, generateQueenMoves
<1>7. ~Went("Pawn")
  BY DEF PieceGoes, Reaches
<1>8. (\E t \in PieceTypes : Went(t))
        <=> Went("King") \/ Went("Knight") \/ Went("Rook") \/ Went("Bishop") \/ Went("Queen")
  <2> HIDE DEF Went
  <2> QED
    BY <1>7, PieceTypesAre
<1> QED
  BY <1>2, <1>3, <1>4, <1>5, <1>6, <1>8

\* What getAllMoves() generates, for each of the three lists.
Generated(type, b, m) ==
  LET own == b.pieces[b.player] IN
  \/ \E t \in PieceTypes, from, to \in Squares :
       from \in own[t] /\ PieceGoes(type, b, t, from, to, m)
  \/ \E from \in own["Pawn"], to \in Squares : PawnGoes(type, b, from, to, m)
  \/ \E from \in own["Pawn"], to \in Squares : EnPassantGoes(b, from, to, m)
  \/ type = "PseudoLegal" /\ \E side \in {"KingSide", "QueenSide"} : CastleGoes(b, side, m)

LEMMA AllMovesAre ==
  ASSUME NEW b \in Boards, NEW type, NEW m
  PROVE  m \in getAllMoves(type, b) <=> Generated(type, b, m)
<1> DEFINE own == b.pieces[b.player]
           attacks == b.attacks[nextPlayer(b.player)]
           pieces == \/ m \in generateKingMoves(type, b, own["King"], attacks)
                     \/ m \in generateKnightMoves(type, b, own["Knight"])
                     \/ m \in generateRookMoves(type, b, own["Rook"])
                     \/ m \in generateBishopMoves(type, b, own["Bishop"])
                     \/ m \in generateQueenMoves(type, b, own["Queen"])
           piecesGo == \E t \in PieceTypes, from, to \in Squares :
                         from \in own[t] /\ PieceGoes(type, b, t, from, to, m)
           pawnsGo == \E from \in own["Pawn"], to \in Squares : PawnGoes(type, b, from, to, m)
           enPassant == \E from \in own["Pawn"], to \in Squares : EnPassantGoes(b, from, to, m)
           castles == type = "PseudoLegal" /\ \E side \in {"KingSide", "QueenSide"} : CastleGoes(b, side, m)
<1>1. own["Pawn"] \in SUBSET Squares
  BY BoardFields, PieceTypesAre DEF PieceSets
<1>2. m \in getAllMoves(type, b) <=>
        pieces \/ m \in getPawnMoves(type, b) \/ m \in getCastlingMoves(type, b, attacks)
  BY DEF getAllMoves
<1>3. pieces <=> piecesGo
  BY PieceMovesAre, Zenon
<1>4. m \in generatePawnMoves(type, b, own["Pawn"]) <=> pawnsGo
  BY <1>1, PawnMovesAre
<1>5. m \in generateEnPessantMoves(b, own["Pawn"]) <=> enPassant
  BY <1>1, EnPassantMovesAre DEF EnPassantGoes
<1>6. enPassant => b.enPessant # NoPosition
  BY DEF EnPassantGoes, NoPosition, Squares
<1>7. m \in getPawnMoves(type, b) <=> pawnsGo \/ enPassant
  <2> HIDE DEF pawnsGo, enPassant
  <2> QED
    BY <1>4, <1>5, <1>6 DEF getPawnMoves
<1>8. m \in getCastlingMoves(type, b, attacks) <=> castles
  BY CastlingMovesAre
<1> HIDE DEF pieces
<1>9. Generated(type, b, m) <=> piecesGo \/ pawnsGo \/ enPassant \/ castles
  BY Zenon DEF Generated
<1> HIDE DEF piecesGo, pawnsGo, enPassant, castles
<1> QED
  BY <1>2, <1>3, <1>7, <1>8, <1>9

----------------------------------------------------------------------------
(* What the generators generate are moves.                                 *)

\* A king that is not attacked is taken by none of these.
LEMMA KingIsNotTaken ==
  ASSUME NEW b \in Boards, IsFresh(b), IsPosition(b), NEW to \in getAllAttacks(b, b.player)
  PROVE  to \notin Theirs(b)["King"]
<1>1. /\ b.player \in Players /\ nextPlayer(nextPlayer(b.player)) = b.player
      /\ b.attacks[b.player] = getAllAttacks(b, b.player)
  BY BoardFields, PlayersAre, FreshSquares
<1> QED
  BY <1>1 DEF IsPosition, isKingAttacked, Theirs

LEMMA SidesStandApart ==
  ASSUME NEW b \in Boards, PiecesStandApart(b)
  PROVE  \A s : s \in OwnSquares(b) => s \notin TheirSquares(b)
<1>1. b.player \in Players /\ nextPlayer(b.player) \in Players /\ nextPlayer(b.player) # b.player
  BY BoardFields, PlayersAre
<1> SUFFICES ASSUME NEW s, NEW t \in PieceTypes, NEW u \in PieceTypes, s \in Own(b)[t], s \in Theirs(b)[u]
             PROVE  FALSE
  BY SquaresOf
<1>2. <<b.player, t>> \in Players \X PieceTypes /\ <<nextPlayer(b.player), u>> \in Players \X PieceTypes
  BY <1>1
<1>3. <<b.player, t>> # <<nextPlayer(b.player), u>>
  BY <1>1
<1>4. b.pieces[b.player][t] \cap b.pieces[nextPlayer(b.player)][u] = {}
  BY <1>2, <1>3 DEF PiecesStandApart
<1> QED
  BY <1>4 DEF Own, Theirs

LEMMA PieceGoesIsAMove ==
  ASSUME NEW b \in Boards, IsFresh(b), IsPosition(b), NEW type, NEW t \in PieceTypes,
         NEW from \in Squares, NEW to \in Squares, NEW m,
         from \in Own(b)[t], PieceGoes(type, b, t, from, to, m)
  PROVE  PlainMove(b, m, t)
<1>1. t # "Pawn" /\ m = Going(b, from, to) /\ MayGo(type, b, to) /\ Reaches(b, t, from, to)
  BY DEF PieceGoes, Reaches
<1>2. /\ b.occupation[b.player] = OwnSquares(b)
      /\ b.occupation[nextPlayer(b.player)] = TheirSquares(b)
  BY FreshSquares
<1>3. to \notin Theirs(b)["King"]
  <2>1. to \in getAllAttacks(b, b.player)
    BY <1>1, BoardFields, AllAttacksAre DEF Reaches, Own
  <2> QED
    BY <2>1, KingIsNotTaken
<1>4. to \notin OwnSquares(b)
  BY <1>1, <1>2, SidesStandApart DEF MayGo, IsPosition
<1>5. /\ m.from = from /\ m.to = to /\ m.flag \in {Flag.Quiet, Flag.Capture}
      /\ m.flag = Flag.Capture <=> to \in TheirSquares(b)
  BY <1>1, <1>2 DEF Going, create, Move, Flag
<1> QED
  BY <1>1, <1>3, <1>4, <1>5 DEF PlainMove, ReachesSquare, Flag

\* What a pawn takes on, it attacks.
LEMMA PawnTakes ==
  ASSUME NEW b \in Boards, IsFresh(b), IsPosition(b), NEW from \in Own(b)["Pawn"], NEW to \in Squares,
         TakesOn(b, from, to)
  PROVE  to \notin Theirs(b)["King"]
<1>1. from \in Squares /\ b.player \in Players
  BY BoardFields, PieceTypesAre DEF PieceSets, Own
<1>2. /\ from \in aFile <=> File(from) = 0
      /\ from \in hFile <=> File(from) = 7
  BY <1>1, MasksAre
<1>3. \/ to \in Shift(Own(b)["Pawn"] \ aFile, Forward(b.player) - 1)
      \/ to \in Shift(Own(b)["Pawn"] \ hFile, Forward(b.player) + 1)
  BY <1>2, Shifted DEF TakesOn
<1>4. to \in getPawnAttacks(b, b.player)
  BY <1>3 DEF getPawnAttacks, Own
<1>5. to \in getAllAttacks(b, b.player)
  BY <1>1, <1>4, AllAttacksAre
<1> QED
  BY <1>5, KingIsNotTaken

\* The pawns of the player to move, their rows, and where they step to.
LEMMA PawnSteps ==
  ASSUME NEW b \in Boards, PawnsAreOnTheirWay(b), NEW from \in Own(b)["Pawn"]
  PROVE  /\ from \in Squares /\ relativeRow(b.player, from) \in 1..6
         /\ \A to \in Squares : StepsTo(b, from, to) \/ TakesOn(b, from, to) =>
              relativeRow(b.player, to) = relativeRow(b.player, from) + 1
         /\ \A to \in Squares : StepsTwiceTo(b, from, to) => relativeRow(b.player, to) = 3
<1>1. from \in Squares /\ b.player \in Players /\ from \in b.pieces[b.player]["Pawn"]
  BY BoardFields, PieceTypesAre DEF PieceSets, Own
<1>2. from \notin RowMask[0] /\ from \notin RowMask[7]
  BY <1>1 DEF PawnsAreOnTheirWay
<1>3. Row(from) \notin {0, 7}
  BY <1>1, <1>2, MasksAre
<1>4. relativeRow(b.player, from) \in 1..6
  BY <1>1, <1>3, RelativeRows
<1>5. relativeRow(b.player, from) \in 0..6
  BY <1>4
<1> QED
  BY <1>1, <1>4, <1>5, StepsAhead DEF StepsTo, TakesOn, StepsTwiceTo

LEMMA PawnGoesIsAMove ==
  ASSUME NEW b \in Boards, IsFresh(b), IsPosition(b), NEW type,
         NEW from \in Own(b)["Pawn"], NEW to \in Squares, NEW m, PawnGoes(type, b, from, to, m)
  PROVE  PlainMove(b, m, "Pawn") \/ PromotionMove(b, m)
<1> DEFINE row == relativeRow(b.player, from)
           last == row = 6
           takes == TakesOn(b, from, to) /\ to \in TheirSquares(b)
<1>1. /\ from \in Squares /\ row \in 1..6 /\ b.player \in Players
      /\ StepsTo(b, from, to) \/ TakesOn(b, from, to) => relativeRow(b.player, to) = row + 1
      /\ StepsTwiceTo(b, from, to) => relativeRow(b.player, to) = 3
  BY BoardFields, PawnSteps DEF IsPosition
<1>2. /\ b.occupation[nextPlayer(b.player)] = TheirSquares(b)
      /\ both(b) = OwnSquares(b) \cup TheirSquares(b)
  BY FreshSquares
<1>3. \A s : s \in OwnSquares(b) => s \notin TheirSquares(b)
  BY SidesStandApart DEF IsPosition
<1>4. \A s : s \in Theirs(b)["King"] => s \in TheirSquares(b)
  BY SquaresOf, PieceTypesAre
<1>5. StepsTo(b, from, to) \/ StepsTwiceTo(b, from, to) =>
        to \notin OwnSquares(b) /\ to \notin TheirSquares(b) /\ to \notin Theirs(b)["King"]
  BY <1>2, <1>4 DEF StepsTo, StepsTwiceTo
<1>6. takes => to \notin OwnSquares(b) /\ to \notin Theirs(b)["King"]
  BY <1>3, PawnTakes
<1>7. (~last /\ (StepsTo(b, from, to) \/ TakesOn(b, from, to))) \/ StepsTwiceTo(b, from, to) =>
        Row(to) \notin {0, 7}
  <2>1. Row(to) \in {0, 7} <=> relativeRow(b.player, to) \in {0, 7}
    BY <1>1, RelativeRows
  <2> HIDE DEF row
  <2> QED
    BY <1>1, <2>1
<1>8. CASE ~last /\ StepsTo(b, from, to) /\ m = Move(from, to, Flag.Quiet)
  BY <1>5, <1>7, <1>8 DEF PlainMove, ReachesSquare, Move, Flag
<1>9. CASE StepsTwiceTo(b, from, to) /\ m = Move(from, to, Flag.DoublePush)
  BY <1>2, <1>5, <1>7, <1>9 DEF PlainMove, ReachesSquare, Move, Flag, StepsTwiceTo
<1>10. CASE ~last /\ takes /\ m = Move(from, to, Flag.Capture)
  BY <1>6, <1>7, <1>10 DEF PlainMove, ReachesSquare, Move, Flag
<1>11. CASE StepsTo(b, from, to) /\ \E t \in Promoted : m = Move(from, to, promotionFlag(t, FALSE))
  <2>1. PICK t \in Promoted : m = Move(from, to, promotionFlag(t, FALSE))
    BY <1>11
  <2>2. m.from = from /\ m.flag = promotionFlag(t, FALSE) /\ ReachesSquare(b, m, FALSE)
    BY <1>5, <1>11, <2>1 DEF ReachesSquare, Move
  <2> QED
    BY <2>2 DEF PromotionMove, Promoted
<1>12. CASE takes /\ \E t \in Promoted : m = Move(from, to, promotionFlag(t, TRUE))
  <2>1. PICK t \in Promoted : m = Move(from, to, promotionFlag(t, TRUE))
    BY <1>12
  <2>2. m.from = from /\ m.flag = promotionFlag(t, TRUE) /\ ReachesSquare(b, m, TRUE)
    BY <1>6, <1>12, <2>1 DEF ReachesSquare, Move
  <2> QED
    BY <2>2 DEF PromotionMove, Promoted
<1>13. PawnGoes(type, b, from, to, m) =>
         \/ ~last /\ StepsTo(b, from, to) /\ m = Move(from, to, Flag.Quiet)
         \/ StepsTwiceTo(b, from, to) /\ m = Move(from, to, Flag.DoublePush)
         \/ ~last /\ takes /\ m = Move(from, to, Flag.Capture)
         \/ StepsTo(b, from, to) /\ \E t \in Promoted : m = Move(from, to, promotionFlag(t, FALSE))
         \/ takes /\ \E t \in Promoted : m = Move(from, to, promotionFlag(t, TRUE))
  BY <1>2 DEF PawnGoes
<1> QED
  BY <1>8, <1>9, <1>10, <1>11, <1>12, <1>13

LEMMA GeneratedIsAMove ==
  ASSUME NEW b \in Boards, IsFresh(b), IsPosition(b), NEW type, NEW m, m \in getAllMoves(type, b)
  PROVE  IsAMove(b, m)
<1>1. both(b) = OwnSquares(b) \cup TheirSquares(b)
  BY FreshSquares
<1>2. Generated(type, b, m)
  BY AllMovesAre
<1>3. ASSUME NEW t \in PieceTypes, NEW from \in Squares, NEW to \in Squares,
             from \in Own(b)[t], PieceGoes(type, b, t, from, to, m)
      PROVE  IsAMove(b, m)
  BY <1>3, PieceGoesIsAMove DEF IsAMove
<1>4. ASSUME NEW from \in Own(b)["Pawn"], NEW to \in Squares, PawnGoes(type, b, from, to, m)
      PROVE  IsAMove(b, m)
  BY <1>4, PawnGoesIsAMove, PieceTypesAre DEF IsAMove
<1>5. ASSUME NEW from \in Own(b)["Pawn"], NEW to \in Squares, EnPassantGoes(b, from, to, m)
      PROVE  IsAMove(b, m)
  <2>1. to # NoPosition
    BY DEF Squares, NoPosition
  <2> QED
    BY <1>1, <1>5, <2>1 DEF EnPassantGoes, EnPassantMove, IsAMove, Move
<1>6. ASSUME NEW side \in {"KingSide", "QueenSide"}, CastleGoes(b, side, m)
      PROVE  IsAMove(b, m)
  BY <1>1, <1>6 DEF CastleGoes, CastleMove, IsAMove, Move
<1> QED
  BY <1>2, <1>3, <1>4, <1>5, <1>6 DEF Generated, Own

----------------------------------------------------------------------------
(* The king-pawn cache.                                                    *)

\* The two boards have the same kings and pawns.
SameKingsAndPawns(b, c) ==
  /\ b.kpHash = c.kpHash
  /\ \A p \in Players : /\ b.pieces[p]["Pawn"] = c.pieces[p]["Pawn"]
                        /\ b.pieces[p]["King"] = c.pieces[p]["King"]

LEMMA KeyTellsKingsAndPawns ==
  ASSUME NEW b \in Boards, NEW c \in Boards, KingPawnHashInStep(b), KingPawnHashInStep(c), b.kpHash = c.kpHash
  PROVE  SameKingsAndPawns(b, c)
<1>1. PieceKeys(b, {"Pawn", "King"}) = PieceKeys(c, {"Pawn", "King"})
  BY DEF KingPawnHashInStep, generateKingPawnHash
<1>2. ASSUME NEW p \in Players, NEW t \in {"Pawn", "King"}
      PROVE  b.pieces[p][t] = c.pieces[p][t]
  <2>1. \A pos : pos \in b.pieces[p][t] <=> PieceKey(p, t, pos) \in PieceKeys(b, {"Pawn", "King"})
    BY PieceKeyIn
  <2>2. \A pos : pos \in c.pieces[p][t] <=> PieceKey(p, t, pos) \in PieceKeys(c, {"Pawn", "King"})
    BY PieceKeyIn
  <2> QED
    BY <1>1, <2>1, <2>2
<1> QED
  BY <1>2 DEF SameKingsAndPawns

\* Nothing else is read by what the cache keeps.
LEMMA PawnTermsAgree ==
  ASSUME NEW b, NEW c, SameKingsAndPawns(b, c), NEW p \in Players, NEW pos
  PROVE  PawnTerms(b, p, pos) = PawnTerms(c, p, pos) /\ Stoppers(b, p, pos) = Stoppers(c, p, pos)
<1>1. /\ nextPlayer(p) \in Players
      /\ b.pieces[p]["Pawn"] = c.pieces[p]["Pawn"]
      /\ b.pieces[nextPlayer(p)]["Pawn"] = c.pieces[nextPlayer(p)]["Pawn"]
      /\ b.pieces[p]["King"] = c.pieces[p]["King"]
      /\ b.pieces[nextPlayer(p)]["King"] = c.pieces[nextPlayer(p)]["King"]
  BY PlayersAre DEF SameKingsAndPawns
<1>2. KingOf(b, p) = KingOf(c, p) /\ KingOf(b, nextPlayer(p)) = KingOf(c, nextPlayer(p))
  BY <1>1 DEF KingOf
<1>3. getPawnAttacks(b, p) = getPawnAttacks(c, p)
  BY <1>1 DEF getPawnAttacks
<1>4. Stoppers(b, p, pos) = Stoppers(c, p, pos)
  BY <1>1 DEF Stoppers
<1>5. PasserTerms(b, p, pos) = PasserTerms(c, p, pos)
  BY <1>2 DEF PasserTerms
<1>6. CandidateTerms(b, p, pos) = CandidateTerms(c, p, pos)
  BY <1>1, <1>4, Zenon DEF CandidateTerms
<1> QED
  BY <1>1, <1>2, <1>3, <1>4, <1>5, <1>6, Zenon DEF PawnTerms

LEMMA EntriesAgree ==
  ASSUME NEW b, NEW c, SameKingsAndPawns(b, c)
  PROVE  KingPawnEntry(b) = KingPawnEntry(c)
<1>1. ASSUME NEW p \in Players
      PROVE  /\ getStaticKingPawnScore(b, p) = getStaticKingPawnScore(c, p)
             /\ PassedPawns(b, p) = PassedPawns(c, p)
  <2>1. /\ nextPlayer(p) \in Players
        /\ b.pieces[p]["Pawn"] = c.pieces[p]["Pawn"]
        /\ b.pieces[nextPlayer(p)]["Pawn"] = c.pieces[nextPlayer(p)]["Pawn"]
        /\ KingOf(b, p) = KingOf(c, p)
    BY PlayersAre DEF SameKingsAndPawns, KingOf
  <2>2. \A pos : PawnTerms(b, p, pos) = PawnTerms(c, p, pos) /\ Stoppers(b, p, pos) = Stoppers(c, p, pos)
    BY PawnTermsAgree
  <2>3. {PawnTerms(b, p, pos) : pos \in b.pieces[p]["Pawn"]}
          = {PawnTerms(c, p, pos) : pos \in c.pieces[p]["Pawn"]}
    BY <2>1, <2>2
  <2>4. getStaticKingPawnScore(b, p) = getStaticKingPawnScore(c, p)
    BY <2>1, <2>3, Zenon DEF getStaticKingPawnScore
  <2> QED
    BY <2>1, <2>2, <2>4 DEF PassedPawns
<1>2. b.kpHash = c.kpHash
  BY DEF SameKingsAndPawns
<1>3. [p \in Players |-> getStaticKingPawnScore(b, p)] = [p \in Players |-> getStaticKingPawnScore(c, p)]
  BY <1>1
<1>4. [p \in Players |-> PassedPawns(b, p)] = [p \in Players |-> PassedPawns(c, p)]
  BY <1>1
<1> QED
  BY <1>2, <1>3, <1>4, Zenon DEF KingPawnEntry

\* The cache holds the entry of some board, not of the one at hand.
IsEntryOfABoard(cache) == \E c \in Boards : KingPawnHashInStep(c) /\ cache = KingPawnEntry(c)

LEMMA EntryServes ==
  ASSUME NEW b \in Boards, IsFresh(b), NEW cache, IsEntryOfABoard(cache)
  PROVE  /\ cache.key = b.kpHash => cache = KingPawnEntry(b)
         /\ IsEntryOfABoard(KingPawnEntry(b))
         /\ IsEntryOfABoard(fetchOrStoreKpCache(cache, b))
<1>1. PICK c \in Boards : KingPawnHashInStep(c) /\ cache = KingPawnEntry(c)
  BY DEF IsEntryOfABoard
<1>2. KingPawnHashInStep(b)
  BY FreshIs
<1>3. cache.key = c.kpHash
  BY <1>1 DEF KingPawnEntry
<1>4. cache.key = b.kpHash => cache = KingPawnEntry(b)
  BY <1>1, <1>2, <1>3, KeyTellsKingsAndPawns, EntriesAgree
<1>5. IsEntryOfABoard(KingPawnEntry(b))
  BY <1>2 DEF IsEntryOfABoard
<1> QED
  BY <1>4, <1>5 DEF fetchOrStoreKpCache

----------------------------------------------------------------------------
(* What parse() returns keeps what it should.                              *)

Fields == {"pieces", "occupation", "attacks", "castlingRights", "player", "enPessant",
           "fullMoves", "halfMoves", "hash", "kpHash"}

\* A board the parts of the string were read into.
Whole(b) == DOMAIN b = Fields /\ OccupationAndAttacksAre(b)
IsWhole(s) == s.ok => Whole(s.board)

LEMMA EmptyBoardIsWhole == Whole(emptyBoard)
<1>1. DOMAIN emptyBoard = Fields
  BY DEF emptyBoard, Fields
<1>2. \A p \in Players, t \in PieceTypes : emptyBoard.pieces[p][t] = {}
  BY DEF emptyBoard, noPieces
<1>3. \A p \in Players : occupationOf(emptyBoard.pieces, p) = {}
  BY <1>2 DEF occupationOf
<1>4. \A p \in Players : getAllAttacks(emptyBoard, p) = {}
  <2> SUFFICES ASSUME NEW p \in Players PROVE getAllAttacks(emptyBoard, p) = {}
    OBVIOUS
  <2>1. getPawnAttacks(emptyBoard, p) = {}
    BY <1>2, PieceTypesAre DEF getPawnAttacks, Shift
  <2>2. /\ emptyBoard.pieces[p]["Knight"] = {} /\ emptyBoard.pieces[p]["Rook"] = {}
        /\ emptyBoard.pieces[p]["Bishop"] = {} /\ emptyBoard.pieces[p]["Queen"] = {}
        /\ emptyBoard.pieces[p]["King"] = {}
    BY <1>2, PieceTypesAre
  <2> QED
    BY <2>1, <2>2 DEF getAllAttacks
<1>5. emptyBoard.occupation = [p \in Players |-> {}] /\ emptyBoard.attacks = [p \in Players |-> {}]
  BY DEF emptyBoard
<1> QED
  BY <1>1, <1>3, <1>4, <1>5 DEF Whole, OccupationAndAttacksAre

\* The last statement of the piece placement fills in both.
LEMMA PlacementIsWhole ==
  ASSUME NEW b, DOMAIN b = Fields
  PROVE  Whole(updateAttacks(updateOccupation(b)))
<1> DEFINE occ == [p \in Players |-> occupationOf(b.pieces, p)]
           d == [b EXCEPT !.occupation = occ]
           att == [p \in Players |-> getAllAttacks(d, p)]
           c == [d EXCEPT !.attacks = att]
<1>1. updateAttacks(updateOccupation(b)) = c
  BY Zenon DEF updateAttacks, updateOccupation
<1>2. occ = [p \in Players |-> occupationOf(b.pieces, p)]
  OBVIOUS
<1> HIDE DEF occ
<1>3. DOMAIN d = Fields /\ d.pieces = b.pieces /\ d.occupation = occ
  BY DEF Fields
<1> HIDE DEF d
<1>4. att = [p \in Players |-> getAllAttacks(d, p)]
  OBVIOUS
<1> HIDE DEF att
<1>5. DOMAIN c = Fields /\ c.pieces = d.pieces /\ c.occupation = d.occupation /\ c.attacks = att
  BY <1>3 DEF Fields
<1> HIDE DEF c
<1>6. \A p \in Players : getAllAttacks(c, p) = getAllAttacks(d, p)
  BY <1>5, AttacksFollow
<1> QED
  BY <1>1, <1>2, <1>3, <1>4, <1>5, <1>6 DEF Whole, OccupationAndAttacksAre

\* The other parts touch neither pieces nor occupation nor attacks.
LEMMA OtherPartsAreWhole ==
  ASSUME NEW b, Whole(b), NEW c, DOMAIN c = Fields,
         c.pieces = b.pieces, c.occupation = b.occupation, c.attacks = b.attacks
  PROVE  Whole(c)
<1>1. \A p \in Players : getAllAttacks(c, p) = getAllAttacks(b, p)
  BY AttacksFollow
<1> QED
  BY <1>1 DEF Whole, OccupationAndAttacksAre

LEMMA PartIsWhole ==
  ASSUME NEW b, Whole(b), NEW part \in 1..6, NEW input
  PROVE  IsWhole(ParsePart(part, input, b))
<1>0. DOMAIN b = Fields
  BY DEF Whole
<1>1. CASE part = 1
  <2>1. PICK pieces, ok : parsePiecePlacement(input, b) =
          IF ok THEN Result(TRUE, updateAttacks(updateOccupation([b EXCEPT !.pieces = pieces])))
                ELSE Result(FALSE, [b EXCEPT !.pieces = pieces])
    BY Zenon DEF parsePiecePlacement
  <2>2. DOMAIN [b EXCEPT !.pieces = pieces] = Fields
    BY <1>0
  <2>3. Whole(updateAttacks(updateOccupation([b EXCEPT !.pieces = pieces])))
    BY <2>2, PlacementIsWhole
  <2> QED
    BY <1>1, <2>1, <2>3 DEF ParsePart, IsWhole, Result
<1>2. \A x : /\ Whole([b EXCEPT !.player = x]) /\ Whole([b EXCEPT !.castlingRights = x])
             /\ Whole([b EXCEPT !.enPessant = x]) /\ Whole([b EXCEPT !.halfMoves = x])
             /\ Whole([b EXCEPT !.fullMoves = x])
  <2> TAKE x
  <2>1. Whole([b EXCEPT !.player = x])
    BY <1>0, OtherPartsAreWhole DEF Fields
  <2>2. Whole([b EXCEPT !.castlingRights = x])
    BY <1>0, OtherPartsAreWhole DEF Fields
  <2>3. Whole([b EXCEPT !.enPessant = x])
    BY <1>0, OtherPartsAreWhole DEF Fields
  <2>4. Whole([b EXCEPT !.halfMoves = x])
    BY <1>0, OtherPartsAreWhole DEF Fields
  <2>5. Whole([b EXCEPT !.fullMoves = x])
    BY <1>0, OtherPartsAreWhole DEF Fields
  <2> QED
    BY <2>1, <2>2, <2>3, <2>4, <2>5
<1>3. \A x, ok : (ok => Whole(x)) => IsWhole(Result(ok, x))
  BY DEF IsWhole, Result
<1>4. CASE part = 2
  <2>1. IsWhole(parseSideToMove(input, b))
    BY <1>2, <1>3, Zenon DEF parseSideToMove
  <2> QED
    BY <1>4, <2>1 DEF ParsePart
<1>5. CASE part = 3
  <2>1. IsWhole(parseCastlingAbility(input, b))
    BY <1>2, <1>3, Zenon DEF parseCastlingAbility
  <2> QED
    BY <1>5, <2>1 DEF ParsePart
<1>6. CASE part = 4
  <2>1. IsWhole(parseEnPassantTargetSquare(input, b))
    BY <1>2, <1>3, Zenon DEF parseEnPassantTargetSquare
  <2> QED
    BY <1>6, <2>1 DEF ParsePart
<1>7. CASE part = 5
  <2>1. IsWhole(parseHalfMoveClock(input, b))
    BY <1>2, <1>3, Zenon DEF parseHalfMoveClock
  <2> QED
    BY <1>7, <2>1 DEF ParsePart
<1>8. CASE part = 6
  <2>1. IsWhole(parseFullMoveCounter(input, b))
    BY <1>2, <1>3, Zenon DEF parseFullMoveCounter
  <2> QED
    BY <1>8, <2>1 DEF ParsePart
<1>9. part \in {1, 2, 3, 4, 5, 6}
  OBVIOUS
<1> QED
  BY <1>1, <1>4, <1>5, <1>6, <1>7, <1>8, <1>9

\* What the rounds of the loop carry on.
IsRound(s) == DOMAIN s = {"sv", "ok", "board", "done"} /\ IsWhole(s)

LEMMA RoundIsWhole ==
  ASSUME NEW s, IsRound(s), NEW part \in 1..6
  PROVE  IsRound(ParseRound(s, part))
<1>1. CASE s.done \/ ~s.ok
  BY <1>1 DEF ParseRound
<1>2. CASE ~s.done /\ s.ok
  <2>1. Whole(s.board)
    BY <1>2 DEF IsRound, IsWhole
  <2>2. IsRound([s EXCEPT !.done = TRUE, !.ok = part < 2])
    BY <2>1 DEF IsRound, IsWhole
  <2>3. IsRound(ReadPart(s, part, NextPart(s.sv)))
    <3> DEFINE result == ParsePart(part, NextPart(s.sv), s.board)
    <3>1. IsWhole(result)
      BY <2>1, PartIsWhole, Zenon
    <3> HIDE DEF result
    <3> QED
      BY <3>1 DEF IsRound, IsWhole, ReadPart, result
  <2> QED
    BY <1>2, <2>2, <2>3 DEF ParseRound
<1> QED
  BY <1>1, <1>2

\* The hashes are computed last.
LEMMA ParsedIsFresh ==
  ASSUME NEW fen \in Fens, NEW b \in parse(fen)
  PROVE  b \in Boards /\ IsPosition(b) /\ IsFresh(b)
<1>1. b \in Boards /\ IsPosition(b)
  BY FensAssumption
<1> DEFINE start == [sv |-> fen, ok |-> TRUE, board |-> emptyBoard, done |-> FALSE]
           outcomes == Round(Round(Round(Round(Round(Round({start}, 1), 2), 3), 4), 5), 6)
<1>2. IsRound(start)
  BY EmptyBoardIsWhole DEF IsRound, IsWhole
<1>3. \A n \in 1..6 : \A S : (\A s \in S : IsRound(s)) => \A s \in Round(S, n) : IsRound(s)
  BY RoundIsWhole DEF Round
<1>4. \A s \in outcomes : IsRound(s)
  <2> HIDE DEF start
  <2> QED
    BY <1>2, <1>3
<1>5. PICK end \in outcomes :
        end.ok /\ b = [end.board EXCEPT !.hash = generateHash(end.board),
                                        !.kpHash = generateKingPawnHash(end.board)]
  BY Zenon DEF parse
<1>6. IsRound(end)
  BY <1>4, <1>5
<1> HIDE DEF outcomes
<1> DEFINE e == end.board
           hash == generateHash(e)
           kpHash == generateKingPawnHash(e)
<1>7. Whole(e)
  BY <1>5, <1>6 DEF IsRound, IsWhole
<1>8. b = [e EXCEPT !.hash = hash, !.kpHash = kpHash] /\ hash = generateHash(e) /\ kpHash = generateKingPawnHash(e)
  BY <1>5
<1> HIDE DEF e, hash, kpHash
<1>9. /\ DOMAIN b = Fields /\ b.hash = hash /\ b.kpHash = kpHash
      /\ b.pieces = e.pieces /\ b.occupation = e.occupation /\ b.attacks = e.attacks
      /\ b.castlingRights = e.castlingRights /\ b.enPessant = e.enPessant /\ b.player = e.player
  BY <1>7, <1>8 DEF Whole, Fields
<1>10. OccupationAndAttacksAre(b)
  BY <1>7, <1>9, OtherPartsAreWhole DEF Whole
<1>11. PieceKeys(b, PieceTypes) = PieceKeys(e, PieceTypes) /\ PieceKeys(b, {"Pawn", "King"}) = PieceKeys(e, {"Pawn", "King"})
  BY <1>9, HashesFollow
<1>12. generateHash(b) = generateHash(e) /\ generateKingPawnHash(b) = generateKingPawnHash(e)
  BY <1>9, <1>11, Zenon DEF generateHash, generateKingPawnHash
<1> QED
  BY <1>1, <1>8, <1>9, <1>10, <1>12, FreshIs DEF HashInStep, KingPawnHashInStep

----------------------------------------------------------------------------
(* The inductive invariant and its consequences.                           *)

CacheIsOfABoard == IsEntryOfABoard(kpCache)
GameInvariant == BoardIsSound /\ IsFresh(board) /\ CacheIsOfABoard

LEMMA InitSound == Init => GameInvariant
<1> SUFFICES ASSUME Init PROVE GameInvariant
  OBVIOUS
<1>1. board \in Boards /\ IsPosition(board) /\ IsFresh(board)
  BY ParsedIsFresh DEF Init
<1>2. IsEntryOfABoard(kpCache)
  BY <1>1, FreshIs DEF Init, IsEntryOfABoard
<1>3. ply = 0 /\ nullSearch = FALSE
  BY Zenon DEF Init
<1>4. ply \in 0..MaxPly
  BY <1>3, MaxPlyAssumption
<1>5. nullSearch \in BOOLEAN
  BY <1>3, Zenon
<1> QED
  BY <1>1, <1>2, <1>4, <1>5 DEF GameInvariant, BoardIsSound, TypeInvariant, CacheIsOfABoard

\* A legal move leads from a position to a position.
LEMMA LegalMoveKeeps ==
  ASSUME NEW b \in Boards, IsFresh(b), IsPosition(b),
         NEW m \in getAllMoves("PseudoLegal", b), IsLegal(b, m)
  PROVE  LET c == performMove(b, m) IN c \in Boards /\ IsFresh(c) /\ IsPosition(c)
<1> DEFINE c == performMove(b, m)
<1>1. IsAMove(b, m)
  BY GeneratedIsAMove
<1>2. Finished(b, c, m) /\ PiecesMoved(b, m, c)
  BY <1>1, MoveMade
<1>3. ~isKingAttacked(c, b.player)
  BY DEF IsLegal
<1> HIDE DEF c
<1>4. PICK gone, come, taken : IsMoveOf(b, m, gone, come, taken) /\ Transfer(b, c, gone, come, taken)
  BY <1>2 DEF PiecesMoved
<1>5. IsPosition(c)
  BY <1>2, <1>3, <1>4, PositionAfter
<1> QED
  BY <1>2, <1>5 DEF Finished, c

\* So does a null move out of check.
LEMMA NullMoveKeeps ==
  ASSUME NEW b \in Boards, IsFresh(b), IsPosition(b), ~isKingAttacked(b, b.player)
  PROVE  LET c == performNullMove(b) IN c \in Boards /\ IsFresh(c) /\ IsPosition(c)
<1> DEFINE c == performNullMove(b)
<1>1. /\ c \in Boards /\ IsFresh(c) /\ c.pieces = b.pieces
      /\ c.castlingRights = b.castlingRights /\ c.attacks = b.attacks
      /\ c.enPessant = NoPosition /\ c.player = nextPlayer(b.player)
  BY NullMoveIs
<1> HIDE DEF c
<1>2. nextPlayer(c.player) = b.player
  BY <1>1, BoardFields, PlayersAre
<1>3. PiecesStandApart(c) /\ OneKingEach(c) /\ PawnsAreOnTheirWay(c) /\ PawnsAreFew(c)
  BY <1>1 DEF IsPosition, PiecesStandApart, OneKingEach, PawnsAreOnTheirWay, PawnsAreFew
<1>4. RightsNeedKingAndRook(c)
  BY <1>1, Zenon DEF IsPosition, RightsNeedKingAndRook
<1>5. EnPassantNeedsItsPawn(c)
  BY <1>1 DEF EnPassantNeedsItsPawn
<1>6. ~isKingAttacked(c, nextPlayer(c.player))
  BY <1>1, <1>2 DEF isKingAttacked
<1> QED
  BY <1>1, <1>3, <1>4, <1>5, <1>6 DEF IsPosition, c

LEMMA EvaluateKeeps ==
  ASSUME CacheIsOfABoard, board' \in Boards, IsFresh(board'), Evaluate
  PROVE  CacheIsOfABoard'
<1>1. kpCache' = kpCache \/ kpCache' = fetchOrStoreKpCache(kpCache, board')
  BY DEF Evaluate
<1>2. IsEntryOfABoard(kpCache) /\ IsEntryOfABoard(fetchOrStoreKpCache(kpCache, board'))
  BY EntryServes DEF CacheIsOfABoard
<1>3. IsEntryOfABoard(kpCache')
  BY <1>1, <1>2
<1> QED
  BY <1>3 DEF CacheIsOfABoard

LEMMA NextSound ==
  ASSUME GameInvariant, [Next]_vars
  PROVE  GameInvariant'
<1>1. /\ board \in Boards /\ IsFresh(board) /\ IsPosition(board)
      /\ ply \in 0..MaxPly /\ nullSearch \in BOOLEAN /\ CacheIsOfABoard
  BY DEF GameInvariant, BoardIsSound, TypeInvariant
<1> SUFFICES /\ board' \in Boards /\ IsFresh(board') /\ IsPosition(board')
             /\ ply' \in 0..MaxPly /\ nullSearch' \in BOOLEAN /\ CacheIsOfABoard'
  BY DEF GameInvariant, BoardIsSound, TypeInvariant
<1>2. CASE MakeMove
  <2>1. PICK m \in getAllMoves("PseudoLegal", board) :
          IsLegal(board, m) /\ board' = performMove(board, m)
    BY <1>2 DEF MakeMove
  <2>2. board' \in Boards /\ IsFresh(board') /\ IsPosition(board')
    BY <1>1, <2>1, LegalMoveKeeps
  <2>3. CacheIsOfABoard'
    BY <1>1, <1>2, <2>2, EvaluateKeeps DEF MakeMove
  <2>4. ply < MaxPly /\ ply' = ply + 1 /\ nullSearch' = FALSE
    BY <1>2, Zenon DEF MakeMove
  <2>5. ply' \in 0..MaxPly
    BY <1>1, <2>4, MaxPlyAssumption
  <2>6. nullSearch' \in BOOLEAN
    BY <2>4, Zenon
  <2> QED
    BY <2>2, <2>3, <2>5, <2>6
<1>3. CASE MakeNullMove
  <2>1. board' \in Boards /\ IsFresh(board') /\ IsPosition(board')
    BY <1>1, <1>3, NullMoveKeeps DEF MakeNullMove
  <2>2. CacheIsOfABoard'
    BY <1>1, <1>3, <2>1, EvaluateKeeps DEF MakeNullMove
  <2>3. ply' \in 0..MaxPly /\ nullSearch' \in BOOLEAN
    BY <1>1, <1>3, MaxPlyAssumption DEF MakeNullMove
  <2> QED
    BY <2>1, <2>2, <2>3
<1>4. CASE UNCHANGED vars
  BY <1>1, <1>4 DEF vars, CacheIsOfABoard
<1> QED
  BY <1>2, <1>3, <1>4 DEF Next

\* After any sequence of legal moves and null moves, from any FEN strings of
\* positions, the board is that of a position, everything it keeps is what it
\* would compute from nothing (core/move_handling.h:210-291), and the entry of
\* the king-pawn cache is that of some position.
THEOREM GameInvariantHolds == Spec => []GameInvariant
<1>1. Init => GameInvariant
  BY InitSound
<1>2. GameInvariant /\ [Next]_vars => GameInvariant'
  BY NextSound
<1> QED
  BY <1>1, <1>2, PTL DEF Spec

\* A castling right never outlives king or rook, the en passant square always
\* has its pawn, no two pieces share a square, each side has its one king, no
\* pawn stands on a last row and the player who moved is never in check
\* (core/move_handling.h:20-291, search/searcher.h:657-676).
THEOREM BoardStaysSound == Spec => []BoardIsSound
<1>1. GameInvariant => BoardIsSound
  BY DEF GameInvariant
<1> QED
  BY <1>1, GameInvariantHolds, PTL

\* Occupation, attacks and the incremental hashes are those generateHash() and
\* its like compute from the pieces, and a hit in the king-pawn cache gives the
\* terms of this very position (evaluation/static_evaluation.h:104-118).
THEOREM KeptStateStaysFresh == Spec => []KeptStateIsFresh
<1>1. GameInvariant => KeptStateIsFresh
  <2> SUFFICES ASSUME GameInvariant PROVE KeptStateIsFresh
    OBVIOUS
  <2>1. board \in Boards /\ IsFresh(board) /\ IsEntryOfABoard(kpCache)
    BY DEF GameInvariant, BoardIsSound, TypeInvariant, CacheIsOfABoard
  <2>2. kpCache.key = board.kpHash => kpCache = KingPawnEntry(board)
    BY <2>1, EntryServes
  <2> QED
    BY <2>1, <2>2 DEF KeptStateIsFresh, KingPawnCacheIsFresh
<1> QED
  BY <1>1, GameInvariantHolds, PTL

----------------------------------------------------------------------------
(* The rules look at squares, the code at sets of pieces: `at' shows the   *)
(* pieces if each stands where the code has it, and nothing else does.     *)

Shows(at, pieces) ==
  \A s \in Squares :
    /\ \A p \in Players, t \in PieceTypes : at[s] = <<p, t>> <=> s \in pieces[p][t]
    /\ at[s] = Rules!Empty \/ \E p \in Players, t \in PieceTypes : at[s] = <<p, t>>

LEMMA StandingShows ==
  ASSUME NEW b \in Boards, PiecesStandApart(b)
  PROVE  Shows(Standing(b), b.pieces)
<1> SUFFICES ASSUME NEW s \in Squares
             PROVE  /\ \A p \in Players, t \in PieceTypes :
                         Standing(b)[s] = <<p, t>> <=> s \in b.pieces[p][t]
                    /\ \/ Standing(b)[s] = Rules!Empty
                       \/ \E p \in Players, t \in PieceTypes : Standing(b)[s] = <<p, t>>
  BY DEF Shows
<1> DEFINE on == {x \in Players \X PieceTypes : s \in b.pieces[x[1]][x[2]]}
<1>1. Standing(b)[s] = IF on = {} THEN <<"None", "None">> ELSE CHOOSE x \in on : TRUE
  BY DEF Standing
<1>2. \A p \in Players, t \in PieceTypes : <<p, t>> \in on <=> s \in b.pieces[p][t]
  OBVIOUS
<1>3. \A x, y \in on : x = y
  BY DEF PiecesStandApart
<1>4. \A p \in Players, t \in PieceTypes : <<p, t>> # <<"None", "None">>
  BY DEF Players
<1>5. \A x \in on : \E p \in Players, t \in PieceTypes : x = <<p, t>>
  OBVIOUS
<1> HIDE DEF on
<1>6. CASE on = {}
  BY <1>1, <1>2, <1>4, <1>6 DEF Rules!Empty
<1>7. CASE on # {}
  <2>1. Standing(b)[s] \in on
    BY <1>1, <1>7
  <2> QED
    BY <1>2, <1>3, <1>5, <2>1
<1> QED
  BY <1>6, <1>7

\* What the rules ask of a square.
LEMMA Shown ==
  ASSUME NEW pieces \in PieceSets, NEW at, Shows(at, pieces), NEW s \in Squares
  PROVE  /\ \A p \in Players : Rules!Owns(at, p, s) <=> s \in occupationOf(pieces, p)
         /\ at[s] = Rules!Empty <=> \A p \in Players : s \notin occupationOf(pieces, p)
         /\ \A p \in Players, t \in PieceTypes :
              s \in pieces[p][t] => at[s] = <<p, t>> /\ at[s][1] = p /\ at[s][2] = t
         /\ \A p \in Players : Rules!Owns(at, p, s) =>
              \E t \in PieceTypes : s \in pieces[p][t] /\ at[s][2] = t
         /\ at[s] = Rules!Empty => at[s][2] \notin PieceTypes
<1>1. \A p \in Players, t \in PieceTypes : at[s] = <<p, t>> <=> s \in pieces[p][t]
  BY DEF Shows
<1>2. at[s] = Rules!Empty \/ \E p \in Players, t \in PieceTypes : at[s] = <<p, t>>
  BY DEF Shows
<1>3. \A p \in Players : s \in occupationOf(pieces, p) <=> \E t \in PieceTypes : s \in pieces[p][t]
  BY DEF occupationOf
<1>4. \A p \in Players, t \in PieceTypes : /\ <<p, t>> # Rules!Empty
                                           /\ <<p, t>>[1] = p /\ <<p, t>>[2] = t
  BY DEF Players, Rules!Empty
<1>5. Rules!Empty[1] \notin Players /\ Rules!Empty[2] \notin PieceTypes
  BY PieceTypesAre DEF Players, Rules!Empty
<1>6. \A p \in Players : Rules!Owns(at, p, s) <=> \E t \in PieceTypes : at[s] = <<p, t>>
  BY <1>2, <1>4, <1>5 DEF Rules!Owns
<1> QED
  BY <1>1, <1>2, <1>3, <1>4, <1>5, <1>6

----------------------------------------------------------------------------
(* The attack of a single piece.                                           *)

\* A piece of player p on s attacks t, on a board with these squares taken.
Strikes(p, type, occ, s, t) ==
  \/ type = "Pawn" /\ \/ File(s) # 0 /\ t = s + (Forward(p) - 1)
                      \/ File(s) # 7 /\ t = s + (Forward(p) + 1)
  \/ type = "Knight" /\ t \in knightsTable[s]
  \/ type \in {"Rook", "Queen"} /\ t \in getRookMoves(s, occ)
  \/ type \in {"Bishop", "Queen"} /\ t \in getBishopMoves(s, occ)
  \/ type = "King" /\ t \in kingsTable[s]

LEMMA Differences ==
  ASSUME NEW s \in Squares, NEW t \in Squares
  PROVE  LET dr == Rules!Rank(t) - Rules!Rank(s)
             df == Rules!FileOf(t) - Rules!FileOf(s)
         IN /\ dr \in -7..7 /\ df \in -7..7
            /\ Row(t) = Row(s) + dr /\ File(t) = File(s) + df
            /\ t = s + 8 * dr + df
            /\ s = t <=> dr = 0 /\ df = 0
BY SquaresAre DEF Rules!Rank, Rules!FileOf, Row, File

\* The square at given distances is unique.
LEMMA SquareAt ==
  ASSUME NEW s \in Squares, NEW t \in Squares, NEW r \in Int, NEW f \in Int
  PROVE  Row(s) + r \in 0..7 /\ File(s) + f \in 0..7 /\ t = At(Row(s) + r, File(s) + f)
           <=> Row(t) = Row(s) + r /\ File(t) = File(s) + f
BY SquaresAre, AtIsASquare DEF At

LEMMA LeapersAre ==
  ASSUME NEW s \in Squares, NEW t \in Squares
  PROVE  /\ t \in knightsTable[s] <=> \E o \in knightsOffset :
              Row(t) = Row(s) + o[1] /\ File(t) = File(s) + o[2]
         /\ t \in kingsTable[s] <=> \E o \in kingsOffset :
              Row(t) = Row(s) + o[1] /\ File(t) = File(s) + o[2]
<1>1. \A o \in knightsOffset \cup kingsOffset : o[1] \in Int /\ o[2] \in Int
  BY DEF knightsOffset, kingsOffset
<1>2. \A o \in knightsOffset \cup kingsOffset :
        t \in Step(s, o) <=> Row(t) = Row(s) + o[1] /\ File(t) = File(s) + o[2]
  BY <1>1, SquareAt DEF Step
<1>3. /\ t \in knightsTable[s] <=> \E o \in knightsOffset : t \in Step(s, o)
      /\ t \in kingsTable[s] <=> \E o \in kingsOffset : t \in Step(s, o)
  BY DEF knightsTable, kingsTable
<1> QED
  BY <1>2, <1>3

LEMMA KnightsStrike ==
  ASSUME NEW s \in Squares, NEW t \in Squares
  PROVE  LET dr == Rules!Rank(t) - Rules!Rank(s)
             df == Rules!FileOf(t) - Rules!FileOf(s)
         IN {Rules!Abs(dr), Rules!Abs(df)} = {1, 2} <=> t \in knightsTable[s]
<1> DEFINE dr == Rules!Rank(t) - Rules!Rank(s)
           df == Rules!FileOf(t) - Rules!FileOf(s)
<1>1. dr \in -7..7 /\ df \in -7..7 /\ Row(t) = Row(s) + dr /\ File(t) = File(s) + df
  BY Differences
<1> HIDE DEF dr, df
<1>2. \A a, c : {a, c} = {1, 2} <=> (a = 1 /\ c = 2) \/ (a = 2 /\ c = 1)
  OBVIOUS
<1>3. {Rules!Abs(dr), Rules!Abs(df)} = {1, 2} <=> <<dr, df>> \in knightsOffset
  BY <1>1, <1>2 DEF Rules!Abs, knightsOffset
<1>4. (\E o \in knightsOffset : Row(t) = Row(s) + o[1] /\ File(t) = File(s) + o[2])
        <=> <<dr, df>> \in knightsOffset
  <2>1. \A o \in knightsOffset : o[1] \in Int /\ o[2] \in Int /\ o = <<o[1], o[2]>>
    BY DEF knightsOffset
  <2>2. Row(s) \in Int /\ File(s) \in Int
    BY SquaresAre
  <2> QED
    BY <1>1, <2>1, <2>2
<1> QED
  BY <1>3, <1>4, LeapersAre DEF dr, df

LEMMA KingsStrike ==
  ASSUME NEW s \in Squares, NEW t \in Squares
  PROVE  LET dr == Rules!Rank(t) - Rules!Rank(s)
             df == Rules!FileOf(t) - Rules!FileOf(s)
         IN s # t /\ Rules!Abs(dr) =< 1 /\ Rules!Abs(df) =< 1 <=> t \in kingsTable[s]
<1> DEFINE dr == Rules!Rank(t) - Rules!Rank(s)
           df == Rules!FileOf(t) - Rules!FileOf(s)
<1>1. /\ dr \in -7..7 /\ df \in -7..7 /\ Row(t) = Row(s) + dr /\ File(t) = File(s) + df
      /\ s = t <=> dr = 0 /\ df = 0
  BY Differences
<1> HIDE DEF dr, df
<1>2. s # t /\ Rules!Abs(dr) =< 1 /\ Rules!Abs(df) =< 1 <=> <<dr, df>> \in kingsOffset
  BY <1>1 DEF Rules!Abs, kingsOffset
<1>3. (\E o \in kingsOffset : Row(t) = Row(s) + o[1] /\ File(t) = File(s) + o[2])
        <=> <<dr, df>> \in kingsOffset
  <2>1. \A o \in kingsOffset : o[1] \in Int /\ o[2] \in Int /\ o = <<o[1], o[2]>>
    BY DEF kingsOffset
  <2>2. Row(s) \in Int /\ File(s) \in Int
    BY SquaresAre
  <2> QED
    BY <1>1, <2>1, <2>2
<1> QED
  BY <1>2, <1>3, LeapersAre DEF dr, df

LEMMA PawnsStrike ==
  ASSUME NEW p \in Players, NEW s \in Squares, NEW t \in Squares
  PROVE  LET dr == Rules!Rank(t) - Rules!Rank(s)
             df == Rules!FileOf(t) - Rules!FileOf(s)
         IN dr = Rules!Up(p) /\ Rules!Abs(df) = 1 <=>
              \/ File(s) # 0 /\ t = s + (Forward(p) - 1)
              \/ File(s) # 7 /\ t = s + (Forward(p) + 1)
BY DEF Players, Rules!Up, Rules!Abs, Rules!Rank, Rules!FileOf, File, Forward, Squares

----------------------------------------------------------------------------
(* Lines: the rays of the code and those of the rules.                     *)

\* From s in direction d the piece on s has a free line to t.
LineTo(at, d, s, t) ==
  \E n \in 1..7 :
    /\ Row(t) = Row(s) + n * d[1] /\ File(t) = File(s) + n * d[2]
    /\ \A k \in 1..(n - 1) : at[s + k * (8 * d[1] + d[2])] = Rules!Empty

LEMMA RaySquareIs ==
  ASSUME NEW d \in Directions, NEW s \in Squares, NEW n \in 1..7, OnRay(d, s, n)
  PROVE  /\ At(Row(s) + n * d[1], File(s) + n * d[2]) = s + n * (8 * d[1] + d[2])
         /\ s + n * (8 * d[1] + d[2]) \in Squares
         /\ Row(s + n * (8 * d[1] + d[2])) = Row(s) + n * d[1]
         /\ File(s + n * (8 * d[1] + d[2])) = File(s) + n * d[2]
         /\ \A k \in 1..n : OnRay(d, s, k)
<1>1. d[1] \in {-1, 0, 1} /\ d[2] \in {-1, 0, 1}
  BY DirectionsAre
<1>2. Row(s) \in 0..7 /\ File(s) \in 0..7 /\ s = 8 * Row(s) + File(s)
  BY SquaresAre
<1>3. n * d[1] \in Int /\ n * d[2] \in Int /\ n * (8 * d[1] + d[2]) = 8 * (n * d[1]) + n * d[2]
  <2>1. CASE d[1] = -1
    BY <1>1, <2>1
  <2>2. CASE d[1] = 0
    BY <1>1, <2>2
  <2>3. CASE d[1] = 1
    BY <1>1, <2>3
  <2> QED
    BY <1>1, <2>1, <2>2, <2>3
<1> DEFINE r == Row(s) + n * d[1]
           f == File(s) + n * d[2]
<1>4. r \in 0..7 /\ f \in 0..7
  BY DEF OnRay
<1>5. At(r, f) = s + n * (8 * d[1] + d[2])
  BY <1>2, <1>3 DEF At
<1>6. \A k \in 1..n : OnRay(d, s, k)
  <2> SUFFICES ASSUME NEW k \in 1..n
               PROVE  Row(s) + k * d[1] \in 0..7 /\ File(s) + k * d[2] \in 0..7
    BY DEF OnRay
  <2>1. \A x \in 0..7, e \in {-1, 0, 1} : x + n * e \in 0..7 => x + k * e \in 0..7
    OBVIOUS
  <2> QED
    BY <1>1, <1>2, <1>4, <2>1
<1> HIDE DEF r, f
<1>7. At(r, f) \in Squares /\ Row(At(r, f)) = r /\ File(At(r, f)) = f
  BY <1>4, AtIsASquare
<1> DEFINE q == s + n * (8 * d[1] + d[2])
<1> HIDE DEF q
<1>8. At(r, f) = q
  BY <1>5 DEF q
<1>9. At(r, f) = q /\ q \in Squares /\ Row(q) = r /\ File(q) = f
  BY <1>7, <1>8
<1> QED
  BY <1>6, <1>9 DEF r, f, q

LEMMA SeesALine ==
  ASSUME NEW pieces \in PieceSets, NEW at, Shows(at, pieces), NEW occ,
         occ = occupationOf(pieces, "White") \cup occupationOf(pieces, "Black"),
         NEW d \in Directions, NEW s \in Squares, NEW t \in Squares
  PROVE  Sees(d, s, occ, t) <=> LineTo(at, d, s, t)
<1> DEFINE ray == Rays[d][s]
           Sq(n) == s + n * (8 * d[1] + d[2])
<1>1. /\ Len(ray) \in 0..7
      /\ \A n \in 1..7 : n \in 1..Len(ray) <=> OnRay(d, s, n)
      /\ \A n \in 1..Len(ray) : ray[n] = At(Row(s) + n * d[1], File(s) + n * d[2])
  BY RaysAre
<1>2. \A n \in 1..7 : OnRay(d, s, n) =>
        /\ ray[n] = Sq(n) /\ Sq(n) \in Squares
        /\ Row(Sq(n)) = Row(s) + n * d[1] /\ File(Sq(n)) = File(s) + n * d[2]
        /\ \A k \in 1..n : OnRay(d, s, k)
  BY <1>1, RaySquareIs
<1>3. \A q \in Squares : q \notin occ <=> at[q] = Rules!Empty
  BY Shown DEF Players
<1>4. \A n \in 1..7 : Row(t) = Row(s) + n * d[1] /\ File(t) = File(s) + n * d[2]
                        => OnRay(d, s, n)
  BY SquaresAre DEF OnRay
<1>5. \A n \in 1..7 : OnRay(d, s, n) =>
        (t = Sq(n) <=> Row(t) = Row(s) + n * d[1] /\ File(t) = File(s) + n * d[2])
  <2>1. \A q \in Squares : Row(q) = Row(t) /\ File(q) = File(t) => q = t
    BY SquaresAre
  <2> QED
    BY <1>2, <2>1
<1>6. \A n \in 1..7 : OnRay(d, s, n) =>
        \A k \in 1..(n - 1) : k \in 1..7 /\ OnRay(d, s, k)
  BY <1>2
<1>7. \A n \in 1..7 : OnRay(d, s, n) => \A k \in 1..(n - 1) :
        ray[k] \notin occ <=> at[Sq(k)] = Rules!Empty
  BY <1>2, <1>3, <1>6
<1>8. LineTo(at, d, s, t) <=>
        \E n \in 1..7 : /\ Row(t) = Row(s) + n * d[1] /\ File(t) = File(s) + n * d[2]
                        /\ \A k \in 1..(n - 1) : at[Sq(k)] = Rules!Empty
  BY DEF LineTo
<1>9. \A n \in 1..Len(ray) : n \in 1..7
  <2> DEFINE len == Len(ray)
  <2>1. len \in 0..7
    BY <1>1
  <2> HIDE DEF len
  <2>2. \A n \in 1..len : n \in 1..7
    BY <2>1
  <2> QED
    BY <2>2 DEF len
<1>10. \A n \in 1..Len(ray) : OnRay(d, s, n)
  BY <1>1, <1>9
<1>11. \A n \in 1..7 : OnRay(d, s, n) => n \in 1..Len(ray)
  BY <1>1
<1> HIDE DEF ray, Sq
<1>12. ASSUME Sees(d, s, occ, t) PROVE LineTo(at, d, s, t)
  <2>1. PICK n \in 1..Len(ray) : t = ray[n] /\ \A k \in 1..(n - 1) : ray[k] \notin occ
    BY <1>12 DEF Sees, ray
  <2> QED
    BY <2>1, <1>2, <1>5, <1>7, <1>8, <1>9, <1>10
<1>13. ASSUME LineTo(at, d, s, t) PROVE Sees(d, s, occ, t)
  <2>1. PICK n \in 1..7 : /\ Row(t) = Row(s) + n * d[1] /\ File(t) = File(s) + n * d[2]
                          /\ \A k \in 1..(n - 1) : at[Sq(k)] = Rules!Empty
    BY <1>8, <1>13
  <2>2. OnRay(d, s, n)
    BY <1>4, <2>1
  <2>3. t = ray[n] /\ n \in 1..Len(ray) /\ \A k \in 1..(n - 1) : ray[k] \notin occ
    BY <1>2, <1>5, <1>7, <1>11, <2>1, <2>2
  <2> QED
    BY <2>3 DEF Sees, ray
<1> QED
  BY <1>12, <1>13

\* The last square of a ray blocks nothing.
LEMMA MaskIsEnough ==
  ASSUME NEW d \in Directions, NEW s \in Squares, NEW occ, NEW mask,
         RayMask(Rays[d][s]) \subseteq mask, NEW t
  PROVE  Sees(d, s, occ \cap mask, t) <=> Sees(d, s, occ, t)
<1>1. Len(Rays[d][s]) \in 0..7
  BY RaysAre
<1>2. \A n \in 1..Len(Rays[d][s]) : \A k \in 1..(n - 1) : Rays[d][s][k] \in mask
  BY <1>1 DEF RayMask
<1> QED
  BY <1>2 DEF Sees

LEMMA SlidersSee ==
  ASSUME NEW pieces \in PieceSets, NEW at, Shows(at, pieces), NEW occ,
         occ = occupationOf(pieces, "White") \cup occupationOf(pieces, "Black"),
         NEW s \in Squares, NEW t \in Squares
  PROVE  /\ t \in getRookMoves(s, occ) <=> \E d \in rookDirections : LineTo(at, d, s, t)
         /\ t \in getBishopMoves(s, occ) <=> \E d \in bishopDirections : LineTo(at, d, s, t)
<1>1. \A d \in Directions : \A block :
        t \in RayAttacks(Rays[d][s], block) <=> Sees(d, s, block, t)
  BY RayAttacksAre
<1>2. /\ \A d \in rookDirections : d \in Directions /\ RayMask(Rays[d][s]) \subseteq rookMasksTable[s]
      /\ \A d \in bishopDirections : d \in Directions /\ RayMask(Rays[d][s]) \subseteq bishopMasksTable[s]
  BY DEF Directions, rookMasksTable, bishopMasksTable
<1>3. /\ t \in getRookMoves(s, occ) <=> \E d \in rookDirections :
           t \in RayAttacks(Rays[d][s], occ \cap rookMasksTable[s])
      /\ t \in getBishopMoves(s, occ) <=> \E d \in bishopDirections :
           t \in RayAttacks(Rays[d][s], occ \cap bishopMasksTable[s])
  BY DEF getRookMoves, getBishopMoves, rookAttacksWithBlock, bishopAttacksWithBlock
<1>4. /\ \A d \in rookDirections : t \in RayAttacks(Rays[d][s], occ \cap rookMasksTable[s])
                                     <=> LineTo(at, d, s, t)
      /\ \A d \in bishopDirections : t \in RayAttacks(Rays[d][s], occ \cap bishopMasksTable[s])
                                       <=> LineTo(at, d, s, t)
  BY <1>1, <1>2, MaskIsEnough, SeesALine
<1> QED
  BY <1>3, <1>4

\* A line of the rules is one of the eight directions.
LEMMA DirectionOf ==
  ASSUME NEW d \in Directions, NEW n \in 1..7
  PROVE  /\ Rules!Sign(n * d[1]) = d[1] /\ Rules!Sign(n * d[2]) = d[2]
         /\ n = IF Rules!Abs(n * d[1]) > Rules!Abs(n * d[2])
                  THEN Rules!Abs(n * d[1]) ELSE Rules!Abs(n * d[2])
         /\ d \in rookDirections <=> (n * d[1] = 0) # (n * d[2] = 0)
         /\ d \in bishopDirections <=> Rules!Abs(n * d[1]) = Rules!Abs(n * d[2]) /\ n * d[1] # 0
BY DEF Directions, rookDirections, bishopDirections, Rules!Sign, Rules!Abs

LEMMA LinesOfTheRules ==
  ASSUME NEW at, NEW s \in Squares, NEW t \in Squares
  PROVE  LET dr == Rules!Rank(t) - Rules!Rank(s)
             df == Rules!FileOf(t) - Rules!FileOf(s)
         IN /\ (dr = 0) # (df = 0) /\ Rules!ClearLine(at, s, t)
                 <=> \E d \in rookDirections : LineTo(at, d, s, t)
            /\ Rules!Abs(dr) = Rules!Abs(df) /\ dr # 0 /\ Rules!ClearLine(at, s, t)
                 <=> \E d \in bishopDirections : LineTo(at, d, s, t)
<1> DEFINE dr == Rules!Rank(t) - Rules!Rank(s)
           df == Rules!FileOf(t) - Rules!FileOf(s)
           n == IF Rules!Abs(dr) > Rules!Abs(df) THEN Rules!Abs(dr) ELSE Rules!Abs(df)
           e == <<Rules!Sign(dr), Rules!Sign(df)>>
           clear == \A i \in 1..(n - 1) : at[s + i * (8 * e[1] + e[2])] = Rules!Empty
           straight == (dr = 0) # (df = 0)
           diagonal == Rules!Abs(dr) = Rules!Abs(df) /\ dr # 0
<1>1. dr \in -7..7 /\ df \in -7..7 /\ Row(t) = Row(s) + dr /\ File(t) = File(s) + df
  BY Differences
<1>2. Rules!ClearLine(at, s, t) <=> clear
  BY DEF Rules!ClearLine
<1>3. Row(s) \in Int /\ File(s) \in Int
  BY SquaresAre
<1> HIDE DEF dr, df
<1>4. straight \/ diagonal => /\ n \in 1..7 /\ dr = n * e[1] /\ df = n * e[2]
                              /\ straight => e \in rookDirections
                              /\ diagonal => e \in bishopDirections
  BY <1>1 DEF Rules!Abs, Rules!Sign, rookDirections, bishopDirections
<1>5. ASSUME NEW d \in Directions, LineTo(at, d, s, t)
      PROVE  /\ d \in rookDirections => straight
             /\ d \in bishopDirections => diagonal
             /\ clear
  <2>1. PICK k \in 1..7 : /\ Row(t) = Row(s) + k * d[1] /\ File(t) = File(s) + k * d[2]
                          /\ \A i \in 1..(k - 1) : at[s + i * (8 * d[1] + d[2])] = Rules!Empty
    BY <1>5 DEF LineTo
  <2>2. k * d[1] \in Int /\ k * d[2] \in Int
    BY DirectionsAre
  <2>3. dr = k * d[1] /\ df = k * d[2]
    BY <1>1, <1>3, <2>1, <2>2
  <2>4. n = k /\ e[1] = d[1] /\ e[2] = d[2]
    BY <2>3, DirectionOf
  <2>5. clear
    BY <2>1, <2>4
  <2> QED
    BY <2>3, <2>5, DirectionOf
<1>6. ASSUME straight \/ diagonal, clear
      PROVE  LineTo(at, e, s, t)
  BY <1>1, <1>4, <1>6 DEF LineTo
<1>7. rookDirections \subseteq Directions /\ bishopDirections \subseteq Directions
  BY DEF Directions
<1> HIDE DEF n, e, clear, straight, diagonal
<1>8. /\ straight /\ clear <=> \E d \in rookDirections : LineTo(at, d, s, t)
      /\ diagonal /\ clear <=> \E d \in bishopDirections : LineTo(at, d, s, t)
  BY <1>4, <1>5, <1>6, <1>7
<1> QED
  BY <1>2, <1>8 DEF straight, diagonal, dr, df

----------------------------------------------------------------------------
(* Attacks and checks are those of the rules.                              *)

LEMMA StrikesIs ==
  ASSUME NEW pieces \in PieceSets, NEW at, Shows(at, pieces), NEW occ,
         occ = occupationOf(pieces, "White") \cup occupationOf(pieces, "Black"),
         NEW p \in Players, NEW type \in PieceTypes, NEW s \in Squares, s \in pieces[p][type],
         NEW t \in Squares
  PROVE  Rules!AttacksSquare(at, s, t) <=> Strikes(p, type, occ, s, t)
<1> DEFINE dr == Rules!Rank(t) - Rules!Rank(s)
           df == Rules!FileOf(t) - Rules!FileOf(s)
           straight == (dr = 0) # (df = 0)
           diagonal == Rules!Abs(dr) = Rules!Abs(df) /\ dr # 0
           pawn == dr = Rules!Up(p) /\ Rules!Abs(df) = 1
           knight == {Rules!Abs(dr), Rules!Abs(df)} = {1, 2}
           king == s # t /\ Rules!Abs(dr) =< 1 /\ Rules!Abs(df) =< 1
           clear == Rules!ClearLine(at, s, t)
<1>1. at[s][1] = p /\ at[s][2] = type
  BY Shown
<1>2. Rules!AttacksSquare(at, s, t) <=>
        \/ type = "Pawn" /\ dr = Rules!Up(at[s][1]) /\ Rules!Abs(df) = 1
        \/ type = "Knight" /\ knight
        \/ type = "King" /\ king
        \/ type \in {"Rook", "Queen"} /\ straight /\ clear
        \/ type \in {"Bishop", "Queen"} /\ diagonal /\ clear
  BY <1>1, Zenon DEF Rules!AttacksSquare
<1>3. pawn <=> \/ File(s) # 0 /\ t = s + (Forward(p) - 1)
               \/ File(s) # 7 /\ t = s + (Forward(p) + 1)
  BY PawnsStrike
<1>4. (knight <=> t \in knightsTable[s]) /\ (king <=> t \in kingsTable[s])
  BY KnightsStrike, KingsStrike
<1>5. /\ straight /\ clear <=> \E d \in rookDirections : LineTo(at, d, s, t)
      /\ diagonal /\ clear <=> \E d \in bishopDirections : LineTo(at, d, s, t)
  BY LinesOfTheRules
<1>6. /\ t \in getRookMoves(s, occ) <=> \E d \in rookDirections : LineTo(at, d, s, t)
      /\ t \in getBishopMoves(s, occ) <=> \E d \in bishopDirections : LineTo(at, d, s, t)
  BY SlidersSee
<1>7. Rules!AttacksSquare(at, s, t) <=>
        \/ type = "Pawn" /\ pawn
        \/ type = "Knight" /\ knight
        \/ type = "King" /\ king
        \/ type \in {"Rook", "Queen"} /\ straight /\ clear
        \/ type \in {"Bishop", "Queen"} /\ diagonal /\ clear
  BY <1>1, <1>2
<1> HIDE DEF straight, diagonal, pawn, knight, king, clear
<1> QED
  BY <1>3, <1>4, <1>5, <1>6, <1>7 DEF Strikes

LEMMA PawnAttacksAre ==
  ASSUME NEW b \in Boards, NEW p \in Players, NEW t
  PROVE  t \in getPawnAttacks(b, p) <=>
           t \in Squares /\ \E s \in b.pieces[p]["Pawn"] :
             \/ File(s) # 0 /\ t = s + (Forward(p) - 1)
             \/ File(s) # 7 /\ t = s + (Forward(p) + 1)
<1> DEFINE pawns == b.pieces[p]["Pawn"]
<1>1. \A s \in pawns : s \in Squares
  BY BoardFields, PieceTypesAre DEF PieceSets
<1>2. /\ \A s \in pawns : s \in pawns \ aFile <=> File(s) # 0
      /\ \A s \in pawns : s \in pawns \ hFile <=> File(s) # 7
  BY <1>1, MasksAre
<1>3. t \in getPawnAttacks(b, p) <=>
        \/ t \in Shift(pawns \ aFile, Forward(p) - 1)
        \/ t \in Shift(pawns \ hFile, Forward(p) + 1)
  BY DEF getPawnAttacks
<1> HIDE DEF pawns
<1>4. /\ t \in Shift(pawns \ aFile, Forward(p) - 1) <=>
           t \in Squares /\ \E s \in pawns \ aFile : t = s + (Forward(p) - 1)
      /\ t \in Shift(pawns \ hFile, Forward(p) + 1) <=>
           t \in Squares /\ \E s \in pawns \ hFile : t = s + (Forward(p) + 1)
  BY Shifted
<1>5. /\ (\E s \in pawns \ aFile : t = s + (Forward(p) - 1)) <=>
           \E s \in pawns : File(s) # 0 /\ t = s + (Forward(p) - 1)
      /\ (\E s \in pawns \ hFile : t = s + (Forward(p) + 1)) <=>
           \E s \in pawns : File(s) # 7 /\ t = s + (Forward(p) + 1)
  BY <1>2
<1> QED
  BY <1>3, <1>4, <1>5 DEF pawns

\* The attacks of a side are the squares its pieces strike.
LEMMA AttacksAreStrikes ==
  ASSUME NEW b \in Boards, IsFresh(b), NEW p \in Players, NEW t
  PROVE  t \in b.attacks[p] <=>
           t \in Squares /\ \E type \in PieceTypes : \E s \in b.pieces[p][type] :
                              Strikes(p, type, both(b), s, t)
<1> DEFINE own == b.pieces[p]
<1>1. b.attacks[p] = getAllAttacks(b, p)
  BY FreshSquares
<1>2. t \in getAllAttacks(b, p) <=>
           \/ t \in getPawnAttacks(b, p)
           \/ \E from \in own["Knight"] : t \in knightsTable[from]
           \/ \E from \in own["Rook"] \cup own["Queen"] : t \in getRookMoves(from, both(b))
           \/ \E from \in own["Bishop"] \cup own["Queen"] : t \in getBishopMoves(from, both(b))
           \/ \E from \in own["King"] : t \in kingsTable[from]
  BY AllAttacksAre
<1>3. t \in getAllAttacks(b, p) => t \in Squares
  BY AttacksStayOn
<1>4. t \in getPawnAttacks(b, p) <=>
        t \in Squares /\ \E s \in own["Pawn"] : Strikes(p, "Pawn", both(b), s, t)
  BY PawnAttacksAre DEF Strikes
<1>5. /\ \A s \in own["Knight"] : t \in knightsTable[s] <=> Strikes(p, "Knight", both(b), s, t)
      /\ \A s \in own["King"] : t \in kingsTable[s] <=> Strikes(p, "King", both(b), s, t)
      /\ \A s \in own["Rook"] : t \in getRookMoves(s, both(b)) <=> Strikes(p, "Rook", both(b), s, t)
      /\ \A s \in own["Bishop"] : t \in getBishopMoves(s, both(b)) <=> Strikes(p, "Bishop", both(b), s, t)
      /\ \A s \in own["Queen"] : t \in getRookMoves(s, both(b)) \/ t \in getBishopMoves(s, both(b))
                                   <=> Strikes(p, "Queen", both(b), s, t)
  BY DEF Strikes
<1> HIDE DEF own
<1> QED
  BY <1>1, <1>2, <1>3, <1>4, <1>5, PieceTypesAre DEF own

LEMMA AttackedIs ==
  ASSUME NEW b \in Boards, IsFresh(b), NEW at, Shows(at, b.pieces),
         NEW p \in Players, NEW t \in Squares
  PROVE  Rules!AttackedBy(at, p, t) <=> t \in b.attacks[p]
<1>1. b.pieces \in PieceSets
  BY BoardFields
<1>2. both(b) = occupationOf(b.pieces, "White") \cup occupationOf(b.pieces, "Black")
  BY DEF IsFresh, both, Players
<1>3. \A type \in PieceTypes : \A s \in b.pieces[p][type] :
        s \in Squares /\ (Rules!AttacksSquare(at, s, t) <=> Strikes(p, type, both(b), s, t))
  <2>1. \A type \in PieceTypes : \A s \in b.pieces[p][type] : s \in Squares
    BY <1>1 DEF PieceSets
  <2> QED
    BY <1>1, <1>2, <2>1, StrikesIs
<1>4. \A s \in Squares : Rules!Owns(at, p, s) <=> \E type \in PieceTypes : s \in b.pieces[p][type]
  BY <1>1, Shown DEF occupationOf
<1>5. Rules!AttackedBy(at, p, t) <=>
        \E s \in Squares : Rules!Owns(at, p, s) /\ Rules!AttacksSquare(at, s, t)
  BY DEF Rules!AttackedBy, Rules!Board64, Squares
<1> QED
  BY <1>3, <1>4, <1>5, AttacksAreStrikes

LEMMA InCheckIs ==
  ASSUME NEW b \in Boards, IsFresh(b), NEW at, Shows(at, b.pieces), NEW p \in Players
  PROVE  Rules!InCheck(at, p) <=> isKingAttacked(b, p)
<1>1. b.pieces \in PieceSets /\ "King" \in PieceTypes
  BY BoardFields, PieceTypesAre
<1>2. Rules!Other(p) = nextPlayer(p) /\ nextPlayer(p) \in Players
  BY DEF Rules!Other, nextPlayer, Players
<1>3. \A s \in Squares : at[s] = <<p, "King">> <=> s \in b.pieces[p]["King"]
  BY <1>1 DEF Shows
<1>4. b.pieces[p]["King"] \subseteq Squares
  BY <1>1 DEF PieceSets
<1>5. \A s \in Squares : Rules!AttackedBy(at, Rules!Other(p), s) <=> s \in b.attacks[nextPlayer(p)]
  BY <1>2, AttackedIs
<1>6. Rules!InCheck(at, p) <=>
        \E s \in Squares : at[s] = <<p, "King">> /\ Rules!AttackedBy(at, Rules!Other(p), s)
  BY DEF Rules!InCheck, Rules!Board64, Squares
<1> QED
  BY <1>3, <1>4, <1>5, <1>6 DEF isKingAttacked

----------------------------------------------------------------------------
(* The board after a move of the rules and after performMove().            *)

\* What is on square q once the piece of p went from s to t.
NowOn(at, p, s, t, piece, taken, q) ==
  IF q = t THEN <<p, piece>>
  ELSE IF q = s \/ q \in taken THEN Rules!Empty
  ELSE at[q]

\* A piece that stood on s stands on t as `piece', and `taken' are taken.
Relocates(b, c, type, s, piece, t, taken) ==
  /\ type \in PieceTypes /\ piece \in PieceTypes
  /\ s \in Own(b)[type] /\ t \in Squares /\ t \notin OwnSquares(b)
  /\ taken \subseteq Squares /\ (t \in TheirSquares(b) => t \in taken)
  /\ \A q \in taken : q \notin OwnSquares(b)
  /\ Transfer(b, c, {<<type, s>>}, {<<piece, t>>}, taken)

LEMMA MovedShows ==
  ASSUME NEW b \in Boards, PiecesStandApart(b), NEW at, Shows(at, b.pieces), NEW c,
         NEW type, NEW s, NEW piece, NEW t, NEW taken, Relocates(b, c, type, s, piece, t, taken),
         NEW after, \A q \in Squares : after[q] = NowOn(at, b.player, s, t, piece, taken, q)
  PROVE  Shows(after, c.pieces)
<1>0. /\ type \in PieceTypes /\ piece \in PieceTypes
      /\ s \in Own(b)[type] /\ t \in Squares /\ t \notin OwnSquares(b)
      /\ taken \subseteq Squares /\ (t \in TheirSquares(b) => t \in taken)
      /\ \A q \in taken : q \notin OwnSquares(b)
      /\ Transfer(b, c, {<<type, s>>}, {<<piece, t>>}, taken)
  BY DEF Relocates
<1> DEFINE p == b.player
           o == nextPlayer(b.player)
<1>1. p \in Players /\ o \in Players /\ p # o /\ \A x \in Players : x = p \/ x = o
  BY BoardFields, PlayersAre
<1>2. \A q \in Squares : /\ q \in OwnSquares(b) <=> \E u \in PieceTypes : q \in Own(b)[u]
                         /\ q \in TheirSquares(b) <=> \E u \in PieceTypes : q \in Theirs(b)[u]
  BY SquaresOf
<1>3. /\ \A u \in PieceTypes, q \in Squares :
           q \in c.pieces[p][u] <=> (q \in Own(b)[u] /\ ~(u = type /\ q = s)) \/ (u = piece /\ q = t)
      /\ \A u \in PieceTypes, q \in Squares :
           q \in c.pieces[o][u] <=> q \in Theirs(b)[u] /\ q \notin taken
  BY <1>0 DEF Transfer
<1>4. \A u \in PieceTypes : s \in Own(b)[u] => u = type
  BY <1>0, <1>1, PieceAtIsOne DEF Own
<1>5. \A u \in PieceTypes : s \notin Theirs(b)[u]
  BY <1>0, <1>1, PieceAtIsOne DEF Own, Theirs
<1>6. \A u \in PieceTypes, q \in Squares : /\ at[q] = <<p, u>> <=> q \in Own(b)[u]
                                           /\ at[q] = <<o, u>> <=> q \in Theirs(b)[u]
  BY <1>1 DEF Shows, Own, Theirs
<1>7. \A q \in Squares : \/ at[q] = Rules!Empty
                         \/ \E x \in Players, u \in PieceTypes : at[q] = <<x, u>>
  BY DEF Shows
<1>8. \A x \in Players, u \in PieceTypes : <<x, u>> # Rules!Empty
  BY DEF Players, Rules!Empty
<1> HIDE DEF p, o
<1> SUFFICES ASSUME NEW q \in Squares
             PROVE  /\ \A x \in Players, u \in PieceTypes : after[q] = <<x, u>> <=> q \in c.pieces[x][u]
                    /\ \/ after[q] = Rules!Empty
                       \/ \E x \in Players, u \in PieceTypes : after[q] = <<x, u>>
  BY DEF Shows
<1>9. CASE q = t
  <2>1. after[q] = <<p, piece>>
    BY <1>9 DEF NowOn, p
  <2>2. \A u \in PieceTypes : q \in c.pieces[p][u] <=> u = piece
    BY <1>0, <1>2, <1>3, <1>9
  <2>3. \A u \in PieceTypes : q \notin c.pieces[o][u]
    BY <1>0, <1>2, <1>3, <1>9
  <2> QED
    BY <1>0, <1>1, <2>1, <2>2, <2>3
<1>10. CASE q # t /\ (q = s \/ q \in taken)
  <2>1. after[q] = Rules!Empty
    BY <1>10 DEF NowOn
  <2>2. \A u \in PieceTypes : q \notin c.pieces[p][u]
    <3>1. CASE q = s
      BY <1>3, <1>4, <1>10, <3>1
    <3>2. CASE q \in taken
      BY <1>0, <1>2, <1>3, <1>10, <3>2
    <3> QED
      BY <1>10, <3>1, <3>2
  <2>3. \A u \in PieceTypes : q \notin c.pieces[o][u]
    BY <1>0, <1>3, <1>5, <1>10
  <2> QED
    BY <1>1, <1>8, <2>1, <2>2, <2>3
<1>11. CASE q # t /\ q # s /\ q \notin taken
  <2>1. after[q] = at[q]
    BY <1>11 DEF NowOn
  <2>2. \A u \in PieceTypes : /\ q \in c.pieces[p][u] <=> at[q] = <<p, u>>
                              /\ q \in c.pieces[o][u] <=> at[q] = <<o, u>>
    BY <1>3, <1>6, <1>11
  <2> QED
    BY <1>1, <1>7, <2>1, <2>2
<1> QED
  BY <1>9, <1>10, <1>11

LEMMA UpIsForward ==
  ASSUME NEW p \in Players
  PROVE  8 * Rules!Up(p) = Forward(p) /\ Rules!Up(p) \in {-1, 1}
BY DEF Players, Rules!Up, Forward

\* Nothing is passed over by a piece, a pawn that goes straight or one that
\* takes what is on its square.
LEMMA NothingPassedOver ==
  ASSUME NEW b \in Boards, EnPassantNeedsItsPawn(b), NEW s \in Squares, NEW t \in Squares,
         t \in TheirSquares(b) \/ File(s) = File(t) \/ Standing(b)[s][2] # "Pawn"
  PROVE  ~Rules!PassedOver(Position(b), s, t)
<1>1. t \in TheirSquares(b) => t # b.enPessant
  BY BoardFields, PlayersAre DEF EnPassantNeedsItsPawn, TheirSquares, Squares, NoPosition
<1>2. Position(b).at = Standing(b) /\ Position(b).ep = b.enPessant
  BY DEF Position
<1> QED
  BY <1>1, <1>2 DEF Rules!PassedOver, Rules!FileOf, File

\* The squares a piece from s takes on its way to t.
TakenIs(b, s, t, taken) ==
  taken = IF Rules!PassedOver(Position(b), s, t)
            THEN {enpessantCapturePosition(b.player, t)} ELSE {t}

LEMMA AfterIs ==
  ASSUME NEW b \in Boards, NEW s \in Squares, NEW t \in Squares, s # t, NEW piece, NEW taken,
         TakenIs(b, s, t, taken)
  PROVE  \A q \in Squares : Rules!After(Position(b), s, t, piece)[q] =
                              NowOn(Standing(b), b.player, s, t, piece, taken, q)
<1> SUFFICES ASSUME NEW q \in Squares
             PROVE  Rules!After(Position(b), s, t, piece)[q] =
                      NowOn(Standing(b), b.player, s, t, piece, taken, q)
  OBVIOUS
<1>1. Position(b).at = Standing(b) /\ Position(b).turn = b.player
  BY DEF Position
<1>2. /\ t - 8 * Rules!Up(b.player) = enpessantCapturePosition(b.player, t)
      /\ t - 8 * Rules!Up(b.player) # t
  BY BoardFields, UpIsForward DEF enpessantCapturePosition, Squares
<1> DEFINE over == Rules!PassedOver(Position(b), s, t)
           behind == t - 8 * Rules!Up(b.player)
           after == Rules!After(Position(b), s, t, piece)
           now == NowOn(Standing(b), b.player, s, t, piece, taken, q)
<1>3. after[q] = CASE q = t -> <<b.player, piece>>
                   [] q = s -> Rules!Empty
                   [] over /\ q = behind -> Rules!Empty
                   [] OTHER -> Standing(b)[q]
  BY <1>1 DEF Rules!After, Rules!Board64, Squares
<1>4. now = IF q = t THEN <<b.player, piece>>
            ELSE IF q = s \/ (over /\ q = behind) THEN Rules!Empty
            ELSE Standing(b)[q]
  <2>1. taken = IF over THEN {behind} ELSE {t}
    BY <1>2 DEF TakenIs
  <2>2. q # t => (q \in taken <=> over /\ q = behind)
    <3> HIDE DEF over, behind
    <3> QED
      BY <2>1
  <2> HIDE DEF over, behind
  <2> QED
    BY <2>2 DEF NowOn
<1>5. behind # t
  BY <1>2
<1>6. after[q] = now
  <2> HIDE DEF after, now, over, behind
  <2>1. CASE q = t
    BY <1>3, <1>4, <1>5, <2>1
  <2>2. CASE q = s
    BY <1>3, <1>4, <2>2
  <2>3. CASE q # t /\ q # s /\ over /\ q = behind
    BY <1>3, <1>4, <2>3
  <2>4. CASE q # t /\ q # s /\ ~(over /\ q = behind)
    BY <1>3, <1>4, <2>4
  <2> QED
    BY <2>1, <2>2, <2>3, <2>4
<1> QED
  BY <1>2, <1>6

\* The king is in check after the one exactly if it is after the other.
ChecksAgree(b, m, piece) ==
  Rules!InCheck(Rules!After(Position(b), m.from, m.to, piece), b.player)
    <=> isKingAttacked(performMove(b, m), b.player)

LEMMA ChecksAfter ==
  ASSUME NEW b \in Boards, IsPosition(b), NEW m, NEW type \in PieceTypes, NEW piece \in PieceTypes,
         m.from \in Own(b)[type], m.to \in Squares, m.to \notin OwnSquares(b),
         NEW taken \in SUBSET Squares, m.to \in TheirSquares(b) => m.to \in taken,
         \A q \in taken : q \notin OwnSquares(b),
         TakenIs(b, m.from, m.to, taken),
         performMove(b, m) \in Boards, IsFresh(performMove(b, m)),
         Transfer(b, performMove(b, m), {<<type, m.from>>}, {<<piece, m.to>>}, taken)
  PROVE  /\ Shows(Rules!After(Position(b), m.from, m.to, piece), performMove(b, m).pieces)
         /\ ChecksAgree(b, m, piece)
<1> DEFINE c == performMove(b, m)
           after == Rules!After(Position(b), m.from, m.to, piece)
<1>1. b.player \in Players /\ PiecesStandApart(b) /\ b.pieces \in PieceSets
  BY BoardFields DEF IsPosition
<1>2. Shows(Standing(b), b.pieces)
  BY <1>1, StandingShows
<1>3. m.from \in Squares
  BY <1>1 DEF Own, PieceSets
<1>4. m.from # m.to
  BY SquaresOf
<1>5. \A q \in Squares :
        after[q] = NowOn(Standing(b), b.player, m.from, m.to, piece, taken, q)
  BY <1>3, <1>4, AfterIs
<1>6. c \in Boards /\ IsFresh(c) /\ Transfer(b, c, {<<type, m.from>>}, {<<piece, m.to>>}, taken)
  OBVIOUS
<1>7. Relocates(b, c, type, m.from, piece, m.to, taken)
  BY <1>6 DEF Relocates
<1> HIDE DEF c, after
<1>10. Shows(after, c.pieces)
  BY <1>1, <1>2, <1>5, <1>7, MovedShows
<1>11. Rules!InCheck(after, b.player) <=> isKingAttacked(c, b.player)
  BY <1>1, <1>6, <1>10, InCheckIs
<1> QED
  BY <1>10, <1>11 DEF ChecksAgree, c, after

LEMMA PlainChecks ==
  ASSUME NEW b \in Boards, IsFresh(b), IsPosition(b), NEW m, NEW type \in PieceTypes,
         PlainMove(b, m, type), ~Rules!PassedOver(Position(b), m.from, m.to)
  PROVE  /\ Shows(Rules!After(Position(b), m.from, m.to, type), performMove(b, m).pieces)
         /\ ChecksAgree(b, m, type)
<1>1. /\ performMove(b, m) \in Boards /\ IsFresh(performMove(b, m))
      /\ Transfer(b, performMove(b, m), {<<type, m.from>>}, {<<type, m.to>>}, {m.to})
  BY PlainMoveMade DEF Finished
<1>2. m.from \in Own(b)[type] /\ m.to \in Squares /\ m.to \notin OwnSquares(b)
  BY DEF PlainMove, ReachesSquare
<1> DEFINE taken == {m.to}
<1>3. taken \in SUBSET Squares /\ (m.to \in TheirSquares(b) => m.to \in taken)
  BY <1>2
<1>4. \A q \in taken : q \notin OwnSquares(b)
  BY <1>2
<1>5. TakenIs(b, m.from, m.to, taken)
  BY DEF TakenIs
<1>6. Transfer(b, performMove(b, m), {<<type, m.from>>}, {<<type, m.to>>}, taken)
  BY <1>1
<1> HIDE DEF taken
<1> QED
  BY <1>1, <1>2, <1>3, <1>4, <1>5, <1>6, ChecksAfter

LEMMA PromotionChecks ==
  ASSUME NEW b \in Boards, IsFresh(b), IsPosition(b), NEW m,
         NEW t \in {"Queen", "Knight", "Bishop", "Rook"}, NEW capture \in BOOLEAN,
         m.from \in Own(b)["Pawn"], m.flag = promotionFlag(t, capture), ReachesSquare(b, m, capture),
         ~Rules!PassedOver(Position(b), m.from, m.to)
  PROVE  /\ Shows(Rules!After(Position(b), m.from, m.to, t), performMove(b, m).pieces)
         /\ ChecksAgree(b, m, t)
<1>1. /\ performMove(b, m) \in Boards /\ IsFresh(performMove(b, m))
      /\ Transfer(b, performMove(b, m), {<<"Pawn", m.from>>}, {<<t, m.to>>}, {m.to})
  BY PromotionMoveMade DEF Finished
<1>2. "Pawn" \in PieceTypes /\ t \in PieceTypes
  BY PieceTypesAre
<1>3. m.to \in Squares /\ m.to \notin OwnSquares(b)
  BY DEF ReachesSquare
<1> DEFINE taken == {m.to}
<1>4. taken \in SUBSET Squares /\ (m.to \in TheirSquares(b) => m.to \in taken)
  BY <1>3
<1>5. \A q \in taken : q \notin OwnSquares(b)
  BY <1>3
<1>6. TakenIs(b, m.from, m.to, taken)
  BY DEF TakenIs
<1>7. Transfer(b, performMove(b, m), {<<"Pawn", m.from>>}, {<<t, m.to>>}, taken)
  BY <1>1
<1> HIDE DEF taken
<1> QED
  BY <1>1, <1>2, <1>3, <1>4, <1>5, <1>6, <1>7, ChecksAfter

LEMMA EnPassantChecks ==
  ASSUME NEW b \in Boards, IsFresh(b), IsPosition(b), NEW m, EnPassantMove(b, m),
         File(m.from) # File(m.to)
  PROVE  /\ Shows(Rules!After(Position(b), m.from, m.to, "Pawn"), performMove(b, m).pieces)
         /\ ChecksAgree(b, m, "Pawn")
<1> DEFINE taken == {enpessantCapturePosition(b.player, m.to)}
<1>1. /\ performMove(b, m) \in Boards /\ IsFresh(performMove(b, m))
      /\ Transfer(b, performMove(b, m), {<<"Pawn", m.from>>}, {<<"Pawn", m.to>>}, taken)
  BY EnPassantMoveMade DEF Finished
<1>2. /\ b.player \in Players /\ PiecesStandApart(b) /\ "Pawn" \in PieceTypes
      /\ b.pieces \in PieceSets /\ nextPlayer(b.player) \in Players
  BY BoardFields, PieceTypesAre, PlayersAre DEF IsPosition
<1>3. /\ m.from \in Own(b)["Pawn"] /\ m.to = b.enPessant /\ m.to \in Squares
      /\ m.to \notin OwnSquares(b) /\ m.to \notin TheirSquares(b)
  BY BoardFields DEF EnPassantMove
<1>4. \A q \in taken : q \in Theirs(b)["Pawn"]
  BY <1>3 DEF IsPosition, EnPassantNeedsItsPawn, EnPassantMove, Theirs
<1>5. taken \in SUBSET Squares
  BY <1>2, <1>4 DEF Theirs, PieceSets
<1>6. \A q \in taken : q \notin OwnSquares(b)
  BY <1>2, <1>4, SidesStandApart, SquaresOf
<1>7. m.from \in Squares /\ Standing(b)[m.from][2] = "Pawn"
  <2>1. m.from \in Squares
    BY <1>2, <1>3 DEF Own, PieceSets
  <2> QED
    BY <1>2, <1>3, <2>1, Shown, StandingShows DEF Own
<1>8. Rules!PassedOver(Position(b), m.from, m.to)
  BY <1>3, <1>7 DEF Rules!PassedOver, Position, Rules!FileOf, File
<1>9. TakenIs(b, m.from, m.to, taken)
  BY <1>8 DEF TakenIs
<1> HIDE DEF taken
<1> QED
  BY <1>1, <1>2, <1>3, <1>5, <1>6, <1>9, ChecksAfter

----------------------------------------------------------------------------
(* The flags of the moves, and the noisy moves among the pseudo-legal.     *)

LEMMA FlagsAre ==
  ASSUME NEW from, NEW to
  PROVE  /\ \A flag \in {Flag.Quiet, Flag.DoublePush, Flag.KingCastle, Flag.QueenCastle} :
              ~isCapture(Move(from, to, flag)) /\ ~isPromotionMove(Move(from, to, flag))
         /\ \A flag \in {Flag.Capture, Flag.EnPassant} :
              isCapture(Move(from, to, flag)) /\ ~isPromotionMove(Move(from, to, flag))
         /\ \A t \in Promoted, c \in BOOLEAN :
              /\ isPromotionMove(Move(from, to, promotionFlag(t, c)))
              /\ isCapture(Move(from, to, promotionFlag(t, c))) <=> c
<1>1. /\ \A flag \in {Flag.Quiet, Flag.DoublePush, Flag.KingCastle, Flag.QueenCastle} :
           ~isCapture(Move(from, to, flag)) /\ ~isPromotionMove(Move(from, to, flag))
      /\ \A flag \in {Flag.Capture, Flag.EnPassant} :
           isCapture(Move(from, to, flag)) /\ ~isPromotionMove(Move(from, to, flag))
  BY DEF Flag, isCapture, isPromotionMove, Move
<1>2. \A t \in Promoted, c \in BOOLEAN :
        /\ isPromotionMove(Move(from, to, promotionFlag(t, c)))
        /\ isCapture(Move(from, to, promotionFlag(t, c))) <=> c
  BY PromotionFlags DEF Promoted, isCapture, isPromotionMove, Move
<1> QED
  BY <1>1, <1>2

\* What the type of generator asks of a move.
Asked(type, m) ==
  \/ type = "PseudoLegal"
  \/ type = "Noisy" /\ isNoisyMove(m)
  \/ type = "Capture" /\ isCapture(m)

LEMMA PieceGoesAsked ==
  ASSUME NEW b \in Boards, IsFresh(b), PiecesStandApart(b),
         NEW type \in {"PseudoLegal", "Noisy", "Capture"}, NEW t, NEW from, NEW to, NEW m
  PROVE  PieceGoes(type, b, t, from, to, m) <=>
           PieceGoes("PseudoLegal", b, t, from, to, m) /\ Asked(type, m)
<1> DEFINE own == b.occupation[b.player]
           their == b.occupation[nextPlayer(b.player)]
<1>1. to \in their => to \notin own
  BY FreshSquares, SidesStandApart
<1>2. m = Going(b, from, to) => /\ isCapture(m) <=> to \in their
                                /\ isNoisyMove(m) <=> to \in their
  BY FlagsAre DEF Going, create, isNoisyMove
<1>3. MayGo(type, b, to) <=> IF type = "PseudoLegal" THEN to \notin own ELSE to \in their
  BY DEF MayGo
<1>4. MayGo("PseudoLegal", b, to) <=> to \notin own
  BY DEF MayGo
<1> HIDE DEF own, their
<1>5. m = Going(b, from, to) => (MayGo(type, b, to) <=> MayGo("PseudoLegal", b, to) /\ Asked(type, m))
  BY <1>1, <1>2, <1>3, <1>4 DEF Asked
<1> QED
  BY <1>5 DEF PieceGoes

LEMMA PawnGoesAsked ==
  ASSUME NEW type \in {"PseudoLegal", "Noisy", "Capture"}, NEW b, NEW from, NEW to, NEW m
  PROVE  PawnGoes(type, b, from, to, m) <=> PawnGoes("PseudoLegal", b, from, to, m) /\ Asked(type, m)
<1> DEFINE last == relativeRow(b.player, from) = 6
           takes == TakesOn(b, from, to) /\ to \in b.occupation[nextPlayer(b.player)]
           steps == StepsTo(b, from, to)
           twice == StepsTwiceTo(b, from, to)
           all == type = "PseudoLegal"
           quiet == m = Move(from, to, Flag.Quiet)
           double == m = Move(from, to, Flag.DoublePush)
           capture == m = Move(from, to, Flag.Capture)
           becomes == \E t \in Promoted : m = Move(from, to, promotionFlag(t, FALSE))
           both_ == \E t \in Promoted : m = Move(from, to, promotionFlag(t, TRUE))
<1>1. /\ quiet \/ double => ~isCapture(m) /\ ~isPromotionMove(m)
      /\ capture => isCapture(m) /\ ~isPromotionMove(m)
      /\ becomes => ~isCapture(m) /\ isPromotionMove(m)
      /\ both_ => isCapture(m) /\ isPromotionMove(m)
  BY FlagsAre
<1>2. PawnGoes(type, b, from, to, m) <=>
        \/ all /\ ~last /\ steps /\ quiet
        \/ all /\ twice /\ double
        \/ ~last /\ takes /\ capture
        \/ type \in {"PseudoLegal", "Noisy"} /\ last /\ steps /\ becomes
        \/ last /\ takes /\ both_
  BY DEF PawnGoes
<1>3. PawnGoes("PseudoLegal", b, from, to, m) <=>
        \/ ~last /\ steps /\ quiet
        \/ twice /\ double
        \/ ~last /\ takes /\ capture
        \/ last /\ steps /\ becomes
        \/ last /\ takes /\ both_
  BY DEF PawnGoes
<1>4. /\ type = "PseudoLegal" => Asked(type, m)
      /\ type = "Noisy" => (Asked(type, m) <=> isCapture(m) \/ isPromotionMove(m))
      /\ type = "Capture" => (Asked(type, m) <=> isCapture(m))
  BY DEF Asked, isNoisyMove
<1> HIDE DEF last, takes, steps, twice, quiet, double, capture, becomes, both_
<1> QED
  BY <1>1, <1>2, <1>3, <1>4

\* Whatever is generated for a type of generator is what that type asks of the
\* pseudo-legal moves.
LEMMA GeneratedAsAsked ==
  ASSUME NEW b \in Boards, IsFresh(b), PiecesStandApart(b),
         NEW type \in {"PseudoLegal", "Noisy", "Capture"}, NEW m
  PROVE  m \in getAllMoves(type, b) <=> m \in getAllMoves("PseudoLegal", b) /\ Asked(type, m)
<1> DEFINE own == b.pieces[b.player]
           piece(ty) == \E t \in PieceTypes, from, to \in Squares :
                          from \in own[t] /\ PieceGoes(ty, b, t, from, to, m)
           pawn(ty) == \E from \in own["Pawn"], to \in Squares : PawnGoes(ty, b, from, to, m)
           passant == \E from \in own["Pawn"], to \in Squares : EnPassantGoes(b, from, to, m)
           castle == \E side \in {"KingSide", "QueenSide"} : CastleGoes(b, side, m)
<1>1. piece(type) <=> piece("PseudoLegal") /\ Asked(type, m)
  BY PieceGoesAsked
<1>2. pawn(type) <=> pawn("PseudoLegal") /\ Asked(type, m)
  BY PawnGoesAsked
<1>3. passant => Asked(type, m)
  BY FlagsAre DEF EnPassantGoes, Asked, isNoisyMove
<1>4. castle => ~isCapture(m) /\ ~isPromotionMove(m)
  BY FlagsAre DEF CastleGoes
<1>5. castle => (Asked(type, m) <=> type = "PseudoLegal")
  BY <1>4 DEF Asked, isNoisyMove
<1>6. \A ty : m \in getAllMoves(ty, b) <=>
        piece(ty) \/ pawn(ty) \/ passant \/ (ty = "PseudoLegal" /\ castle)
  BY AllMovesAre DEF Generated
<1>7. m \in getAllMoves(type, b) <=>
        piece(type) \/ pawn(type) \/ passant \/ (type = "PseudoLegal" /\ castle)
  BY <1>6
<1>8. m \in getAllMoves("PseudoLegal", b) <=>
        piece("PseudoLegal") \/ pawn("PseudoLegal") \/ passant \/ castle
  BY <1>6
<1> HIDE DEF piece, pawn, passant, castle
<1> QED
  BY <1>1, <1>2, <1>3, <1>5, <1>7, <1>8

LEMMA NoisyMovesAre ==
  ASSUME NEW b \in Boards, IsFresh(b), PiecesStandApart(b)
  PROVE  /\ getAllMoves("Noisy", b) = {m \in getAllMoves("PseudoLegal", b) : isNoisyMove(m)}
         /\ getAllMoves("Capture", b) = {m \in getAllMoves("PseudoLegal", b) : isCapture(m)}
<1>1. \A m : m \in getAllMoves("Noisy", b) <=>
               m \in getAllMoves("PseudoLegal", b) /\ isNoisyMove(m)
  BY GeneratedAsAsked DEF Asked
<1>2. \A m : m \in getAllMoves("Capture", b) <=>
               m \in getAllMoves("PseudoLegal", b) /\ isCapture(m)
  BY GeneratedAsAsked DEF Asked
<1> HIDE DEF getAllMoves
<1> QED
  BY <1>1, <1>2

----------------------------------------------------------------------------
(* The moves of the pawns are those of the rules.                          *)

LEMMA UpTheBoard ==
  ASSUME NEW p \in Players, NEW s \in Squares, NEW t \in Squares
  PROVE  /\ t = s + Forward(p) <=>
              Rules!FileOf(t) = Rules!FileOf(s) /\ Rules!Rank(t) = Rules!Rank(s) + Rules!Up(p)
         /\ t = s + 2 * Forward(p) <=>
              Rules!FileOf(t) = Rules!FileOf(s) /\ Rules!Rank(t) = Rules!Rank(s) + 2 * Rules!Up(p)
         /\ relativeRow(p, s) = 1 <=> Rules!Rank(s) = IF p = "White" THEN 1 ELSE 6
BY DEF Players, Rules!Up, Rules!Rank, Rules!FileOf, Row, Forward, relativeRow, Squares

\* What the rules see on a square of a position.
LEMMA EmptyIs ==
  ASSUME NEW b \in Boards, IsFresh(b), PiecesStandApart(b), NEW q \in Squares
  PROVE  /\ Standing(b)[q] = Rules!Empty <=> q \notin both(b)
         /\ Rules!Owns(Standing(b), b.player, q) <=> q \in OwnSquares(b)
         /\ Rules!Owns(Standing(b), Rules!Other(b.player), q) <=> q \in TheirSquares(b)
<1>1. b.pieces \in PieceSets /\ b.player \in Players /\ nextPlayer(b.player) \in Players
  BY BoardFields, PlayersAre
<1>2. Shows(Standing(b), b.pieces)
  BY StandingShows
<1>3. Rules!Other(b.player) = nextPlayer(b.player)
  BY DEF Rules!Other, nextPlayer
<1>4. both(b) = OwnSquares(b) \cup TheirSquares(b)
  BY FreshSquares
<1>5. \A p \in Players : p = b.player \/ p = nextPlayer(b.player)
  BY <1>1, PlayersAre
<1>6. Standing(b)[q] = Rules!Empty <=> \A p \in Players : q \notin occupationOf(b.pieces, p)
  BY <1>1, <1>2, Shown
<1>7. \A p \in Players : Rules!Owns(Standing(b), p, q) <=> q \in occupationOf(b.pieces, p)
  BY <1>1, <1>2, Shown
<1>8. Standing(b)[q] = Rules!Empty <=> q \notin OwnSquares(b) /\ q \notin TheirSquares(b)
  BY <1>1, <1>5, <1>6 DEF OwnSquares, TheirSquares
<1> QED
  BY <1>1, <1>3, <1>4, <1>7, <1>8 DEF OwnSquares, TheirSquares

LEMMA PawnsAdvance ==
  ASSUME NEW b \in Boards, IsFresh(b), IsPosition(b), NEW s \in Own(b)["Pawn"], NEW t \in Squares
  PROVE  Rules!PawnAdvances(Position(b), s, t) <=> StepsTo(b, s, t) \/ StepsTwiceTo(b, s, t)
<1> DEFINE p == b.player
           at == Standing(b)
<1>1. /\ p \in Players /\ s \in Squares /\ relativeRow(p, s) \in 1..6 /\ s + Forward(p) \in Squares
  BY BoardFields, PawnSteps, StepsAhead DEF IsPosition
<1>2. Position(b).at = at /\ Position(b).turn = p
  BY DEF Position
<1>3. \A q \in Squares : at[q] = Rules!Empty <=> q \notin both(b)
  BY EmptyIs DEF IsPosition
<1>4. s + 8 * Rules!Up(p) = s + Forward(p)
  BY <1>1, UpIsForward
<1>5. Rules!PawnAdvances(Position(b), s, t) <=>
        /\ Rules!FileOf(t) = Rules!FileOf(s)
        /\ at[t] = Rules!Empty
        /\ \/ Rules!Rank(t) = Rules!Rank(s) + Rules!Up(p)
           \/ /\ Rules!Rank(s) = (IF p = "White" THEN 1 ELSE 6)
              /\ Rules!Rank(t) = Rules!Rank(s) + 2 * Rules!Up(p)
              /\ at[s + 8 * Rules!Up(p)] = Rules!Empty
  BY <1>2 DEF Rules!PawnAdvances
<1>6. /\ t = s + Forward(p) <=>
           Rules!FileOf(t) = Rules!FileOf(s) /\ Rules!Rank(t) = Rules!Rank(s) + Rules!Up(p)
      /\ t = s + 2 * Forward(p) <=>
           Rules!FileOf(t) = Rules!FileOf(s) /\ Rules!Rank(t) = Rules!Rank(s) + 2 * Rules!Up(p)
      /\ relativeRow(p, s) = 1 <=> Rules!Rank(s) = IF p = "White" THEN 1 ELSE 6
  BY <1>1, UpTheBoard
<1>7. at[s + 8 * Rules!Up(p)] = Rules!Empty <=> s + Forward(p) \notin both(b)
  BY <1>1, <1>3, <1>4
<1>8. /\ StepsTo(b, s, t) <=> t = s + Forward(p) /\ t \notin both(b)
      /\ StepsTwiceTo(b, s, t) <=> /\ relativeRow(p, s) = 1 /\ t = s + 2 * Forward(p)
                                   /\ t \notin both(b) /\ s + Forward(p) \notin both(b)
  BY DEF StepsTo, StepsTwiceTo
<1> HIDE DEF p, at
<1> QED
  BY <1>3, <1>5, <1>6, <1>7, <1>8

LEMMA PawnsCapture ==
  ASSUME NEW b \in Boards, IsFresh(b), IsPosition(b), NEW s \in Own(b)["Pawn"], NEW t \in Squares
  PROVE  Rules!PawnCaptures(Position(b), s, t) <=>
           TakesOn(b, s, t) /\ (t \in TheirSquares(b) \/ t = b.enPessant)
<1>1. /\ b.player \in Players /\ b.pieces \in PieceSets /\ "Pawn" \in PieceTypes /\ s \in Squares
      /\ PiecesStandApart(b) /\ s \in b.pieces[b.player]["Pawn"]
  BY BoardFields, PieceTypesAre DEF IsPosition, Own, PieceSets
<1>2. Shows(Standing(b), b.pieces)
  BY <1>1, StandingShows
<1>3. Rules!AttacksSquare(Standing(b), s, t) <=>
        Strikes(b.player, "Pawn", occupationOf(b.pieces, "White") \cup occupationOf(b.pieces, "Black"), s, t)
  BY <1>1, <1>2, StrikesIs
<1>4. \A occ : Strikes(b.player, "Pawn", occ, s, t) <=> TakesOn(b, s, t)
  BY DEF Strikes, TakesOn
<1>5. Rules!Owns(Standing(b), Rules!Other(b.player), t) <=> t \in TheirSquares(b)
  BY <1>1, EmptyIs
<1>6. /\ Position(b).at = Standing(b) /\ Position(b).turn = b.player
      /\ Position(b).ep = b.enPessant
  BY DEF Position
<1> QED
  BY <1>3, <1>4, <1>5, <1>6 DEF Rules!PawnCaptures

\* How the ways of a pawn tell apart, and where the last row is reached.
LEMMA PawnWays ==
  ASSUME NEW b \in Boards, IsFresh(b), IsPosition(b), NEW s \in Own(b)["Pawn"], NEW t \in Squares
  PROVE  /\ StepsTo(b, s, t) \/ StepsTwiceTo(b, s, t) =>
              /\ File(s) = File(t) /\ t \notin OwnSquares(b) /\ t \notin TheirSquares(b)
         /\ TakesOn(b, s, t) => File(s) # File(t)
         /\ StepsTo(b, s, t) \/ TakesOn(b, s, t) =>
              (Row(t) \in {0, 7} <=> relativeRow(b.player, s) = 6)
         /\ StepsTwiceTo(b, s, t) => Row(t) \notin {0, 7} /\ relativeRow(b.player, s) # 6
         /\ b.enPessant = t => /\ Row(t) \notin {0, 7}
                               /\ t \notin OwnSquares(b) /\ t \notin TheirSquares(b)
<1>1. /\ b.player \in Players /\ s \in Squares /\ relativeRow(b.player, s) \in 1..6
      /\ \A to \in Squares : StepsTo(b, s, to) \/ TakesOn(b, s, to) =>
           relativeRow(b.player, to) = relativeRow(b.player, s) + 1
      /\ \A to \in Squares : StepsTwiceTo(b, s, to) => relativeRow(b.player, to) = 3
  BY BoardFields, PawnSteps DEF IsPosition
<1>2. both(b) = OwnSquares(b) \cup TheirSquares(b)
  BY FreshSquares
<1>3. Row(t) \in {0, 7} <=> relativeRow(b.player, t) \in {0, 7}
  BY <1>1, RelativeRows
<1>4. relativeRow(b.player, t) \in 0..7
  BY <1>1, RelativeRows
<1>5. StepsTo(b, s, t) \/ StepsTwiceTo(b, s, t) =>
        File(s) = File(t) /\ t \notin OwnSquares(b) /\ t \notin TheirSquares(b)
  <2>1. StepsTo(b, s, t) \/ StepsTwiceTo(b, s, t) => t \notin both(b)
    BY DEF StepsTo, StepsTwiceTo
  <2>2. t = s + Forward(b.player) \/ t = s + 2 * Forward(b.player) => File(s) = File(t)
    BY <1>1 DEF Players, Forward, File, Squares
  <2> QED
    BY <1>2, <2>1, <2>2 DEF StepsTo, StepsTwiceTo
<1>6. TakesOn(b, s, t) => File(s) # File(t)
  BY <1>1 DEF TakesOn, Players, Forward, File, Squares
<1>7. StepsTo(b, s, t) \/ TakesOn(b, s, t) =>
        (Row(t) \in {0, 7} <=> relativeRow(b.player, s) = 6)
  BY <1>1, <1>3
<1>8. StepsTwiceTo(b, s, t) => Row(t) \notin {0, 7} /\ relativeRow(b.player, s) # 6
  BY <1>1, <1>3 DEF StepsTwiceTo
<1>9. b.enPessant = t => Row(t) \notin {0, 7} /\ t \notin OwnSquares(b) /\ t \notin TheirSquares(b)
  <2>1. t # NoPosition
    BY DEF Squares, NoPosition
  <2>2. b.enPessant = t => /\ relativeRow(b.player, t) = 5
                           /\ \A p \in Players : t \notin occupationOf(b.pieces, p)
    BY <2>1 DEF IsPosition, EnPassantNeedsItsPawn
  <2> QED
    BY <1>1, <1>3, <2>2, PlayersAre DEF OwnSquares, TheirSquares
<1> QED
  BY <1>5, <1>6, <1>7, <1>8, <1>9

----------------------------------------------------------------------------
(* Where a move of the code leads: the triple the rules have for it.       *)

BecomesOf(b, m) ==
  IF isPromotionMove(m) THEN promotionType(m) ELSE getAttackerAtSquare(b, b.player, m.from)
LeadsTo(b, m, s, t, u) == m.from = s /\ m.to = t /\ BecomesOf(b, m) = u

LEMMA MoveFields ==
  ASSUME NEW from, NEW to, NEW flag
  PROVE  /\ Move(from, to, flag).from = from /\ Move(from, to, flag).to = to
         /\ Move(from, to, flag).flag = flag
BY DEF Move

LEMMA PromotionTypeIs ==
  ASSUME NEW from, NEW to, NEW u \in Promoted, NEW c \in BOOLEAN
  PROVE  promotionType(Move(from, to, promotionFlag(u, c))) = u
<1> DEFINE m == Move(from, to, promotionFlag(u, c))
<1>1. isPromotionMove(m) /\ (isCapture(m) <=> c)
  BY FlagsAre
<1>2. m.flag = promotionFlag(u, c)
  BY MoveFields
<1>3. isCapture(m) \in BOOLEAN
  BY DEF isCapture
<1>4. isCapture(m) = c
  BY <1>1, <1>3
<1>5. \A t \in Promoted : promotionFlag(t, c) = promotionFlag(u, c) => t = u
  BY PromotionFlags DEF Promoted
<1> HIDE DEF m
<1>6. promotionType(m) = CHOOSE t \in Promoted : promotionFlag(u, c) = promotionFlag(t, c)
  BY <1>1, <1>2, <1>4 DEF promotionType, Promoted
<1>7. (CHOOSE t \in Promoted : promotionFlag(u, c) = promotionFlag(t, c)) = u
  BY <1>5
<1> QED
  BY <1>6, <1>7 DEF m

LEMMA PieceLeadsTo ==
  ASSUME NEW b \in Boards, PiecesStandApart(b), NEW type \in PieceTypes, NEW s \in Own(b)[type],
         NEW t, NEW u, NEW flag, ~isPromotionMove(Move(s, t, flag))
  PROVE  LeadsTo(b, Move(s, t, flag), s, t, u) <=> u = type
<1>1. b.player \in Players
  BY BoardFields
<1>2. getAttackerAtSquare(b, b.player, s) = type
  BY <1>1, PieceAtIsOne DEF getAttackerAtSquare, Own
<1> QED
  BY <1>2, MoveFields DEF LeadsTo, BecomesOf

LEMMA PromotionLeadsTo ==
  ASSUME NEW b, NEW s, NEW t, NEW u, NEW v \in Promoted, NEW c \in BOOLEAN
  PROVE  LeadsTo(b, Move(s, t, promotionFlag(v, c)), s, t, u) <=> u = v
<1>1. isPromotionMove(Move(s, t, promotionFlag(v, c)))
  BY FlagsAre
<1> QED
  BY <1>1, PromotionTypeIs, MoveFields DEF LeadsTo, BecomesOf

\* A move of a pawn.
PawnStep(b, s, t, m) ==
  PawnGoes("PseudoLegal", b, s, t, m) \/ EnPassantGoes(b, s, t, m)

LEMMA PawnsLeadTo ==
  ASSUME NEW b \in Boards, IsFresh(b), IsPosition(b), NEW s \in Own(b)["Pawn"], NEW t \in Squares, NEW u
  PROVE  (\E m : PawnStep(b, s, t, m) /\ LeadsTo(b, m, s, t, u)) <=>
           \/ /\ u = "Pawn"
              /\ \/ /\ relativeRow(b.player, s) # 6
                    /\ StepsTo(b, s, t) \/ (TakesOn(b, s, t) /\ t \in TheirSquares(b))
                 \/ StepsTwiceTo(b, s, t)
                 \/ TakesOn(b, s, t) /\ t = b.enPessant /\ t \notin both(b)
           \/ /\ u \in Promoted /\ relativeRow(b.player, s) = 6
              /\ StepsTo(b, s, t) \/ (TakesOn(b, s, t) /\ t \in TheirSquares(b))
<1> DEFINE last == relativeRow(b.player, s) = 6
           steps == StepsTo(b, s, t)
           twice == StepsTwiceTo(b, s, t)
           takes == TakesOn(b, s, t) /\ t \in TheirSquares(b)
           passes == TakesOn(b, s, t) /\ t = b.enPessant /\ t \notin both(b)
           Leads(flag) == LeadsTo(b, Move(s, t, flag), s, t, u)
<1>1. PiecesStandApart(b) /\ "Pawn" \in PieceTypes
  BY PieceTypesAre DEF IsPosition
<1>2. \A flag \in {Flag.Quiet, Flag.DoublePush, Flag.Capture, Flag.EnPassant} :
        Leads(flag) <=> u = "Pawn"
  BY <1>1, FlagsAre, PieceLeadsTo
<1>3. \A v \in Promoted, c \in BOOLEAN : Leads(promotionFlag(v, c)) <=> u = v
  BY PromotionLeadsTo
<1>4. b.occupation[nextPlayer(b.player)] = TheirSquares(b)
  BY FreshSquares
<1>5. \A m : PawnStep(b, s, t, m) <=>
        \/ ~last /\ steps /\ m = Move(s, t, Flag.Quiet)
        \/ twice /\ m = Move(s, t, Flag.DoublePush)
        \/ ~last /\ takes /\ m = Move(s, t, Flag.Capture)
        \/ last /\ steps /\ \E v \in Promoted : m = Move(s, t, promotionFlag(v, FALSE))
        \/ last /\ takes /\ \E v \in Promoted : m = Move(s, t, promotionFlag(v, TRUE))
        \/ passes /\ m = Move(s, t, Flag.EnPassant)
  BY <1>4 DEF PawnStep, PawnGoes, EnPassantGoes
<1> HIDE DEF last, steps, twice, takes, passes
<1>6. (\E m : PawnStep(b, s, t, m) /\ LeadsTo(b, m, s, t, u)) <=>
        \/ ~last /\ steps /\ Leads(Flag.Quiet)
        \/ twice /\ Leads(Flag.DoublePush)
        \/ ~last /\ takes /\ Leads(Flag.Capture)
        \/ last /\ steps /\ \E v \in Promoted : Leads(promotionFlag(v, FALSE))
        \/ last /\ takes /\ \E v \in Promoted : Leads(promotionFlag(v, TRUE))
        \/ passes /\ Leads(Flag.EnPassant)
  <2> DEFINE Leading(m) == LeadsTo(b, m, s, t, u)
             Stepping(m) == PawnStep(b, s, t, m)
  <2>1. \A flag : Leads(flag) <=> Leading(Move(s, t, flag))
    OBVIOUS
  <2>2. \A m : Stepping(m) <=>
        \/ ~last /\ steps /\ m = Move(s, t, Flag.Quiet)
        \/ twice /\ m = Move(s, t, Flag.DoublePush)
        \/ ~last /\ takes /\ m = Move(s, t, Flag.Capture)
        \/ last /\ steps /\ \E v \in Promoted : m = Move(s, t, promotionFlag(v, FALSE))
        \/ last /\ takes /\ \E v \in Promoted : m = Move(s, t, promotionFlag(v, TRUE))
        \/ passes /\ m = Move(s, t, Flag.EnPassant)
    BY <1>5
  <2> HIDE DEF Leads, Leading, Stepping
  <2>3. ASSUME NEW m, Stepping(m), Leading(m)
        PROVE  \/ ~last /\ steps /\ Leads(Flag.Quiet)
               \/ twice /\ Leads(Flag.DoublePush)
               \/ ~last /\ takes /\ Leads(Flag.Capture)
               \/ last /\ steps /\ \E v \in Promoted : Leads(promotionFlag(v, FALSE))
               \/ last /\ takes /\ \E v \in Promoted : Leads(promotionFlag(v, TRUE))
               \/ passes /\ Leads(Flag.EnPassant)
    BY <2>1, <2>2, <2>3, Zenon
  <2>4. /\ ~last /\ steps => Stepping(Move(s, t, Flag.Quiet))
        /\ twice => Stepping(Move(s, t, Flag.DoublePush))
        /\ ~last /\ takes => Stepping(Move(s, t, Flag.Capture))
        /\ last /\ steps => \A v \in Promoted : Stepping(Move(s, t, promotionFlag(v, FALSE)))
        /\ last /\ takes => \A v \in Promoted : Stepping(Move(s, t, promotionFlag(v, TRUE)))
        /\ passes => Stepping(Move(s, t, Flag.EnPassant))
    BY <2>2, Zenon
  <2>5. (\E m : Stepping(m) /\ Leading(m)) <=>
        \/ ~last /\ steps /\ Leads(Flag.Quiet)
        \/ twice /\ Leads(Flag.DoublePush)
        \/ ~last /\ takes /\ Leads(Flag.Capture)
        \/ last /\ steps /\ \E v \in Promoted : Leads(promotionFlag(v, FALSE))
        \/ last /\ takes /\ \E v \in Promoted : Leads(promotionFlag(v, TRUE))
        \/ passes /\ Leads(Flag.EnPassant)
    BY <2>1, <2>3, <2>4, Zenon
  <2> QED
    BY <2>5 DEF Stepping, Leading
<1> HIDE DEF Leads
<1>7. (\E m : PawnStep(b, s, t, m) /\ LeadsTo(b, m, s, t, u)) <=>
        \/ u = "Pawn" /\ ((~last /\ (steps \/ takes)) \/ twice \/ passes)
        \/ u \in Promoted /\ last /\ (steps \/ takes)
  BY <1>2, <1>3, <1>6
<1> QED
  BY <1>7 DEF last, steps, twice, takes, passes

LEMMA PawnsFollow ==
  ASSUME NEW b \in Boards, IsFresh(b), IsPosition(b), NEW s \in Own(b)["Pawn"], NEW t \in Squares, NEW u
  PROVE  Rules!Reaches(Position(b), s, t) /\ u \in Rules!Becomes(Position(b), s, t) <=>
           \E m : PawnStep(b, s, t, m) /\ LeadsTo(b, m, s, t, u)
<1> DEFINE last == relativeRow(b.player, s) = 6
           final == Row(t) \in {0, 7}
           steps == StepsTo(b, s, t)
           twice == StepsTwiceTo(b, s, t)
           takes == TakesOn(b, s, t)
           their == t \in TheirSquares(b)
           passes == t = b.enPessant
           free == t \notin both(b)
<1>1. Position(b).at[s][2] = "Pawn"
  <2>1. b.player \in Players /\ b.pieces \in PieceSets /\ "Pawn" \in PieceTypes /\ PiecesStandApart(b)
    BY BoardFields, PieceTypesAre DEF IsPosition
  <2>2. s \in Squares /\ s \in b.pieces[b.player]["Pawn"]
    BY <2>1 DEF Own, PieceSets
  <2> QED
    BY <2>1, <2>2, Shown, StandingShows DEF Position
<1>2. /\ steps \/ takes => (final <=> last)
      /\ twice => ~final /\ ~last
      /\ passes => ~final /\ free /\ ~their
  BY PawnWays, FreshSquares
<1>3. Rules!Reaches(Position(b), s, t) <=> steps \/ twice \/ (takes /\ (their \/ passes))
  BY <1>1, PawnsAdvance, PawnsCapture DEF Rules!Reaches
<1>4. u \in Rules!Becomes(Position(b), s, t) <=> IF final THEN u \in Promoted ELSE u = "Pawn"
  BY <1>1 DEF Rules!Becomes, Promoted, Rules!Rank, Row
<1>5. (\E m : PawnStep(b, s, t, m) /\ LeadsTo(b, m, s, t, u)) <=>
        \/ u = "Pawn" /\ ((~last /\ (steps \/ (takes /\ their))) \/ twice \/ (takes /\ passes /\ free))
        \/ u \in Promoted /\ last /\ (steps \/ (takes /\ their))
  BY PawnsLeadTo
<1> HIDE DEF last, final, steps, twice, takes, their, passes, free
<1> QED
  BY <1>2, <1>3, <1>4, <1>5

----------------------------------------------------------------------------
(* Lines and attacks that two boards have in common.                       *)

\* The k-th square on the way from r to t in direction d.
IsOnTheWay(d, r, t, k) ==
  LET q == r + k * (8 * d[1] + d[2])
  IN q \in Squares /\ q # t /\ Row(q) = Row(r) + k * d[1] /\ File(q) = File(r) + k * d[2]

LEMMA OnTheWay ==
  ASSUME NEW d \in Directions, NEW r \in Squares, NEW t \in Squares, NEW n \in 1..7,
         Row(t) = Row(r) + n * d[1], File(t) = File(r) + n * d[2], NEW k \in 1..(n - 1)
  PROVE  IsOnTheWay(d, r, t, k)
<1> DEFINE q == r + k * (8 * d[1] + d[2])
<1>1. OnRay(d, r, n)
  BY SquaresAre DEF OnRay
<1>2. k \in 1..7 /\ k \in 1..n
  OBVIOUS
<1>3. OnRay(d, r, k)
  BY <1>1, <1>2, RaySquareIs
<1>4. q \in Squares /\ Row(q) = Row(r) + k * d[1] /\ File(q) = File(r) + k * d[2]
  BY <1>2, <1>3, RaySquareIs
<1>5. Row(r) \in Int /\ File(r) \in Int
  BY SquaresAre
<1>6. d[1] \in {-1, 0, 1} /\ d[2] \in {-1, 0, 1} /\ (d[1] # 0 \/ d[2] # 0)
  BY DEF Directions, bishopDirections, rookDirections
<1>7. k # n /\ k \in Int /\ n \in Int
  OBVIOUS
<1> HIDE DEF q
<1>8. q # t
  <2> SUFFICES ASSUME q = t PROVE FALSE
    OBVIOUS
  <2>1. Row(r) + k * d[1] = Row(r) + n * d[1] /\ File(r) + k * d[2] = File(r) + n * d[2]
    BY <1>4
  <2>2. CASE d[1] # 0
    BY <1>5, <1>6, <1>7, <2>1, <2>2
  <2>3. CASE d[2] # 0
    BY <1>5, <1>6, <1>7, <2>1, <2>3
  <2> QED
    BY <1>6, <2>2, <2>3
<1> QED
  BY <1>4, <1>8 DEF q, IsOnTheWay

LEMMA LineStays ==
  ASSUME NEW at, NEW after, NEW d \in Directions, NEW r \in Squares, NEW t \in Squares,
         \A q \in Squares : q # t /\ at[q] = Rules!Empty => after[q] = Rules!Empty,
         LineTo(at, d, r, t)
  PROVE  LineTo(after, d, r, t)
<1>1. PICK n \in 1..7 : /\ Row(t) = Row(r) + n * d[1] /\ File(t) = File(r) + n * d[2]
                        /\ \A k \in 1..(n - 1) : at[r + k * (8 * d[1] + d[2])] = Rules!Empty
  BY DEF LineTo
<1>2. \A k \in 1..(n - 1) : /\ r + k * (8 * d[1] + d[2]) \in Squares
                            /\ r + k * (8 * d[1] + d[2]) # t
  <2> TAKE k \in 1..(n - 1)
  <2>1. Row(t) = Row(r) + n * d[1] /\ File(t) = File(r) + n * d[2]
    BY <1>1
  <2>2. IsOnTheWay(d, r, t, k)
    BY <2>1, OnTheWay
  <2> QED
    BY <2>2 DEF IsOnTheWay
<1>3. \A k \in 1..(n - 1) : after[r + k * (8 * d[1] + d[2])] = Rules!Empty
  BY <1>1, <1>2
<1> QED
  BY <1>1, <1>3 DEF LineTo

Taken(pieces) == occupationOf(pieces, "White") \cup occupationOf(pieces, "Black")

LEMMA StrikesCarry ==
  ASSUME NEW pieces \in PieceSets, NEW at, Shows(at, pieces),
         NEW others \in PieceSets, NEW after, Shows(after, others),
         NEW p, NEW type, NEW r \in Squares, NEW t \in Squares,
         \A d \in Directions : LineTo(at, d, r, t) => LineTo(after, d, r, t),
         Strikes(p, type, Taken(pieces), r, t)
  PROVE  Strikes(p, type, Taken(others), r, t)
<1>1. /\ t \in getRookMoves(r, Taken(pieces)) <=> \E d \in rookDirections : LineTo(at, d, r, t)
      /\ t \in getBishopMoves(r, Taken(pieces)) <=> \E d \in bishopDirections : LineTo(at, d, r, t)
  BY SlidersSee DEF Taken
<1>2. /\ t \in getRookMoves(r, Taken(others)) <=> \E d \in rookDirections : LineTo(after, d, r, t)
      /\ t \in getBishopMoves(r, Taken(others)) <=> \E d \in bishopDirections : LineTo(after, d, r, t)
  BY SlidersSee DEF Taken
<1>3. rookDirections \subseteq Directions /\ bishopDirections \subseteq Directions
  BY DEF Directions
<1>4. /\ t \in getRookMoves(r, Taken(pieces)) => t \in getRookMoves(r, Taken(others))
      /\ t \in getBishopMoves(r, Taken(pieces)) => t \in getBishopMoves(r, Taken(others))
  BY <1>1, <1>2, <1>3
<1> QED
  BY <1>4 DEF Strikes

\* No piece strikes the square it stands on.
LEMMA NoneStrikesItself ==
  ASSUME NEW pieces \in PieceSets, NEW at, Shows(at, pieces), NEW p \in Players,
         NEW type \in PieceTypes, NEW s \in Squares, s \in pieces[p][type]
  PROVE  ~Strikes(p, type, Taken(pieces), s, s)
<1>1. Rules!AttacksSquare(at, s, s) <=> Strikes(p, type, Taken(pieces), s, s)
  BY StrikesIs DEF Taken
<1>2. Rules!Rank(s) - Rules!Rank(s) = 0 /\ Rules!FileOf(s) - Rules!FileOf(s) = 0
  BY DEF Rules!Rank, Rules!FileOf, Squares
<1>3. ~Rules!AttacksSquare(at, s, s)
  <2>1. Rules!Abs(0) = 0 /\ {Rules!Abs(0), Rules!Abs(0)} # {1, 2} /\ \A x : Rules!Up(x) # 0
    BY DEF Rules!Abs, Rules!Up
  <2> QED
    BY <1>2, <2>1 DEF Rules!AttacksSquare
<1> QED
  BY <1>1, <1>3

LEMMA TakenIsBoth ==
  ASSUME NEW b \in Boards, IsFresh(b)
  PROVE  both(b) = Taken(b.pieces)
BY DEF IsFresh, both, Taken, Players

----------------------------------------------------------------------------
(* The moves of the other pieces are those of the rules.                   *)

LEMMA PiecesFollow ==
  ASSUME NEW b \in Boards, IsFresh(b), IsPosition(b), NEW type \in PieceTypes, type # "Pawn",
         NEW s \in Own(b)[type], NEW t \in Squares
  PROVE  /\ Rules!Reaches(Position(b), s, t) <=>
              t \notin OwnSquares(b) /\ Strikes(b.player, type, Taken(b.pieces), s, t)
         /\ Rules!Becomes(Position(b), s, t) = {type}
         /\ ~Rules!PassedOver(Position(b), s, t)
<1>1. /\ b.player \in Players /\ b.pieces \in PieceSets /\ s \in Squares
      /\ PiecesStandApart(b) /\ s \in b.pieces[b.player][type]
  BY BoardFields DEF IsPosition, Own, PieceSets
<1>2. Shows(Standing(b), b.pieces)
  BY <1>1, StandingShows
<1>3. Rules!AttacksSquare(Standing(b), s, t) <=> Strikes(b.player, type, Taken(b.pieces), s, t)
  BY <1>1, <1>2, StrikesIs DEF Taken
<1>4. Standing(b)[s][2] = type
  BY <1>1, <1>2, Shown
<1>5. Rules!Owns(Standing(b), b.player, t) <=> t \in OwnSquares(b)
  BY <1>1, EmptyIs
<1>6. Position(b).at = Standing(b) /\ Position(b).turn = b.player
  BY DEF Position
<1>7. Rules!Reaches(Position(b), s, t) <=>
        t \notin OwnSquares(b) /\ Strikes(b.player, type, Taken(b.pieces), s, t)
  BY <1>3, <1>4, <1>5, <1>6 DEF Rules!Reaches
<1>8. Rules!Becomes(Position(b), s, t) = {type}
  BY <1>4, <1>6 DEF Rules!Becomes
<1>9. ~Rules!PassedOver(Position(b), s, t)
  BY <1>4, <1>6 DEF Rules!PassedOver
<1> QED
  BY <1>7, <1>8, <1>9

LEMMA PieceGoesIs ==
  ASSUME NEW b \in Boards, IsFresh(b), NEW type \in PieceTypes, NEW s, NEW t, NEW m
  PROVE  PieceGoes("PseudoLegal", b, type, s, t, m) <=>
           /\ type # "Pawn" /\ Strikes(b.player, type, Taken(b.pieces), s, t)
           /\ type = "King" => t \notin b.attacks[nextPlayer(b.player)]
           /\ t \notin OwnSquares(b) /\ m = Going(b, s, t)
<1>1. both(b) = Taken(b.pieces)
  BY TakenIsBoth
<1>2. MayGo("PseudoLegal", b, t) <=> t \notin OwnSquares(b)
  BY FreshSquares DEF MayGo
<1>3. Reaches(b, type, s, t) <=>
        /\ type # "Pawn" /\ Strikes(b.player, type, Taken(b.pieces), s, t)
        /\ type = "King" => t \notin b.attacks[nextPlayer(b.player)]
  BY <1>1 DEF Reaches, Strikes
<1> QED
  BY <1>2, <1>3 DEF PieceGoes

\* The move of a piece, the king's into check as well.
LEMMA PieceIsPlain ==
  ASSUME NEW b \in Boards, IsFresh(b), IsPosition(b), NEW type \in PieceTypes, type # "Pawn",
         NEW s \in Own(b)[type], NEW t \in Squares, t \notin OwnSquares(b),
         Strikes(b.player, type, Taken(b.pieces), s, t)
  PROVE  /\ PlainMove(b, Going(b, s, t), type)
         /\ Going(b, s, t).from = s /\ Going(b, s, t).to = t
         /\ \A u : LeadsTo(b, Going(b, s, t), s, t, u) <=> u = type
<1> DEFINE m == Going(b, s, t)
<1>1. t \in getAllAttacks(b, b.player)
  BY AttacksAreStrikes, TakenIsBoth, BoardFields DEF IsFresh, Own
<1>2. t \notin Theirs(b)["King"]
  BY <1>1, KingIsNotTaken
<1>3. b.occupation[nextPlayer(b.player)] = TheirSquares(b)
  BY FreshSquares
<1>4. /\ m = Move(s, t, m.flag) /\ m.flag \in {Flag.Quiet, Flag.Capture}
      /\ m.flag = Flag.Capture <=> t \in TheirSquares(b)
  BY <1>3 DEF Going, create, Move, Flag
<1>5. m.from = s /\ m.to = t
  BY <1>4, MoveFields
<1>6. m.flag # Flag.DoublePush /\ ~isPromotionMove(Move(s, t, m.flag))
  BY <1>4, FlagsAre DEF Flag
<1> HIDE DEF m
<1>7. \A u : LeadsTo(b, m, s, t, u) <=> u = type
  BY <1>4, <1>6, PieceLeadsTo DEF IsPosition
<1>8. PlainMove(b, m, type)
  BY <1>2, <1>4, <1>5, <1>6 DEF PlainMove, ReachesSquare
<1> QED
  BY <1>5, <1>7, <1>8 DEF m

\* A king that went where it was attacked is attacked there.
LEMMA KingIntoCheck ==
  ASSUME NEW b \in Boards, IsFresh(b), IsPosition(b), NEW m, PlainMove(b, m, "King"),
         m.to \in b.attacks[nextPlayer(b.player)]
  PROVE  isKingAttacked(performMove(b, m), b.player)
<1> DEFINE c == performMove(b, m)
           p == b.player
           o == nextPlayer(b.player)
           s == m.from
           t == m.to
           after == Rules!After(Position(b), s, t, "King")
<1>1. /\ "King" \in PieceTypes /\ p \in Players /\ o \in Players
      /\ b.pieces \in PieceSets /\ PiecesStandApart(b)
  BY BoardFields, PlayersAre, PieceTypesAre DEF IsPosition
<1>2. c \in Boards /\ IsFresh(c) /\ Transfer(b, c, {<<"King", s>>}, {<<"King", t>>}, {t})
  BY <1>1, PlainMoveMade DEF Finished
<1>3. s \in Own(b)["King"] /\ t \in Squares /\ t \notin OwnSquares(b)
  BY DEF PlainMove, ReachesSquare
<1>4. s \in Squares /\ s # t
  <2>1. s \in OwnSquares(b)
    BY <1>1, <1>3, SquaresOf
  <2> QED
    BY <1>1, <1>3, <2>1 DEF Own, PieceSets
<1>5. ~Rules!PassedOver(Position(b), s, t)
  BY <1>1, <1>3, PiecesFollow
<1>6. Shows(after, c.pieces)
  BY <1>1, <1>5, PlainChecks
<1>7. \A q \in Squares : after[q] = NowOn(Standing(b), p, s, t, "King", {t}, q)
  <2> DEFINE taken == {t}
  <2>1. TakenIs(b, s, t, taken)
    BY <1>5 DEF TakenIs
  <2> HIDE DEF taken
  <2>2. \A q \in Squares : after[q] = NowOn(Standing(b), p, s, t, "King", taken, q)
    BY <1>3, <1>4, <2>1, AfterIs
  <2> QED
    BY <2>2 DEF taken
<1>8. \A q \in Squares : q # t /\ Standing(b)[q] = Rules!Empty => after[q] = Rules!Empty
  BY <1>7 DEF NowOn
<1>9. PICK type \in PieceTypes : \E r \in b.pieces[o][type] : Strikes(o, type, Taken(b.pieces), r, t)
  BY <1>1, AttacksAreStrikes, TakenIsBoth
<1>10. PICK r \in b.pieces[o][type] : Strikes(o, type, Taken(b.pieces), r, t)
  BY <1>9
<1>11. r \in Squares /\ Shows(Standing(b), b.pieces)
  BY <1>1, StandingShows DEF PieceSets
<1>12. r # t
  BY <1>1, <1>10, <1>11, NoneStrikesItself
<1>13. r \in c.pieces[o][type]
  BY <1>2, <1>11, <1>12 DEF Transfer, Theirs
<1>14. t \in c.pieces[p]["King"]
  BY <1>1, <1>2, <1>3 DEF Transfer
<1>15. c.pieces \in PieceSets
  BY <1>2, BoardFields
<1> HIDE DEF c, p, o, s, t, after
<1>16. \A d \in Directions : LineTo(Standing(b), d, r, t) => LineTo(after, d, r, t)
  BY <1>3, <1>8, <1>11, LineStays
<1>17. Strikes(o, type, Taken(c.pieces), r, t)
  BY <1>1, <1>3, <1>6, <1>10, <1>11, <1>15, <1>16, StrikesCarry
<1>18. t \in c.attacks[o]
  BY <1>1, <1>2, <1>3, <1>13, <1>17, AttacksAreStrikes, TakenIsBoth
<1> QED
  BY <1>14, <1>18 DEF isKingAttacked, c, p, o, s, t

----------------------------------------------------------------------------
(* All moves but castling are those of the rules.                          *)

LEMMA PawnStepIs ==
  ASSUME NEW b \in Boards, IsFresh(b), IsPosition(b), NEW s \in Own(b)["Pawn"], NEW t \in Squares,
         NEW m, PawnStep(b, s, t, m)
  PROVE  /\ m.from = s /\ m.to = t /\ m = Move(s, t, m.flag)
         /\ \/ EnPassantMove(b, m) /\ File(s) # File(t)
            \/ PlainMove(b, m, "Pawn") /\ ~Rules!PassedOver(Position(b), s, t)
            \/ PromotionMove(b, m) /\ ~Rules!PassedOver(Position(b), s, t)
<1>1. s \in Squares /\ EnPassantNeedsItsPawn(b)
  BY BoardFields, PieceTypesAre DEF Own, PieceSets, IsPosition
<1>2. CASE EnPassantGoes(b, s, t, m)
  <2>1. m = Move(s, t, Flag.EnPassant) /\ t = b.enPessant
    BY <1>2 DEF EnPassantGoes
  <2>2. m.from = s /\ m.to = t /\ m.flag = Flag.EnPassant
    BY <2>1, MoveFields
  <2>3. t # NoPosition
    BY DEF Squares, NoPosition
  <2>4. File(s) # File(t) /\ t \notin OwnSquares(b) /\ t \notin TheirSquares(b)
    BY <1>2, <2>1, PawnWays DEF EnPassantGoes
  <2> QED
    BY <2>1, <2>2, <2>3, <2>4 DEF EnPassantMove
<1>3. CASE PawnGoes("PseudoLegal", b, s, t, m)
  <2>1. m.from = s /\ m.to = t /\ m = Move(s, t, m.flag)
    <3>1. \E flag : m = Move(s, t, flag)
      BY <1>3 DEF PawnGoes
    <3> QED
      BY <3>1, MoveFields
  <2>2. PlainMove(b, m, "Pawn") \/ PromotionMove(b, m)
    BY <1>3, PawnGoesIsAMove
  <2>3. b.occupation[nextPlayer(b.player)] = TheirSquares(b)
    BY FreshSquares
  <2>4. StepsTo(b, s, t) \/ StepsTwiceTo(b, s, t) \/ t \in TheirSquares(b)
    BY <1>3, <2>3 DEF PawnGoes
  <2>5. ~Rules!PassedOver(Position(b), s, t)
    BY <1>1, <2>4, PawnWays, NothingPassedOver
  <2> QED
    BY <2>1, <2>2, <2>5
<1> QED
  BY <1>2, <1>3 DEF PawnStep

LEMMA PawnChecks ==
  ASSUME NEW b \in Boards, IsFresh(b), IsPosition(b), NEW s \in Own(b)["Pawn"], NEW t \in Squares,
         NEW m, PawnStep(b, s, t, m), NEW u, LeadsTo(b, m, s, t, u)
  PROVE  Rules!InCheck(Rules!After(Position(b), s, t, u), b.player) <=> ~IsLegal(b, m)
<1>1. m.from = s /\ m.to = t /\ m = Move(s, t, m.flag)
  BY PawnStepIs
<1>2. "Pawn" \in PieceTypes /\ PiecesStandApart(b)
  BY PieceTypesAre DEF IsPosition
<1>3. \A flag \in {Flag.Quiet, Flag.DoublePush, Flag.Capture, Flag.EnPassant} :
        m.flag = flag => u = "Pawn"
  <2>1. \A flag \in {Flag.Quiet, Flag.DoublePush, Flag.Capture, Flag.EnPassant} :
          LeadsTo(b, Move(s, t, flag), s, t, u) => u = "Pawn"
    BY <1>2, FlagsAre, PieceLeadsTo
  <2> QED
    BY <1>1, <2>1
<1>4. ChecksAgree(b, m, u)
  <2>1. CASE EnPassantMove(b, m) /\ File(s) # File(t)
    <3>1. u = "Pawn"
      BY <1>3, <2>1 DEF EnPassantMove
    <3> QED
      BY <1>1, <2>1, <3>1, EnPassantChecks
  <2>2. CASE PlainMove(b, m, "Pawn") /\ ~Rules!PassedOver(Position(b), s, t)
    <3>1. u = "Pawn"
      BY <1>3, <2>2 DEF PlainMove
    <3> QED
      BY <1>1, <1>2, <2>2, <3>1, PlainChecks
  <2>3. CASE PromotionMove(b, m) /\ ~Rules!PassedOver(Position(b), s, t)
    <3>1. PICK v \in {"Queen", "Knight", "Bishop", "Rook"}, capture \in BOOLEAN :
            m.flag = promotionFlag(v, capture) /\ ReachesSquare(b, m, capture)
      BY <2>3 DEF PromotionMove
    <3>2. u = v
      <4>1. LeadsTo(b, Move(s, t, promotionFlag(v, capture)), s, t, u)
        BY <1>1, <3>1
      <4>2. \A w \in Promoted, c \in BOOLEAN :
              LeadsTo(b, Move(s, t, promotionFlag(w, c)), s, t, u) => u = w
        BY PromotionLeadsTo
      <4> QED
        BY <4>1, <4>2 DEF Promoted
    <3>3. m.from \in Own(b)["Pawn"] /\ ~Rules!PassedOver(Position(b), m.from, m.to)
      BY <1>1, <2>3
    <3> QED
      <4>1. ASSUME NEW w \in {"Queen", "Knight", "Bishop", "Rook"}, NEW taking \in BOOLEAN,
                   m.flag = promotionFlag(w, taking), ReachesSquare(b, m, taking)
            PROVE  ChecksAgree(b, m, w)
        BY <3>3, <4>1, PromotionChecks
      <4> QED
        BY <3>1, <3>2, <4>1
  <2> QED
    BY <2>1, <2>2, <2>3, PawnStepIs
<1> QED
  BY <1>1, <1>4 DEF ChecksAgree, IsLegal

\* A move of the generators that is no castling, and a move of the rules that
\* is none.
Steps(b, s, t, m) ==
  \/ \E type \in PieceTypes : s \in Own(b)[type] /\ PieceGoes("PseudoLegal", b, type, s, t, m)
  \/ s \in Own(b)["Pawn"] /\ PawnStep(b, s, t, m)

RuleSteps(b, s, t, u) ==
  /\ Rules!Owns(Standing(b), b.player, s)
  /\ Rules!Reaches(Position(b), s, t) /\ u \in Rules!Becomes(Position(b), s, t)
  /\ ~Rules!InCheck(Rules!After(Position(b), s, t, u), b.player)

LEMMA PawnStepsFollow ==
  ASSUME NEW b \in Boards, IsFresh(b), IsPosition(b), NEW s \in Own(b)["Pawn"], NEW t \in Squares, NEW u
  PROVE  RuleSteps(b, s, t, u) <=> \E m : Steps(b, s, t, m) /\ LeadsTo(b, m, s, t, u) /\ IsLegal(b, m)
<1>1. b.player \in Players /\ PiecesStandApart(b) /\ "Pawn" \in PieceTypes /\ s \in Squares
  BY BoardFields, PieceTypesAre DEF IsPosition, Own, PieceSets
<1>2. Rules!Owns(Standing(b), b.player, s)
  BY <1>1, EmptyIs, SquaresOf
<1>3. \A m : Steps(b, s, t, m) <=> PawnStep(b, s, t, m)
  <2>1. \A type \in PieceTypes : s \in Own(b)[type] => type = "Pawn"
    BY <1>1, PieceAtIsOne DEF Own
  <2>2. \A m : ~PieceGoes("PseudoLegal", b, "Pawn", s, t, m)
    BY <1>1, PieceGoesIs
  <2> QED
    BY <2>1, <2>2 DEF Steps
<1>4. \A m : PawnStep(b, s, t, m) /\ LeadsTo(b, m, s, t, u) =>
        (IsLegal(b, m) <=> ~Rules!InCheck(Rules!After(Position(b), s, t, u), b.player))
  BY PawnChecks
<1>5. Rules!Reaches(Position(b), s, t) /\ u \in Rules!Becomes(Position(b), s, t) <=>
        \E m : PawnStep(b, s, t, m) /\ LeadsTo(b, m, s, t, u)
  BY PawnsFollow
<1> DEFINE checked == Rules!InCheck(Rules!After(Position(b), s, t, u), b.player)
<1>6. RuleSteps(b, s, t, u) <=>
        Rules!Reaches(Position(b), s, t) /\ u \in Rules!Becomes(Position(b), s, t) /\ ~checked
  BY <1>2 DEF RuleSteps
<1>7. (\E m : Steps(b, s, t, m) /\ LeadsTo(b, m, s, t, u) /\ IsLegal(b, m)) <=>
        (\E m : PawnStep(b, s, t, m) /\ LeadsTo(b, m, s, t, u)) /\ ~checked
  BY <1>3, <1>4, Zenon
<1> HIDE DEF checked
<1> QED
  BY <1>5, <1>6, <1>7

LEMMA PieceStepsFollow ==
  ASSUME NEW b \in Boards, IsFresh(b), IsPosition(b), NEW type \in PieceTypes, type # "Pawn",
         NEW s \in Own(b)[type], NEW t \in Squares, NEW u
  PROVE  RuleSteps(b, s, t, u) <=> \E m : Steps(b, s, t, m) /\ LeadsTo(b, m, s, t, u) /\ IsLegal(b, m)
<1> DEFINE goes == t \notin OwnSquares(b) /\ Strikes(b.player, type, Taken(b.pieces), s, t)
           safe == type = "King" => t \notin b.attacks[nextPlayer(b.player)]
           move == Going(b, s, t)
           checked == Rules!InCheck(Rules!After(Position(b), s, t, type), b.player)
<1>1. b.player \in Players /\ PiecesStandApart(b) /\ "Pawn" \in PieceTypes /\ s \in Squares
  BY BoardFields, PieceTypesAre DEF IsPosition, Own, PieceSets
<1>2. Rules!Owns(Standing(b), b.player, s)
  BY <1>1, EmptyIs, SquaresOf
<1>3. \A v \in PieceTypes : s \in Own(b)[v] => v = type
  BY <1>1, PieceAtIsOne DEF Own
<1>4. \A m : PieceGoes("PseudoLegal", b, type, s, t, m) <=> goes /\ safe /\ m = move
  BY PieceGoesIs
<1>5. \A m : Steps(b, s, t, m) <=> goes /\ safe /\ m = move
  BY <1>1, <1>3, <1>4 DEF Steps
<1>6. RuleSteps(b, s, t, u) <=> goes /\ u = type /\ ~checked
  BY <1>2, PiecesFollow DEF RuleSteps
<1>7. goes => /\ PlainMove(b, move, type) /\ move.from = s /\ move.to = t
              /\ LeadsTo(b, move, s, t, u) <=> u = type
  BY PieceIsPlain
<1>8. ~Rules!PassedOver(Position(b), s, t)
  BY PiecesFollow
<1>9. goes => (checked <=> ~IsLegal(b, move))
  BY <1>7, <1>8, PlainChecks DEF ChecksAgree, IsLegal
<1>10. goes /\ ~safe => ~IsLegal(b, move)
  BY <1>7, KingIntoCheck DEF IsLegal
<1> HIDE DEF goes, safe, move, checked
<1> QED
  BY <1>5, <1>6, <1>7, <1>9, <1>10

LEMMA StepsFollow ==
  ASSUME NEW b \in Boards, IsFresh(b), IsPosition(b), NEW s \in Squares, NEW t \in Squares, NEW u
  PROVE  RuleSteps(b, s, t, u) <=> \E m : Steps(b, s, t, m) /\ LeadsTo(b, m, s, t, u) /\ IsLegal(b, m)
<1>1. CASE \E type \in PieceTypes : s \in Own(b)[type]
  BY <1>1, PawnStepsFollow, PieceStepsFollow
<1>2. CASE ~\E type \in PieceTypes : s \in Own(b)[type]
  <2>1. ~Rules!Owns(Standing(b), b.player, s)
    BY <1>2, EmptyIs, SquaresOf DEF IsPosition
  <2>2. \A m : ~Steps(b, s, t, m)
    BY <1>2, PieceTypesAre DEF Steps
  <2> QED
    BY <2>1, <2>2 DEF RuleSteps
<1> QED
  BY <1>1, <1>2

----------------------------------------------------------------------------
(* Castling is that of the rules.                                          *)

LEMMA TableIs ==
  ASSUME NEW b \in Boards, NEW x
  PROVE  LET king == CastlingTable[b.player]["KingSide"]
             queen == CastlingTable[b.player]["QueenSide"]
         IN /\ king.free \cap x = {} <=> \A q \in {5, 6} : Home(b) + q \notin x
            /\ king.safe \cap x = {} <=> \A q \in {4, 5, 6} : Home(b) + q \notin x
            /\ king.to = Home(b) + 6
            /\ queen.free \cap x = {} <=> \A q \in {1, 2, 3} : Home(b) + q \notin x
            /\ queen.safe \cap x = {} <=> \A q \in {2, 3, 4} : Home(b) + q \notin x
            /\ queen.to = Home(b) + 2
<1>1. b.player = "White" \/ b.player = "Black"
  BY BoardFields DEF Players
<1>2. CASE b.player = "White"
  <2>1. Home(b) = 0
    BY <1>2 DEF Home, A1
  <2>2. /\ CastlingTable[b.player]["KingSide"] = [to |-> 6, free |-> {5, 6}, safe |-> {4, 5, 6}]
        /\ CastlingTable[b.player]["QueenSide"] = [to |-> 2, free |-> {1, 2, 3}, safe |-> {2, 3, 4}]
    BY <1>2 DEF CastlingTable
  <2> QED
    BY <2>1, <2>2
<1>3. CASE b.player = "Black"
  <2>1. Home(b) = 56
    BY <1>3 DEF Home, A8
  <2>2. /\ CastlingTable[b.player]["KingSide"] = [to |-> 62, free |-> {61, 62}, safe |-> {60, 61, 62}]
        /\ CastlingTable[b.player]["QueenSide"] = [to |-> 58, free |-> {57, 58, 59}, safe |-> {58, 59, 60}]
    BY <1>3 DEF CastlingTable
  <2> QED
    BY <2>1, <2>2
<1> QED
  BY <1>1, <1>2, <1>3

\* Castling to a side is open: the right is there, the squares are free and safe.
CastleOpen(b, side) ==
  /\ Right(b.player, side) \in b.castlingRights
  /\ CastlingTable[b.player][side].free \cap both(b) = {}
  /\ CastlingTable[b.player][side].safe \cap b.attacks[nextPlayer(b.player)] = {}

LEMMA CastlesAre ==
  ASSUME NEW b \in Boards, IsFresh(b), IsPosition(b), NEW x
  PROVE  x \in Rules!Castles(Position(b)) <=>
           \E side \in {"KingSide", "QueenSide"} :
             CastleOpen(b, side) /\ x = <<Home(b) + 4, CastlingTable[b.player][side].to, "King">>
<1> DEFINE at == Standing(b)
           o == nextPlayer(b.player)
           home == Home(b)
           free(squares) == \A q \in squares : at[home + q] = Rules!Empty
           safe(squares) == \A q \in squares : ~Rules!AttackedBy(at, o, home + q)
           king == Right(b.player, "KingSide")
           queen == Right(b.player, "QueenSide")
<1>1. /\ b.player \in Players /\ o \in Players /\ PiecesStandApart(b)
      /\ home \in {0, 56} /\ \A q \in 0..7 : home + q \in Squares
  BY BoardFields, PlayersAre DEF IsPosition, Home, A1, A8, Squares
<1>2. \A q \in Squares : /\ at[q] = Rules!Empty <=> q \notin both(b)
                         /\ Rules!AttackedBy(at, o, q) <=> q \in b.attacks[o]
  BY <1>1, EmptyIs, AttackedIs, StandingShows
<1>3. Rules!Other(b.player) = o
  BY DEF Rules!Other, nextPlayer
<1>4. /\ Position(b).at = at /\ Position(b).turn = b.player
      /\ Position(b).rights = b.castlingRights
  BY DEF Position
<1>5. x \in Rules!Castles(Position(b)) <=>
        \/ /\ king \in b.castlingRights /\ free({5, 6}) /\ safe({4, 5, 6})
           /\ x = <<home + 4, home + 6, "King">>
        \/ /\ queen \in b.castlingRights /\ free({1, 2, 3}) /\ safe({2, 3, 4})
           /\ x = <<home + 4, home + 2, "King">>
  <2>1. home = IF b.player = "White" THEN 0 ELSE 56
    BY DEF Home, A1, A8
  <2>2. /\ king = IF b.player = "White" THEN "WhiteKingSide" ELSE "BlackKingSide"
        /\ queen = IF b.player = "White" THEN "WhiteQueenSide" ELSE "BlackQueenSide"
    BY DEF Right
  <2> HIDE DEF home, king, queen, at, o
  <2> QED
    BY <1>3, <1>4, <2>1, <2>2 DEF Rules!Castles
<1>6. \A squares \in SUBSET (0..7) :
        /\ free(squares) <=> \A q \in squares : home + q \notin both(b)
        /\ safe(squares) <=> \A q \in squares : home + q \notin b.attacks[o]
  BY <1>1, <1>2
<1>7. /\ free({5, 6}) <=> CastlingTable[b.player]["KingSide"].free \cap both(b) = {}
      /\ safe({4, 5, 6}) <=> CastlingTable[b.player]["KingSide"].safe \cap b.attacks[o] = {}
      /\ free({1, 2, 3}) <=> CastlingTable[b.player]["QueenSide"].free \cap both(b) = {}
      /\ safe({2, 3, 4}) <=> CastlingTable[b.player]["QueenSide"].safe \cap b.attacks[o] = {}
  <2>1. {5, 6} \in SUBSET (0..7) /\ {4, 5, 6} \in SUBSET (0..7)
    OBVIOUS
  <2>2. {1, 2, 3} \in SUBSET (0..7) /\ {2, 3, 4} \in SUBSET (0..7)
    OBVIOUS
  <2>3. /\ free({5, 6}) <=> \A q \in {5, 6} : home + q \notin both(b)
        /\ safe({4, 5, 6}) <=> \A q \in {4, 5, 6} : home + q \notin b.attacks[o]
        /\ free({1, 2, 3}) <=> \A q \in {1, 2, 3} : home + q \notin both(b)
        /\ safe({2, 3, 4}) <=> \A q \in {2, 3, 4} : home + q \notin b.attacks[o]
    <3> HIDE DEF free, safe
    <3> QED
      BY <1>6, <2>1, <2>2
  <2> HIDE DEF free, safe
  <2> QED
    BY <2>3, TableIs
<1>8. /\ CastlingTable[b.player]["KingSide"].to = home + 6
      /\ CastlingTable[b.player]["QueenSide"].to = home + 2
  BY TableIs
<1>9. /\ CastleOpen(b, "KingSide") <=> king \in b.castlingRights /\ free({5, 6}) /\ safe({4, 5, 6})
      /\ CastleOpen(b, "QueenSide") <=> queen \in b.castlingRights /\ free({1, 2, 3}) /\ safe({2, 3, 4})
  <2> HIDE DEF free, safe
  <2> QED
    BY <1>7 DEF CastleOpen
<1> HIDE DEF at, o, home, free, safe, king, queen
<1> QED
  BY <1>5, <1>8, <1>9 DEF home

CastlingOf(b, side) ==
  Move(Home(b) + 4, CastlingTable[b.player][side].to,
       IF side = "KingSide" THEN Flag.KingCastle ELSE Flag.QueenCastle)

LEMMA CastleLeadsTo ==
  ASSUME NEW b \in Boards, IsPosition(b), NEW side \in {"KingSide", "QueenSide"},
         Right(b.player, side) \in b.castlingRights
  PROVE  LeadsTo(b, CastlingOf(b, side), Home(b) + 4, CastlingTable[b.player][side].to, "King")
<1>1. "King" \in PieceTypes /\ PiecesStandApart(b) /\ b.player \in Players
  BY PieceTypesAre, BoardFields DEF IsPosition
<1>2. Home(b) + 4 \in Own(b)["King"]
  BY <1>1 DEF IsPosition, RightsNeedKingAndRook, Home, Own
<1>3. \A t : \A flag \in {Flag.KingCastle, Flag.QueenCastle} :
        LeadsTo(b, Move(Home(b) + 4, t, flag), Home(b) + 4, t, "King")
  BY <1>1, <1>2, FlagsAre, PieceLeadsTo
<1> QED
  BY <1>3 DEF CastlingOf

LEMMA CastlesFollow ==
  ASSUME NEW b \in Boards, IsFresh(b), IsPosition(b), NEW x
  PROVE  x \in Rules!Castles(Position(b)) <=>
           \E side \in {"KingSide", "QueenSide"} : \E m :
             CastleGoes(b, side, m) /\ x = <<m.from, m.to, BecomesOf(b, m)>>
<1>1. \A side \in {"KingSide", "QueenSide"} : \A m :
        CastleGoes(b, side, m) <=> CastleOpen(b, side) /\ m = CastlingOf(b, side)
  BY DEF CastleGoes, CastleOpen, CastlingOf
<1>2. \A side \in {"KingSide", "QueenSide"} : CastleOpen(b, side) =>
        LET m == CastlingOf(b, side)
        IN /\ m.from = Home(b) + 4 /\ m.to = CastlingTable[b.player][side].to
           /\ BecomesOf(b, m) = "King"
  BY CastleLeadsTo DEF LeadsTo, CastleOpen
<1> QED
  BY <1>1, <1>2, CastlesAre

----------------------------------------------------------------------------
(* Castling leaves the king out of check: what opens a line to it is its   *)
(* own square or that of the rook, and the rook stands on that line now.   *)

\* Where the king goes, the rook beside it, and the corner it comes from.
CastlesAt(home, to, beside, corner) ==
  /\ home \in {0, 56}
  /\ \/ to = home + 6 /\ beside = home + 5 /\ corner = home + 7
     \/ to = home + 2 /\ beside = home + 3 /\ corner = home

\* The (k + 1)-th square on the way is that of the rook.
RookIsNext(beside, d, r, n, k) ==
  k + 1 \in 1..(n - 1) /\ r + (k + 1) * (8 * d[1] + d[2]) = beside

LEMMA RookBlocks ==
  ASSUME NEW home, NEW to, NEW beside, NEW corner, CastlesAt(home, to, beside, corner),
         NEW d \in Directions, NEW r \in Squares, NEW n \in 1..7, NEW k \in 1..(n - 1),
         Row(to) = Row(r) + n * d[1], File(to) = File(r) + n * d[2],
         IsOnTheWay(d, r, to, k), r + k * (8 * d[1] + d[2]) \in {home + 4, corner}
  PROVE  RookIsNext(beside, d, r, n, k)
<1> DEFINE q == r + k * (8 * d[1] + d[2])
<1>10. Row(q) = Row(r) + k * d[1] /\ File(q) = File(r) + k * d[2]
  BY DEF IsOnTheWay
<1>11. /\ q = r + k * (8 * d[1] + d[2]) /\ (q = home + 4 \/ q = corner)
       /\ home \in {0, 56}
       /\ \/ to = home + 6 /\ beside = home + 5 /\ corner = home + 7
          \/ to = home + 2 /\ beside = home + 3 /\ corner = home
  BY DEF CastlesAt
<1> HIDE DEF q
<1>1. d[1] \in {-1, 0, 1} /\ d[2] \in {-1, 0, 1} /\ (d[1] # 0 \/ d[2] # 0)
  BY DEF Directions, bishopDirections, rookDirections
<1>2. Row(r) \in 0..7 /\ File(r) \in 0..7 /\ r \in Int
  BY SquaresAre DEF Squares
<1> DEFINE placed == /\ Row(q) = Row(to) /\ q = 8 * Row(q) + File(q) /\ q \in Int
                     /\ to = 8 * Row(to) + File(to) /\ to \in Int
                     /\ \/ File(to) = 6 /\ File(q) \in {4, 7} /\ beside = to - 1
                        \/ File(to) = 2 /\ File(q) \in {4, 0} /\ beside = to + 1
<1>0. placed
  <2>1. \/ to = home + 6 /\ beside = home + 5 /\ (q = home + 4 \/ q = home + 7)
        \/ to = home + 2 /\ beside = home + 3 /\ (q = home + 4 \/ q = home)
    BY <1>11
  <2>2. CASE home = 0
    BY <2>1, <2>2 DEF Row, File
  <2>3. CASE home = 56
    BY <2>1, <2>3 DEF Row, File
  <2> QED
    BY <1>11, <2>2, <2>3
<1>3. Row(q) = Row(to) /\ q = 8 * Row(q) + File(q) /\ q \in Int
  BY <1>0
<1>4. \/ File(to) = 6 /\ File(q) \in {4, 7} /\ beside = to - 1
      \/ File(to) = 2 /\ File(q) \in {4, 0} /\ beside = to + 1
  BY <1>0
<1>5. to = 8 * Row(to) + File(to) /\ to \in Int
  BY <1>0
<1> HIDE DEF placed
<1>6. k \in 1..7 /\ k + 1 =< n /\ Row(to) \in Int
  <2>1. k \in 1..7 /\ k + 1 =< n
    OBVIOUS
  <2> QED
    BY <1>5, <2>1 DEF Row
<1>12. r \in Int /\ k \in Int /\ to \in Int
  BY <1>2, <1>5, <1>6
<1>7. d[1] = 0
  <2>1. CASE d[1] = 1
    BY <1>2, <1>10, <1>3, <1>6, <2>1
  <2>2. CASE d[1] = -1
    BY <1>2, <1>10, <1>3, <1>6, <2>2
  <2> QED
    BY <1>1, <2>1, <2>2
<1>8. CASE d[2] = 1
  <2>1. File(to) = File(r) + n /\ File(q) = File(r) + k
    BY <1>2, <1>6, <1>8, <1>10
  <2>2. n = k + 2 /\ beside = to - 1 /\ File(to) = 6 /\ File(q) = 4
    BY <1>2, <1>4, <1>6, <2>1
  <2>3. q = r + k
    BY <1>2, <1>6, <1>7, <1>8, <1>11
  <2>4. r + (k + 1) * (8 * d[1] + d[2]) = r + (k + 1)
    BY <1>2, <1>6, <1>7, <1>8, <1>11
  <2>5. q = to - 2
    BY <1>3, <1>5, <1>6, <2>2
  <2>6. r + (k + 1) = beside
    BY <1>12, <2>2, <2>3, <2>5
  <2>7. k + 1 \in 1..(n - 1)
    BY <1>6, <2>2
  <2> QED
    BY <2>4, <2>6, <2>7 DEF RookIsNext
<1>9. CASE d[2] = -1
  <2>1. File(to) = File(r) - n /\ File(q) = File(r) - k
    BY <1>2, <1>6, <1>9, <1>10
  <2>2. n = k + 2 /\ beside = to + 1 /\ File(to) = 2 /\ File(q) = 4
    BY <1>2, <1>4, <1>6, <2>1
  <2>3. q = r - k
    BY <1>2, <1>6, <1>7, <1>9, <1>11
  <2>4. r + (k + 1) * (8 * d[1] + d[2]) = r - (k + 1)
    BY <1>2, <1>6, <1>7, <1>9, <1>11
  <2>5. q = to + 2
    BY <1>3, <1>5, <1>6, <2>2
  <2>6. r - (k + 1) = beside
    BY <1>12, <2>2, <2>3, <2>5
  <2>7. k + 1 \in 1..(n - 1)
    BY <1>6, <2>2
  <2> QED
    BY <2>4, <2>6, <2>7 DEF RookIsNext
<1> QED
  BY <1>1, <1>7, <1>8, <1>9

LEMMA LineBeforeCastling ==
  ASSUME NEW home, NEW to \in Squares, NEW beside, NEW corner, CastlesAt(home, to, beside, corner),
         NEW before, NEW after, after[beside] # Rules!Empty,
         \A q \in Squares : after[q] = Rules!Empty =>
                              before[q] = Rules!Empty \/ q = home + 4 \/ q = corner,
         NEW d \in Directions, NEW r \in Squares, LineTo(after, d, r, to)
  PROVE  LineTo(before, d, r, to)
<1>1. PICK n \in 1..7 :
        /\ Row(to) = Row(r) + n * d[1] /\ File(to) = File(r) + n * d[2]
        /\ \A k \in 1..(n - 1) : after[r + k * (8 * d[1] + d[2])] = Rules!Empty
  BY DEF LineTo
<1>2. ASSUME NEW k \in 1..(n - 1)
      PROVE  before[r + k * (8 * d[1] + d[2])] = Rules!Empty
  <2> DEFINE q == r + k * (8 * d[1] + d[2])
  <2>1. IsOnTheWay(d, r, to, k)
    BY <1>1, OnTheWay
  <2>2. q \in Squares /\ Row(q) = Row(r) + k * d[1] /\ File(q) = File(r) + k * d[2]
    BY <2>1 DEF IsOnTheWay
  <2>3. after[q] = Rules!Empty
    BY <1>1
  <2>4. q # home + 4 /\ q # corner
    <3> SUFFICES ASSUME q \in {home + 4, corner} PROVE FALSE
      OBVIOUS
    <3>1. Row(to) = Row(r) + n * d[1] /\ File(to) = File(r) + n * d[2]
      BY <1>1
    <3>2. RookIsNext(beside, d, r, n, k)
      BY <2>1, <3>1, RookBlocks
    <3> QED
      BY <1>1, <3>2 DEF RookIsNext
  <2> HIDE DEF q
  <2>5. before[q] = Rules!Empty
    BY <2>2, <2>3, <2>4
  <2> QED
    BY <2>5 DEF q
<1> QED
  BY <1>1, <1>2 DEF LineTo

LEMMA CastleIsLegal ==
  ASSUME NEW b \in Boards, IsFresh(b), IsPosition(b), NEW side \in {"KingSide", "QueenSide"},
         NEW m, CastleGoes(b, side, m)
  PROVE  IsLegal(b, m)
<1> DEFINE c == performMove(b, m)
           p == b.player
           o == nextPlayer(b.player)
           home == Home(b)
           to == m.to
           beside == Beside(b, side)
           corner == Corner(b, side)
           before == Standing(b)
           after == Standing(c)
<1>1. /\ p \in Players /\ o \in Players /\ p # o /\ \A x \in Players : x = p \/ x = o
      /\ PiecesStandApart(b) /\ b.pieces \in PieceSets
      /\ home \in {0, 56} /\ "King" \in PieceTypes /\ "Rook" \in PieceTypes
  BY BoardFields, PlayersAre, PieceTypesAre DEF IsPosition, Home, A1, A8
<1>2. /\ Right(p, side) \in b.castlingRights
      /\ CastlingTable[p][side].free \cap (OwnSquares(b) \cup TheirSquares(b)) = {}
      /\ CastlingTable[p][side].safe \cap b.attacks[o] = {}
      /\ m.from = home + 4 /\ to = CastlingTable[p][side].to
      /\ m.flag = IF side = "KingSide" THEN Flag.KingCastle ELSE Flag.QueenCastle
  BY FreshSquares, MoveFields DEF CastleGoes
<1>3. /\ c \in Boards /\ IsFresh(c) /\ PiecesMoved(b, m, c)
      /\ Transfer(b, c, {<<"King", m.from>>, <<"Rook", corner>>},
                  {<<"King", to>>, <<"Rook", beside>>}, {})
  BY <1>2, CastleMoveMade DEF Finished
<1>4. PiecesStandApart(c) /\ c.pieces \in PieceSets
  BY <1>1, <1>3, ApartAfter, BoardFields DEF PiecesMoved
<1>5. CastlesAt(home, to, beside, corner)
  BY <1>1, <1>2, TableIs DEF Beside, Corner, CastlesAt
<1>6. to \in Squares /\ beside \in Squares
  BY <1>5 DEF Squares, CastlesAt
<1>7. to \notin b.attacks[o]
  <2>1. CASE side = "KingSide"
    BY <1>2, <2>1, TableIs
  <2>2. CASE side = "QueenSide"
    BY <1>2, <2>2, TableIs
  <2> QED
    BY <2>1, <2>2
<1>8. /\ \A q \in Squares : q \in c.pieces[p]["King"] => q = to
      /\ beside \in c.pieces[p]["Rook"]
      /\ \A type \in PieceTypes : c.pieces[o][type] = b.pieces[o][type]
  <2>1. PICK king \in Squares : b.pieces[p]["King"] = {king}
    BY <1>1 DEF IsPosition, OneKingEach
  <2>2. home + 4 \in b.pieces[p]["King"]
    BY <1>1, <1>2 DEF IsPosition, RightsNeedKingAndRook, Home
  <2>3. \A q \in Squares : q \in c.pieces[p]["King"] => q = to
    BY <1>1, <1>2, <1>3, <2>1, <2>2 DEF Transfer, Own
  <2>4. beside \in c.pieces[p]["Rook"]
    BY <1>1, <1>3, <1>6 DEF Transfer
  <2>5. \A type \in PieceTypes, q \in Squares : q \in c.pieces[o][type] <=> q \in b.pieces[o][type]
    BY <1>3 DEF Transfer, Theirs
  <2>6. \A type \in PieceTypes : c.pieces[o][type] \subseteq Squares /\ b.pieces[o][type] \subseteq Squares
    BY <1>1, <1>4 DEF PieceSets
  <2> QED
    BY <2>3, <2>4, <2>5, <2>6
<1>9. Shows(before, b.pieces) /\ Shows(after, c.pieces)
  BY <1>1, <1>3, <1>4, StandingShows
<1>10. \A q \in Squares : after[q] = Rules!Empty =>
                            before[q] = Rules!Empty \/ q = home + 4 \/ q = corner
  <2> SUFFICES ASSUME NEW q \in Squares, before[q] # Rules!Empty, q # home + 4, q # corner
               PROVE  after[q] # Rules!Empty
    OBVIOUS
  <2>1. PICK x \in Players, type \in PieceTypes : before[q] = <<x, type>>
    BY <1>9 DEF Shows
  <2>2. q \in b.pieces[x][type]
    BY <1>9, <2>1 DEF Shows
  <2>3. q \in c.pieces[x][type]
    <3>1. CASE x = o
      BY <1>8, <2>2, <3>1
    <3>2. CASE x = p
      BY <1>2, <1>3, <2>2, <3>2 DEF Transfer, Own
    <3> QED
      BY <1>1, <3>1, <3>2
  <2>4. after[q] = <<x, type>>
    BY <1>9, <2>3 DEF Shows
  <2> QED
    BY <2>4 DEF Players, Rules!Empty
<1>11. after[beside] # Rules!Empty
  <2>1. after[beside] = <<p, "Rook">>
    BY <1>1, <1>6, <1>8, <1>9 DEF Shows
  <2> QED
    BY <1>1, <2>1 DEF Players, Rules!Empty
<1> HIDE DEF c, p, o, home, to, beside, corner, before, after
<1> SUFFICES ASSUME isKingAttacked(c, p) PROVE FALSE
  BY DEF IsLegal, c, p
<1>12. to \in c.attacks[o]
  <2>1. PICK q \in c.pieces[p]["King"] : q \in c.attacks[o]
    BY DEF isKingAttacked, p, o
  <2>2. q \in Squares
    BY <1>1, <1>4 DEF PieceSets
  <2> QED
    BY <1>8, <2>1, <2>2
<1>13. PICK type \in PieceTypes : \E r \in c.pieces[o][type] : Strikes(o, type, Taken(c.pieces), r, to)
  BY <1>1, <1>3, <1>12, AttacksAreStrikes, TakenIsBoth
<1>14. PICK r \in c.pieces[o][type] : Strikes(o, type, Taken(c.pieces), r, to)
  BY <1>13
<1>15. r \in Squares /\ r \in b.pieces[o][type]
  BY <1>1, <1>4, <1>8 DEF PieceSets
<1>16. \A d \in Directions : LineTo(after, d, r, to) => LineTo(before, d, r, to)
  BY <1>1, <1>5, <1>6, <1>10, <1>11, <1>15, LineBeforeCastling
<1>17. Strikes(o, type, Taken(b.pieces), r, to)
  <2>1. /\ b.pieces \in PieceSets /\ c.pieces \in PieceSets
        /\ r \in Squares /\ to \in Squares
    BY <1>1, <1>4, <1>6, <1>15
  <2>2. Shows(before, b.pieces) /\ Shows(after, c.pieces)
    BY <1>9
  <2>3. Strikes(o, type, Taken(c.pieces), r, to)
    BY <1>14
  <2> QED
    BY <1>16, <2>1, <2>2, <2>3, StrikesCarry
<1>18. to \in b.attacks[o]
  BY <1>1, <1>6, <1>15, <1>17, AttacksAreStrikes, TakenIsBoth
<1> QED
  BY <1>7, <1>18

----------------------------------------------------------------------------
(* The legal moves are those of the rules.                                 *)

LEMMA PseudoLegalMovesAre ==
  ASSUME NEW b \in Boards, NEW m
  PROVE  m \in getAllMoves("PseudoLegal", b) <=>
           \/ \E s, t \in Squares : Steps(b, s, t, m)
           \/ \E side \in {"KingSide", "QueenSide"} : CastleGoes(b, side, m)
<1>1. "Pawn" \in PieceTypes /\ \A s \in Own(b)["Pawn"] : s \in Squares
  BY BoardFields, PieceTypesAre DEF Own, PieceSets
<1>2. m \in getAllMoves("PseudoLegal", b) <=> Generated("PseudoLegal", b, m)
  BY AllMovesAre
<1> DEFINE castle == \E side \in {"KingSide", "QueenSide"} : CastleGoes(b, side, m)
           piece == \E t \in PieceTypes, from, to \in Squares :
                      from \in Own(b)[t] /\ PieceGoes("PseudoLegal", b, t, from, to, m)
           pawn == \E from \in Own(b)["Pawn"], to \in Squares : PawnStep(b, from, to, m)
<1>3. Generated("PseudoLegal", b, m) <=> piece \/ pawn \/ castle
  BY DEF Generated, PawnStep, Own
<1>4. (\E s, t \in Squares : Steps(b, s, t, m)) <=> piece \/ pawn
  BY <1>1 DEF Steps
<1> HIDE DEF piece, pawn, castle
<1> QED
  BY <1>2, <1>3, <1>4 DEF castle

LEMMA LegalMovesOfTheRules ==
  ASSUME NEW b, NEW x
  PROVE  x \in Rules!LegalMoves(Position(b)) <=>
           \/ x \in Rules!Castles(Position(b))
           \/ \E s, t \in Squares : \E u : RuleSteps(b, s, t, u) /\ x = <<s, t, u>>
<1> DEFINE pos == Position(b)
           turn == pos.turn
           froms == {q \in Squares : Rules!Owns(pos.at, turn, q)}
           targets(s) == {t \in Squares : Rules!Reaches(pos, s, t)}
           becomes(s, t) == {q \in Rules!Becomes(pos, s, t) :
                               ~Rules!InCheck(Rules!After(pos, s, t, q), turn)}
           ending(s, t) == {<<s, t, u>> : u \in becomes(s, t)}
           starting(s) == UNION {ending(s, t) : t \in targets(s)}
<1>1. Rules!LegalMoves(pos) = Rules!Castles(pos) \cup UNION {starting(s) : s \in froms}
  BY DEF Rules!LegalMoves, Rules!Board64, Squares
<1>2. \A s, t : x \in ending(s, t) <=> \E u \in becomes(s, t) : x = <<s, t, u>>
  OBVIOUS
<1>3. \A s : x \in starting(s) <=> \E t \in targets(s) : x \in ending(s, t)
  <2> HIDE DEF ending, targets
  <2> QED
    OBVIOUS
<1>4. x \in UNION {starting(s) : s \in froms} <=> \E s \in froms : x \in starting(s)
  <2> HIDE DEF starting, froms
  <2> QED
    OBVIOUS
<1>5. pos.at = Standing(b) /\ turn = b.player
  BY DEF Position
<1>6. \A s, t \in Squares : \A u :
        RuleSteps(b, s, t, u) <=> s \in froms /\ t \in targets(s) /\ u \in becomes(s, t)
  BY <1>5 DEF RuleSteps
<1>7. froms \subseteq Squares /\ \A s : targets(s) \subseteq Squares
  OBVIOUS
<1> HIDE DEF pos, turn, froms, targets, becomes, ending, starting
<1>8. (\E s \in froms : x \in starting(s)) <=>
        \E s \in froms : \E t \in targets(s) : \E u \in becomes(s, t) : x = <<s, t, u>>
  BY <1>2, <1>3
<1>9. (\E s \in froms : \E t \in targets(s) : \E u \in becomes(s, t) : x = <<s, t, u>>) <=>
        \E s, t \in Squares : \E u : RuleSteps(b, s, t, u) /\ x = <<s, t, u>>
  BY <1>6, <1>7, Zenon
<1> QED
  BY <1>1, <1>4, <1>8, <1>9 DEF pos

TripleOf(b, m) == <<m.from, m.to, BecomesOf(b, m)>>

LEMMA LegalMovesFollow ==
  ASSUME NEW b \in Boards, IsFresh(b), IsPosition(b)
  PROVE  {TripleOf(b, m) : m \in LegalMoves(b)} = Rules!LegalMoves(Position(b))
<1> DEFINE castles(m) == \E side \in {"KingSide", "QueenSide"} : CastleGoes(b, side, m)
<1>1. \A m : m \in LegalMoves(b) <=>
        ((\E s, t \in Squares : Steps(b, s, t, m)) /\ IsLegal(b, m)) \/ castles(m)
  BY PseudoLegalMovesAre, CastleIsLegal DEF LegalMoves
<1>2. \A s, t \in Squares : \A m : Steps(b, s, t, m) =>
        m.from = s /\ m.to = t
  <2> SUFFICES ASSUME NEW s \in Squares, NEW t \in Squares, NEW m, Steps(b, s, t, m)
               PROVE  m.from = s /\ m.to = t
    OBVIOUS
  <2>1. CASE s \in Own(b)["Pawn"] /\ PawnStep(b, s, t, m)
    BY <2>1, PawnStepIs
  <2>2. CASE \E type \in PieceTypes : PieceGoes("PseudoLegal", b, type, s, t, m)
    <3>1. m = Going(b, s, t)
      BY <2>2 DEF PieceGoes
    <3> QED
      BY <3>1, MoveFields DEF Going, create
  <2> QED
    BY <2>1, <2>2 DEF Steps
<1>3. \A x : x \in {TripleOf(b, m) : m \in LegalMoves(b)} <=>
        \E m : m \in LegalMoves(b) /\ x = TripleOf(b, m)
  OBVIOUS
<1>4. \A s, t \in Squares : \A u, m : Steps(b, s, t, m) =>
        (LeadsTo(b, m, s, t, u) <=> TripleOf(b, m) = <<s, t, u>>)
  BY <1>2 DEF LeadsTo, TripleOf
<1>5. \A s, t \in Squares : \A u : RuleSteps(b, s, t, u) <=>
        \E m : Steps(b, s, t, m) /\ IsLegal(b, m) /\ TripleOf(b, m) = <<s, t, u>>
  BY <1>4, StepsFollow
<1>6. \A s, t \in Squares : \A m : Steps(b, s, t, m) => \E u : TripleOf(b, m) = <<s, t, u>>
  BY <1>2 DEF TripleOf
<1>7. \A x : x \in Rules!Castles(Position(b)) <=> \E m : castles(m) /\ x = TripleOf(b, m)
  BY CastlesFollow DEF TripleOf
<1> HIDE DEF castles
<1>8. ASSUME NEW x, x \in {TripleOf(b, m) : m \in LegalMoves(b)}
      PROVE  x \in Rules!LegalMoves(Position(b))
  <2>1. PICK m : m \in LegalMoves(b) /\ x = TripleOf(b, m)
    BY <1>3, <1>8
  <2>2. CASE castles(m)
    BY <1>7, <2>1, <2>2, LegalMovesOfTheRules
  <2>3. CASE IsLegal(b, m) /\ \E s, t \in Squares : Steps(b, s, t, m)
    <3>1. PICK s \in Squares, t \in Squares : Steps(b, s, t, m)
      BY <2>3
    <3>2. PICK u : TripleOf(b, m) = <<s, t, u>>
      BY <1>6, <3>1
    <3>3. RuleSteps(b, s, t, u)
      BY <1>5, <2>3, <3>1, <3>2
    <3> QED
      BY <2>1, <3>2, <3>3, LegalMovesOfTheRules
  <2> QED
    BY <1>1, <2>1, <2>2, <2>3
<1>9. ASSUME NEW x, x \in Rules!LegalMoves(Position(b))
      PROVE  x \in {TripleOf(b, m) : m \in LegalMoves(b)}
  <2>1. CASE x \in Rules!Castles(Position(b))
    BY <1>1, <1>3, <1>7, <2>1
  <2>2. CASE \E s, t \in Squares : \E u : RuleSteps(b, s, t, u) /\ x = <<s, t, u>>
    <3>0. PICK s \in Squares, t \in Squares : \E u : RuleSteps(b, s, t, u) /\ x = <<s, t, u>>
      BY <2>2
    <3>1. PICK u : RuleSteps(b, s, t, u) /\ x = <<s, t, u>>
      BY <3>0
    <3>2. PICK m : Steps(b, s, t, m) /\ IsLegal(b, m) /\ TripleOf(b, m) = <<s, t, u>>
      BY <1>5, <3>1
    <3> QED
      BY <1>1, <1>3, <3>1, <3>2
  <2> QED
    BY <1>9, <2>1, <2>2, LegalMovesOfTheRules
<1> QED
  BY <1>8, <1>9

LEMMA MovesFollow ==
  ASSUME GameInvariant
  PROVE  MovesFollowTheRules
<1>1. board \in Boards /\ IsFresh(board) /\ IsPosition(board)
  BY DEF GameInvariant, BoardIsSound, TypeInvariant
<1>2. {TripleOf(board, m) : m \in LegalMoves(board)} = Rules!LegalMoves(Position(board))
  BY <1>1, LegalMovesFollow
<1>3. MovesAreLegal
  BY <1>2 DEF MovesAreLegal, TripleOf, BecomesOf
<1>4. NoisyMovesArePseudoLegal
  BY <1>1, NoisyMovesAre DEF NoisyMovesArePseudoLegal, IsPosition
<1> QED
  BY <1>3, <1>4 DEF MovesFollowTheRules

\* In every position of every game the moves the search plays are exactly the
\* legal moves of chess, and the quiescence search sees exactly the captures
\* and promotions among the pseudo-legal moves.
THEOREM MovesAlwaysFollowTheRules == Spec => []MovesFollowTheRules
<1>1. GameInvariant => MovesFollowTheRules
  BY MovesFollow
<1> QED
  BY <1>1, GameInvariantHolds, PTL

----------------------------------------------------------------------------
(* The text of a move.                                                     *)

LEMMA WordOfFour ==
  ASSUME NEW a, NEW b, NEW c, NEW d
  PROVE  LET w == <<a, b>> \o <<c, d>> \o <<>>
         IN Len(w) = 4 /\ w[1] = a /\ w[2] = b /\ w[3] = c /\ w[4] = d
OBVIOUS

LEMMA WordOfFive ==
  ASSUME NEW a, NEW b, NEW c, NEW d, NEW e
  PROVE  LET w == <<a, b>> \o <<c, d>> \o <<e>>
         IN Len(w) = 5 /\ w[1] = a /\ w[2] = b /\ w[3] = c /\ w[4] = d /\ w[5] = e
OBVIOUS

LEMMA SquareWordIsRead ==
  ASSUME NEW pos \in Squares
  PROVE  /\ FileIndex(FileChars[File(pos) + 1]) = File(pos)
         /\ RowIndex(Digits[Row(pos) + 2]) = Row(pos)
         /\ FileIndex(FileChars[File(pos) + 1]) + 8 * RowIndex(Digits[Row(pos) + 2]) = pos
<1>1. File(pos) \in 0..7 /\ Row(pos) \in 0..7 /\ pos = 8 * Row(pos) + File(pos)
  BY SquaresAre
<1>2. \A i, j \in 1..8 : FileChars[i] = FileChars[j] => i = j
  BY DEF FileChars
<1>3. \A i, j \in 1..10 : Digits[i] = Digits[j] => i = j
  BY DEF Digits
<1>4. \A i \in 1..8 : FileIndex(FileChars[i]) = i - 1
  <2> TAKE i \in 1..8
  <2> DEFINE k == CHOOSE j \in 1..8 : FileChars[j] = FileChars[i]
  <2>1. k \in 1..8 /\ FileChars[k] = FileChars[i]
    OBVIOUS
  <2>2. FileIndex(FileChars[i]) = k - 1
    BY DEF FileIndex
  <2> HIDE DEF k
  <2> QED
    BY <1>2, <2>1, <2>2
<1>5. \A i \in 1..10 : RowIndex(Digits[i]) = i - 2
  <2> TAKE i \in 1..10
  <2> DEFINE k == CHOOSE j \in 1..10 : Digits[j] = Digits[i]
  <2>1. k \in 1..10 /\ Digits[k] = Digits[i]
    OBVIOUS
  <2>2. RowIndex(Digits[i]) = (k - 1) - 1
    BY DEF RowIndex, DigitValue
  <2> HIDE DEF k
  <2>3. k = i
    BY <1>3, <2>1
  <2> QED
    BY <2>2, <2>3
<1>6. FileIndex(FileChars[File(pos) + 1]) = File(pos)
  <2>1. File(pos) + 1 \in 1..8 /\ (File(pos) + 1) - 1 = File(pos)
    BY <1>1
  <2> QED
    BY <1>4, <2>1
<1>7. RowIndex(Digits[Row(pos) + 2]) = Row(pos)
  <2>1. Row(pos) + 2 \in 1..10 /\ (Row(pos) + 2) - 2 = Row(pos)
    BY <1>1
  <2> QED
    BY <1>5, <2>1
<1> QED
  BY <1>1, <1>6, <1>7

LEMMA PromotionCharsAre ==
  ASSUME NEW u \in Promoted
  PROVE  LET c == CHOOSE c \in DOMAIN PromotionChars : PromotionChars[c] = u
         IN c \in DOMAIN PromotionChars /\ PromotionChars[c] = u
<1>1. \E c \in DOMAIN PromotionChars : PromotionChars[c] = u
  BY DEF PromotionChars, Promoted
<1> QED
  BY <1>1

\* The moves the text of m can mean.
Fitting(b, m) ==
  {x \in getAllMoves("PseudoLegal", b) : compareMove(x, m.from, m.to, promotionType(m))}
FittingFirst(b, m) == {x \in Fitting(b, m) : promotionType(x) \in {NoPiece, "Queen"}}

LEMMA MoveWordIsRead ==
  ASSUME NEW b, NEW m, m.from \in Squares, m.to \in Squares,
         isPromotionMove(m) => promotionType(m) \in Promoted
  PROVE  moveFromString(b, MoveWord(m)) =
           IF Fitting(b, m) = {} THEN nullopt
           ELSE IF FittingFirst(b, m) # {} THEN FittingFirst(b, m) ELSE Fitting(b, m)
<1> DEFINE word == MoveWord(m)
           promotion == IF Len(word) > 4 /\ word[5] \in DOMAIN PromotionChars
                          THEN PromotionChars[word[5]] ELSE NoPiece
           from == FileIndex(word[1]) + 8 * RowIndex(word[2])
           to == FileIndex(word[3]) + 8 * RowIndex(word[4])
           fits == {x \in getAllMoves("PseudoLegal", b) : compareMove(x, from, to, promotion)}
           first == {x \in fits : promotionType(x) \in {NoPiece, "Queen"}}
           c == CHOOSE c \in DOMAIN PromotionChars : PromotionChars[c] = promotionType(m)
           last == IF isPromotionMove(m) THEN <<c>> ELSE <<>>
<1>1. word = <<FileChars[File(m.from) + 1], Digits[Row(m.from) + 2]>>
             \o <<FileChars[File(m.to) + 1], Digits[Row(m.to) + 2]>> \o last
  BY DEF MoveWord, SquareWord
<1>2. moveFromString(b, word) =
        IF Len(word) < 4 \/ fits = {} THEN nullopt ELSE IF first # {} THEN first ELSE fits
  BY DEF moveFromString
<1>3. CASE isPromotionMove(m)
  <2>1. c \in DOMAIN PromotionChars /\ PromotionChars[c] = promotionType(m)
    BY <1>3, PromotionCharsAre
  <2>2. last = <<c>>
    BY <1>3
  <2> HIDE DEF c, last, word
  <2>3. /\ Len(word) = 5 /\ word[5] = c
        /\ word[1] = FileChars[File(m.from) + 1] /\ word[2] = Digits[Row(m.from) + 2]
        /\ word[3] = FileChars[File(m.to) + 1] /\ word[4] = Digits[Row(m.to) + 2]
    BY <1>1, <2>2, WordOfFive
  <2>4. promotion = promotionType(m)
    BY <2>1, <2>3
  <2>5. from = m.from /\ to = m.to
    BY <2>3, SquareWordIsRead
  <2> HIDE DEF promotion, from, to
  <2>6. fits = Fitting(b, m) /\ first = FittingFirst(b, m)
    BY <2>4, <2>5 DEF Fitting, FittingFirst
  <2> HIDE DEF fits, first
  <2> QED
    BY <1>2, <2>3, <2>6 DEF word
<1>4. CASE ~isPromotionMove(m)
  <2>1. last = <<>> /\ promotionType(m) = NoPiece
    BY <1>4 DEF promotionType
  <2> HIDE DEF c, last, word
  <2>2. /\ Len(word) = 4
        /\ word[1] = FileChars[File(m.from) + 1] /\ word[2] = Digits[Row(m.from) + 2]
        /\ word[3] = FileChars[File(m.to) + 1] /\ word[4] = Digits[Row(m.to) + 2]
    BY <1>1, <2>1, WordOfFour
  <2>3. promotion = promotionType(m)
    BY <2>1, <2>2
  <2>4. from = m.from /\ to = m.to
    BY <2>2, SquareWordIsRead
  <2> HIDE DEF promotion, from, to
  <2>5. fits = Fitting(b, m) /\ first = FittingFirst(b, m)
    BY <2>3, <2>4 DEF Fitting, FittingFirst
  <2> HIDE DEF fits, first
  <2> QED
    BY <1>2, <2>2, <2>5 DEF word
<1> QED
  BY <1>3, <1>4

----------------------------------------------------------------------------
(* The text of a move names one move, and none after it was played.        *)

\* The text of m means x as well.
MeansToo(m, x) == x.from = m.from /\ x.to = m.to /\ (isPromotionMove(m) => promotionType(x) = promotionType(m))

LEMMA PawnStepsTellApart ==
  ASSUME NEW b \in Boards, IsFresh(b), IsPosition(b), NEW s \in Own(b)["Pawn"], NEW t \in Squares,
         NEW m, PawnStep(b, s, t, m), NEW x, PawnStep(b, s, t, x), MeansToo(m, x)
  PROVE  m = x /\ (isPromotionMove(m) => promotionType(m) \in Promoted)
<1> DEFINE last == relativeRow(b.player, s) = 6
           steps == StepsTo(b, s, t)
           twice == StepsTwiceTo(b, s, t)
           takes == TakesOn(b, s, t) /\ t \in TheirSquares(b)
           passes == TakesOn(b, s, t) /\ t = b.enPessant /\ t \notin both(b)
           promoting(n, c) == \E v \in Promoted : n = Move(s, t, promotionFlag(v, c))
           Stepping(n) == PawnStep(b, s, t, n)
<1>1. /\ b.player \in Players /\ s \in Squares /\ relativeRow(b.player, s) \in 1..6
      /\ \A to \in Squares : StepsTo(b, s, to) \/ TakesOn(b, s, to) =>
           relativeRow(b.player, to) = relativeRow(b.player, s) + 1
      /\ \A to \in Squares : StepsTwiceTo(b, s, to) => relativeRow(b.player, to) = 3
  BY BoardFields, PawnSteps DEF IsPosition
<1>2. /\ b.occupation[nextPlayer(b.player)] = TheirSquares(b)
      /\ both(b) = OwnSquares(b) \cup TheirSquares(b)
  BY FreshSquares
<1>3. \A n : Stepping(n) <=>
        \/ ~last /\ steps /\ n = Move(s, t, Flag.Quiet)
        \/ twice /\ n = Move(s, t, Flag.DoublePush)
        \/ ~last /\ takes /\ n = Move(s, t, Flag.Capture)
        \/ last /\ steps /\ promoting(n, FALSE)
        \/ last /\ takes /\ promoting(n, TRUE)
        \/ passes /\ n = Move(s, t, Flag.EnPassant)
  BY <1>2 DEF PawnStep, PawnGoes, EnPassantGoes
<1>4. steps => ~twice
  BY <1>1 DEF StepsTo, StepsTwiceTo, Forward, Squares
<1>5. steps \/ twice => ~takes /\ ~passes
  BY PawnWays
<1>6. ~(takes /\ passes)
  BY <1>2
<1>7. /\ twice => ~last
      /\ last /\ TakesOn(b, s, t) => t # b.enPessant
  BY PawnWays
<1>8. \A n, c : c \in BOOLEAN /\ promoting(n, c) => isPromotionMove(n) /\ promotionType(n) \in Promoted
  BY FlagsAre, PromotionTypeIs
<1>9. \A n, y, c : c \in BOOLEAN /\ promoting(n, c) /\ promoting(y, c)
                     /\ promotionType(n) = promotionType(y) => n = y
  BY PromotionTypeIs
<1>10. \A flag \in {Flag.Quiet, Flag.DoublePush, Flag.Capture, Flag.EnPassant} :
         ~isPromotionMove(Move(s, t, flag))
  BY FlagsAre
<1>11. isPromotionMove(m) => promotionType(x) = promotionType(m)
  BY DEF MeansToo
<1>12. Stepping(m) /\ Stepping(x)
  OBVIOUS
<1>13. last /\ passes => FALSE
  BY <1>7
<1>14. TRUE \in BOOLEAN /\ FALSE \in BOOLEAN
  OBVIOUS
<1> HIDE DEF last, steps, twice, takes, passes, promoting, Stepping
<1>15. CASE last
  <2>1. \/ steps /\ ~takes /\ promoting(m, FALSE) /\ promoting(x, FALSE)
        \/ takes /\ ~steps /\ promoting(m, TRUE) /\ promoting(x, TRUE)
    BY <1>3, <1>5, <1>7, <1>12, <1>13, <1>15
  <2> QED
    BY <1>8, <1>9, <1>11, <1>14, <2>1
<1>16. CASE ~last
  <2> DEFINE flagged(n) == \/ steps /\ n = Move(s, t, Flag.Quiet)
                           \/ twice /\ n = Move(s, t, Flag.DoublePush)
                           \/ takes /\ n = Move(s, t, Flag.Capture)
                           \/ passes /\ n = Move(s, t, Flag.EnPassant)
  <2>1. flagged(m) /\ flagged(x)
    BY <1>3, <1>12, <1>16
  <2>2. m = x
    BY <1>4, <1>5, <1>6, <2>1
  <2>3. ~isPromotionMove(m)
    BY <1>10, <2>1
  <2> QED
    BY <2>2, <2>3
<1> QED
  BY <1>15, <1>16

LEMMA PieceGoesPlainly ==
  ASSUME NEW b \in Boards, IsFresh(b), IsPosition(b), NEW type \in PieceTypes,
         NEW s \in Own(b)[type], NEW t \in Squares, NEW m, PieceGoes("PseudoLegal", b, type, s, t, m)
  PROVE  /\ m = Going(b, s, t) /\ m.from = s /\ m.to = t
         /\ ~isPromotionMove(m) /\ type # "Pawn"
         /\ type = "King" => t \in kingsTable[s]
<1>1. /\ type # "Pawn" /\ m = Going(b, s, t)
      /\ type = "King" => t \in kingsTable[s]
  BY PieceGoesIs DEF Strikes
<1>2. \E flag \in {Flag.Quiet, Flag.Capture} : m = Move(s, t, flag)
  BY <1>1 DEF Going, create
<1>3. PICK flag \in {Flag.Quiet, Flag.Capture} : m = Move(s, t, flag)
  BY <1>2
<1>4. ~isPromotionMove(m)
  BY <1>3, FlagsAre
<1>5. m.from = s /\ m.to = t
  BY <1>3, MoveFields
<1> QED
  BY <1>1, <1>4, <1>5

\* A king does not step where it castles to, and castles to two squares.
LEMMA CastlingTellsApart ==
  ASSUME NEW b \in Boards, NEW side \in {"KingSide", "QueenSide"}
  PROVE  /\ CastlingTable[b.player][side].to = Home(b) + (IF side = "KingSide" THEN 6 ELSE 2)
         /\ CastlingTable[b.player][side].to \in Squares
         /\ CastlingTable[b.player][side].to \notin kingsTable[Home(b) + 4]
<1>1. Home(b) \in {0, 56}
  BY DEF Home, A1, A8
<1>2. CastlingTable[b.player][side].to = Home(b) + (IF side = "KingSide" THEN 6 ELSE 2)
  BY TableIs
<1> DEFINE s == Home(b) + 4
           t == Home(b) + (IF side = "KingSide" THEN 6 ELSE 2)
<1>3. s \in Squares /\ t \in Squares /\ File(s) = 4 /\ File(t) \in {2, 6}
  BY <1>1 DEF Squares, File
<1> HIDE DEF s, t
<1>4. \A o \in kingsOffset : o[2] \in {-1, 0, 1}
  BY DEF kingsOffset
<1>5. t \notin kingsTable[s]
  BY <1>3, <1>4, LeapersAre
<1> QED
  BY <1>2, <1>3, <1>5 DEF s, t

LEMMA CastleGoesPlainly ==
  ASSUME NEW b \in Boards, IsPosition(b), NEW side \in {"KingSide", "QueenSide"}, NEW m,
         CastleGoes(b, side, m)
  PROVE  /\ m = CastlingOf(b, side) /\ ~isPromotionMove(m)
         /\ m.from = Home(b) + 4 /\ m.to = CastlingTable[b.player][side].to
         /\ m.from \in Own(b)["King"]
<1>1. m = CastlingOf(b, side) /\ Right(b.player, side) \in b.castlingRights
  BY DEF CastleGoes, CastlingOf
<1>2. m.from = Home(b) + 4 /\ m.to = CastlingTable[b.player][side].to
  BY <1>1, MoveFields DEF CastlingOf
<1>3. \E flag \in {Flag.KingCastle, Flag.QueenCastle} :
        m = Move(Home(b) + 4, CastlingTable[b.player][side].to, flag)
  BY <1>1 DEF CastlingOf
<1>4. ~isPromotionMove(m)
  BY <1>3, FlagsAre
<1>5. b.player \in Players
  BY BoardFields
<1>6. Home(b) + 4 \in Own(b)["King"]
  BY <1>1, <1>5 DEF IsPosition, RightsNeedKingAndRook, Home, Own
<1> QED
  BY <1>1, <1>2, <1>4, <1>6

LEMMA MovesTellApart ==
  ASSUME NEW b \in Boards, IsFresh(b), IsPosition(b), NEW m \in getAllMoves("PseudoLegal", b),
         NEW x \in getAllMoves("PseudoLegal", b), MeansToo(m, x)
  PROVE  m = x
<1>1. PiecesStandApart(b) /\ b.player \in Players /\ "Pawn" \in PieceTypes /\ "King" \in PieceTypes
  BY BoardFields, PieceTypesAre DEF IsPosition
<1>2. \A t, u \in PieceTypes : \A s : s \in Own(b)[t] /\ s \in Own(b)[u] => t = u
  BY <1>1, PieceAtIsOne DEF Own
<1> DEFINE ByPiece(n, type) == /\ n.from \in Own(b)[type] /\ n = Going(b, n.from, n.to) /\ type # "Pawn"
                               /\ type = "King" => n.to \in kingsTable[n.from]
           ByPawn(n) == n.from \in Own(b)["Pawn"] /\ n.to \in Squares /\ PawnStep(b, n.from, n.to, n)
           ByCastle(n) == \E side \in {"KingSide", "QueenSide"} :
                            n = CastlingOf(b, side) /\ n.from = Home(b) + 4
                            /\ n.to = CastlingTable[b.player][side].to /\ n.from \in Own(b)["King"]
<1>3. ASSUME NEW n \in getAllMoves("PseudoLegal", b)
      PROVE  (\E type \in PieceTypes : ByPiece(n, type)) \/ ByPawn(n) \/ ByCastle(n)
  <2>1. CASE \E s, t \in Squares : Steps(b, s, t, n)
    <3>1. PICK s \in Squares, t \in Squares : Steps(b, s, t, n)
      BY <2>1
    <3>2. CASE \E type \in PieceTypes : s \in Own(b)[type] /\ PieceGoes("PseudoLegal", b, type, s, t, n)
      <4>1. PICK type \in PieceTypes : s \in Own(b)[type] /\ PieceGoes("PseudoLegal", b, type, s, t, n)
        BY <3>2
      <4>2. /\ n = Going(b, s, t) /\ n.from = s /\ n.to = t /\ type # "Pawn"
            /\ type = "King" => t \in kingsTable[s]
        BY <4>1, PieceGoesPlainly
      <4>3. ByPiece(n, type)
        BY <4>1, <4>2
      <4> QED
        BY <4>3
    <3>3. CASE s \in Own(b)["Pawn"] /\ PawnStep(b, s, t, n)
      <4>1. n.from = s /\ n.to = t
        BY <3>3, PawnStepIs
      <4> QED
        BY <3>3, <4>1
    <3> QED
      BY <3>1, <3>2, <3>3 DEF Steps
  <2>2. CASE \E side \in {"KingSide", "QueenSide"} : CastleGoes(b, side, n)
    <3>1. PICK side \in {"KingSide", "QueenSide"} : CastleGoes(b, side, n)
      BY <2>2
    <3>2. /\ n = CastlingOf(b, side) /\ n.from = Home(b) + 4 /\ n.from \in Own(b)["King"]
          /\ n.to = CastlingTable[b.player][side].to
      BY <3>1, CastleGoesPlainly
    <3> QED
      BY <3>2
  <2> QED
    BY <2>1, <2>2, PseudoLegalMovesAre
<1>4. x.from = m.from /\ x.to = m.to
  BY DEF MeansToo
<1>5. \A n : (\E type \in PieceTypes : ByPiece(n, type)) => ~ByPawn(n)
  BY <1>1, <1>2
<1>6. \A n : ByCastle(n) => ~ByPawn(n)
  BY <1>1, <1>2
<1>7. ASSUME ByPawn(m) \/ ByPawn(x)
      PROVE  m = x
  <2>1. m.from \in Own(b)["Pawn"]
    BY <1>4, <1>7
  <2>2. \A n \in {m, x} : ByPawn(n)
    <3> SUFFICES ASSUME NEW n \in {m, x} PROVE ByPawn(n)
      OBVIOUS
    <3>1. n \in getAllMoves("PseudoLegal", b) /\ n.from \in Own(b)["Pawn"]
      BY <1>4, <2>1
    <3>2. \A type \in PieceTypes : ~ByPiece(n, type)
      BY <1>1, <1>2, <3>1
    <3>3. ~ByCastle(n)
      BY <1>1, <1>2, <3>1
    <3> QED
      BY <1>3, <3>1, <3>2, <3>3
  <2>3. m.to \in Squares /\ PawnStep(b, m.from, m.to, m) /\ PawnStep(b, m.from, m.to, x)
    BY <1>4, <2>2
  <2> QED
    BY <2>1, <2>3, PawnStepsTellApart
<1>8. ASSUME ByCastle(m) \/ ByCastle(x), \E n \in {m, x} : \E type \in PieceTypes : ByPiece(n, type)
      PROVE  FALSE
  <2>1. PICK n \in {m, x} : \E type \in PieceTypes : ByPiece(n, type)
    BY <1>8
  <2>2. PICK type \in PieceTypes : ByPiece(n, type)
    BY <2>1
  <2>3. PICK side \in {"KingSide", "QueenSide"} :
          /\ m.from = Home(b) + 4 /\ m.to = CastlingTable[b.player][side].to
          /\ m.from \in Own(b)["King"]
    BY <1>4, <1>8
  <2>4. n.from = m.from /\ n.to = m.to
    BY <1>4
  <2>5. type = "King"
    BY <1>1, <1>2, <2>2, <2>3, <2>4
  <2> QED
    BY <2>2, <2>3, <2>4, <2>5, CastlingTellsApart
<1>9. ASSUME ByCastle(m), ByCastle(x)
      PROVE  m = x
  <2>1. PICK side \in {"KingSide", "QueenSide"} :
          m = CastlingOf(b, side) /\ m.to = CastlingTable[b.player][side].to
    BY <1>9
  <2>2. PICK other \in {"KingSide", "QueenSide"} :
          x = CastlingOf(b, other) /\ x.to = CastlingTable[b.player][other].to
    BY <1>9
  <2>3. Home(b) \in Int
    BY DEF Home, A1, A8
  <2>4. side = other
    BY <1>4, <2>1, <2>2, <2>3, CastlingTellsApart
  <2> QED
    BY <2>1, <2>2, <2>4
<1>10. ASSUME NEW t \in PieceTypes, NEW u \in PieceTypes, ByPiece(m, t), ByPiece(x, u)
       PROVE  m = x
  BY <1>4, <1>10
<1> HIDE DEF ByPiece, ByPawn, ByCastle
<1> QED
  BY <1>3, <1>7, <1>8, <1>9, <1>10

LEMMA PromotionsAre ==
  ASSUME NEW b \in Boards, IsFresh(b), IsPosition(b), NEW m \in getAllMoves("PseudoLegal", b)
  PROVE  isPromotionMove(m) => promotionType(m) \in Promoted
<1>1. CASE \E s, t \in Squares : Steps(b, s, t, m)
  <2>1. PICK s \in Squares, t \in Squares : Steps(b, s, t, m)
    BY <1>1
  <2>2. ASSUME NEW type \in PieceTypes, s \in Own(b)[type], PieceGoes("PseudoLegal", b, type, s, t, m)
        PROVE  ~isPromotionMove(m)
    BY <2>2, PieceGoesPlainly
  <2>3. ASSUME s \in Own(b)["Pawn"], PawnStep(b, s, t, m)
        PROVE  isPromotionMove(m) => promotionType(m) \in Promoted
    BY <2>3, PawnStepsTellApart DEF MeansToo
  <2> QED
    BY <2>1, <2>2, <2>3 DEF Steps
<1>2. CASE \E side \in {"KingSide", "QueenSide"} : CastleGoes(b, side, m)
  BY <1>2, CastleGoesPlainly
<1> QED
  BY <1>1, <1>2, PseudoLegalMovesAre

LEMMA FittingIs ==
  ASSUME NEW b, NEW m, NEW x
  PROVE  x \in Fitting(b, m) <=> x \in getAllMoves("PseudoLegal", b) /\ compareMove(x, m.from, m.to, promotionType(m))
BY DEF Fitting

LEMMA TextNamesTheMove ==
  ASSUME NEW b \in Boards, IsFresh(b), IsPosition(b), NEW m \in getAllMoves("PseudoLegal", b),
         m.from \in Squares, m.to \in Squares
  PROVE  moveFromString(b, MoveWord(m)) = {m}
<1>1. isPromotionMove(m) => promotionType(m) \in Promoted
  BY PromotionsAre
<1>2. isPromotionMove(m) => promotionType(m) # NoPiece
  BY <1>1 DEF Promoted, NoPiece
<1>3. \A x : compareMove(x, m.from, m.to, promotionType(m)) => MeansToo(m, x)
  BY <1>2 DEF compareMove, MeansToo
<1>4. compareMove(m, m.from, m.to, promotionType(m))
  BY DEF compareMove
<1>5. \A x : x \in Fitting(b, m) <=> x = m
  BY <1>3, <1>4, FittingIs, MovesTellApart
<1>6. Fitting(b, m) = {m}
  BY <1>5
<1>7. FittingFirst(b, m) = {m} \/ FittingFirst(b, m) = {}
  BY <1>6 DEF FittingFirst
<1> QED
  BY <1>1, <1>6, <1>7, MoveWordIsRead

LEMMA MoversAre ==
  ASSUME NEW b \in Boards, IsFresh(b), IsPosition(b), NEW m, IsAMove(b, m)
  PROVE  \E type \in PieceTypes : m.from \in Own(b)[type]
<1>1. "Pawn" \in PieceTypes /\ "King" \in PieceTypes /\ b.player \in Players
  BY PieceTypesAre, BoardFields
<1>2. ASSUME CastleMove(b, m)
      PROVE  m.from \in Own(b)["King"]
  BY <1>1, <1>2 DEF CastleMove, IsPosition, RightsNeedKingAndRook, Home, Own
<1> QED
  BY <1>1, <1>2 DEF IsAMove, PlainMove, EnPassantMove, PromotionMove

LEMMA TextIsSpent ==
  ASSUME NEW b \in Boards, IsFresh(b), IsPosition(b), NEW m \in getAllMoves("PseudoLegal", b),
         IsLegal(b, m), m.from \in Squares, m.to \in Squares
  PROVE  moveFromString(performMove(b, m), MoveWord(m)) = nullopt
<1> DEFINE c == performMove(b, m)
<1>1. c \in Boards /\ IsFresh(c) /\ IsPosition(c)
  BY LegalMoveKeeps
<1>2. IsAMove(b, m)
  BY GeneratedIsAMove
<1>3. Finished(b, c, m) /\ PiecesMoved(b, m, c)
  BY <1>2, MoveMade
<1>4. c.player = nextPlayer(b.player) /\ b.player \in Players /\ nextPlayer(b.player) \in Players
  BY <1>3, BoardFields, PlayersAre DEF Finished
<1>5. PICK type \in PieceTypes : m.from \in Own(b)[type]
  BY <1>2, MoversAre
<1> HIDE DEF c
<1>6. \A t \in PieceTypes : m.from \notin Theirs(b)[t]
  <2>1. PiecesStandApart(b) /\ nextPlayer(b.player) # b.player
    BY <1>4, PlayersAre DEF IsPosition
  <2> QED
    BY <1>4, <1>5, <2>1, PieceAtIsOne DEF Own, Theirs
<1>7. \A t \in PieceTypes : m.from \notin Own(c)[t]
  <2>1. PICK gone, come, taken : Transfer(b, c, gone, come, taken)
    BY <1>3 DEF PiecesMoved
  <2>2. \A t \in PieceTypes : m.from \in Own(c)[t] => m.from \in Theirs(b)[t]
    BY <1>4, <2>1 DEF Transfer, Own
  <2> QED
    BY <1>6, <2>2
<1>8. \A x \in getAllMoves("PseudoLegal", c) : x.from # m.from
  <2> TAKE x \in getAllMoves("PseudoLegal", c)
  <2>1. IsAMove(c, x)
    BY <1>1, GeneratedIsAMove
  <2>2. \E t \in PieceTypes : x.from \in Own(c)[t]
    BY <1>1, <2>1, MoversAre
  <2> QED
    BY <1>7, <2>2
<1>9. Fitting(c, m) = {}
  BY <1>8 DEF Fitting, compareMove
<1>10. isPromotionMove(m) => promotionType(m) \in Promoted
  BY PromotionsAre
<1> QED
  BY <1>9, <1>10, MoveWordIsRead DEF c

LEMMA MoveTextIsPlayed ==
  ASSUME GameInvariant
  PROVE  MoveTextIsPlayedOnce
<1>1. board \in Boards /\ IsFresh(board) /\ IsPosition(board)
  BY DEF GameInvariant, BoardIsSound, TypeInvariant
<1> SUFFICES ASSUME NEW m \in getAllMoves("PseudoLegal", board), IsLegal(board, m)
             PROVE  /\ moveFromString(board, MoveWord(m)) = {m}
                    /\ moveFromString(performMove(board, m), MoveWord(m)) = nullopt
  BY DEF MoveTextIsPlayedOnce, LegalMoves
<1>2. IsAMove(board, m)
  BY <1>1, GeneratedIsAMove
<1>3. PiecesMoved(board, m, performMove(board, m))
  BY <1>1, <1>2, MoveMade
<1>4. m.from \in Squares /\ m.to \in Squares
  BY <1>3 DEF PiecesMoved, IsMoveOf
<1> QED
  BY <1>1, <1>4, TextNamesTheMove, TextIsSpent

\* In every position of every game the text of a legal move is read back as
\* that move and no other, and after the move was played the same text means
\* none: reading the last word of a position command again plays nothing twice.
THEOREM TextsArePlayedOnce == Spec => []MoveTextIsPlayedOnce
<1>1. GameInvariant => MoveTextIsPlayedOnce
  BY MoveTextIsPlayed
<1> QED
  BY <1>1, GameInvariantHolds, PTL

=============================================================================
