-------------------------------- MODULE Chess --------------------------------
(***************************************************************************)
(* chess_game.py: the moves of the pieces (castling, en passant and        *)
(* promotion included), making and taking back a move, legality, and the   *)
(* game with its status, draws, undo and resignation.  A grid is a         *)
(* function from the occupied squares to pieces.  The thresholds of the    *)
(* draw rules (3 and 5 repetitions, 100 and 150 plies) are constants.      *)
(***************************************************************************)
EXTENDS Integers, Sequences, FiniteSets, Functions, SequencesExt, Bags

CONSTANTS Starts, ClaimRepeats, DrawRepeats, ClaimClock, DrawClock, MaxPly, None

VARIABLES start, grid, ep, toMove, status, winner, history, clock, positions

vars == <<start, grid, ep, toMove, status, winner, history, clock, positions>>

Color == {"WHITE", "BLACK"}
opponent(c) == IF c = "WHITE" THEN "BLACK" ELSE "WHITE"
Square == (0 .. 7) \X (0 .. 7)
Promotion == {"QUEEN", "KNIGHT"}    \* of the four choices, one of each pattern

Along(s, d, k) == <<s[1] + k * d[1], s[2] + k * d[2]>>
Orthogonal == {<<1, 0>>, <<-1, 0>>, <<0, 1>>, <<0, -1>>}
Diagonal == {-1, 1} \X {-1, 1}
Jumps == ({-2, 2} \X {-1, 1}) \union ({-1, 1} \X {-2, 2})

Is(g, s, color, type) == s \in DOMAIN g /\ g[s].color = color /\ g[s].type = type
Pieces(g, color) == {s \in DOMAIN g : g[s].color = color}
----------------------------------------------------------------------------
\* SlidingPiece, Knight, King.attacks and Pawn.attacks.
Slides(g, s, dirs) ==
    {t \in {Along(s, d, k) : d \in dirs, k \in 1 .. 7} \intersect Square :
        \E d \in dirs, k \in 1 .. 7 :
            t = Along(s, d, k) /\ \A j \in 1 .. k - 1 : Along(s, d, j) \notin DOMAIN g}

direction(color) == IF color = "WHITE" THEN -1 ELSE 1

Reach(g, s) ==
    CASE g[s].type = "QUEEN" -> Slides(g, s, Orthogonal \union Diagonal)
      [] g[s].type = "ROOK" -> Slides(g, s, Orthogonal)
      [] g[s].type = "BISHOP" -> Slides(g, s, Diagonal)
      [] g[s].type = "KNIGHT" -> {Along(s, d, 1) : d \in Jumps} \intersect Square
      [] g[s].type = "KING" -> {Along(s, d, 1) : d \in Orthogonal \union Diagonal} \intersect Square

attacks(g, s) ==
    IF g[s].type = "PAWN"
    THEN {Along(s, <<direction(g[s].color), d>>, 1) : d \in {-1, 1}} \intersect Square
    ELSE Reach(g, s) \ Pieces(g, g[s].color)

is_square_attacked(g, t, by) == \E s \in Pieces(g, by) : t \in attacks(g, s)

is_in_check(g, color) ==
    \E k \in DOMAIN g : Is(g, k, color, "KING") /\ is_square_attacked(g, k, opponent(color))

\* King._can_castle.
can_castle(g, s, rookCol, empty, safe) ==
    LET rook == <<s[1], rookCol>>
    IN  /\ Is(g, rook, g[s].color, "ROOK") /\ ~g[rook].moved
        /\ \A c \in empty : <<s[1], c>> \notin DOMAIN g
        /\ \A c \in safe : ~is_square_attacked(g, <<s[1], c>>, opponent(g[s].color))

KingMoves(g, s) ==
    LET home == ~g[s].moved /\ ~is_in_check(g, g[s].color)
        castles(col, empty, safe, t) == IF home /\ can_castle(g, s, col, empty, safe) THEN {t} ELSE {}
    IN  attacks(g, s) \union castles(7, {5, 6}, {5, 6}, <<s[1], s[2] + 2>>)
                      \union castles(0, {1, 2, 3}, {3, 2}, <<s[1], s[2] - 2>>)

\* Pawn.get_possible_moves.
PawnMoves(g, e, s) ==
    LET d == <<direction(g[s].color), 0>>
        one == Along(s, d, 1)
        two == Along(s, d, 2)
        home == IF g[s].color = "WHITE" THEN 6 ELSE 1
    IN  {t \in {one} : t \in Square /\ t \notin DOMAIN g}
        \union {t \in {two} : s[1] = home /\ one \notin DOMAIN g /\ t \notin DOMAIN g}
        \union {t \in attacks(g, s) :
                   \/ t \in Pieces(g, opponent(g[s].color))
                   \/ /\ t \notin DOMAIN g /\ t = e
                      /\ Is(g, <<s[1], t[2]>>, opponent(g[s].color), "PAWN")}

get_possible_moves(g, e, s) ==
    CASE g[s].type = "PAWN" -> PawnMoves(g, e, s)
      [] g[s].type = "KING" -> KingMoves(g, s)
      [] OTHER -> attacks(g, s)
----------------------------------------------------------------------------
\* Board.apply_move: what it captures, the rook it castles with, and the record
\* undo_move works from.
EnPassant(g, e, s, t) == g[s].type = "PAWN" /\ t = e /\ s[2] # t[2] /\ t \notin DOMAIN g

Castles(g, s, t) == g[s].type = "KING" /\ t[2] - s[2] \in {-2, 2}

RookSquares(s, t) == IF t[2] > s[2] THEN <<<<s[1], 7>>, <<s[1], 5>>>>
                                    ELSE <<<<s[1], 0>>, <<s[1], 3>>>>

Record(g, e, s, t, promotion) ==
    LET victim == IF EnPassant(g, e, s, t) THEN <<s[1], t[2]>> ELSE t
    IN  [start |-> s, end |-> t, piece |-> g[s], promotion |-> promotion, ep |-> e,
         victim |-> victim, captured |-> IF victim \in DOMAIN g THEN g[victim] ELSE None,
         castling |-> Castles(g, s, t)]

Without(g, squares) == Restrict(g, DOMAIN g \ squares)
With(g, s, piece) == [x \in DOMAIN g \union {s} |-> IF x = s THEN piece ELSE g[x]]

Moved(g, m) ==
    LET placed == [m.piece EXCEPT !.moved = TRUE,
                                  !.type = IF @ = "PAWN" /\ m.end[1] \in {0, 7} THEN m.promotion ELSE @]
        board == With(Without(g, {m.victim, m.start}), m.end, placed)
        rook == RookSquares(m.start, m.end)
    IN  IF m.castling
        THEN With(Without(board, {rook[1]}), rook[2], [g[rook[1]] EXCEPT !.moved = TRUE])
        ELSE board

Target(m) == IF m.piece.type = "PAWN" /\ m.end[1] - m.start[1] \in {-2, 2}
             THEN <<(m.start[1] + m.end[1]) \div 2, m.start[2]>> ELSE None

\* Fault: undo leaves the castled rook marked as moved.
RookBackMoved(piece) == piece

RookBack(piece) == [piece EXCEPT !.moved = FALSE]

\* Board.undo_move.
Unmoved(g, m) ==
    LET board == With(Without(g, {m.end}), m.start, m.piece)
        whole == IF m.captured # None THEN With(board, m.victim, m.captured) ELSE board
        rook == RookSquares(m.start, m.end)
    IN  IF m.castling
        THEN With(Without(whole, {rook[2]}), rook[1], RookBack(whole[rook[2]]))
        ELSE whole
----------------------------------------------------------------------------
\* Board.legal_moves and MoveValidator.validate: pseudo-legal, and the own king
\* is safe afterwards.
is_legal_move(g, e, s, t) ==
    /\ t \in get_possible_moves(g, e, s)
    /\ ~is_in_check(Moved(g, Record(g, e, s, t, "QUEEN")), g[s].color)

has_legal_moves(g, e, color) ==
    \E s \in Pieces(g, color) : \E t \in get_possible_moves(g, e, s) : is_legal_move(g, e, s, t)

has_insufficient_material(g) ==
    LET others == {s \in DOMAIN g : g[s].type # "KING"}
    IN  \/ others = {}
        \/ Cardinality(others) = 1 /\ \A s \in others : g[s].type \in {"BISHOP", "KNIGHT"}
        \/ /\ \A s \in others : g[s].type = "BISHOP"
           /\ Cardinality({(s[1] + s[2]) % 2 : s \in others}) = 1

\* Board.position_key: placement, side, castling rights, and the en-passant
\* square when a pawn may really go there.
position_key(g, e, side) ==
    <<[s \in DOMAIN g |-> <<g[s].color, g[s].type>>], side,
      {<<color, col>> \in Color \X {0, 7} :
          LET row == IF color = "WHITE" THEN 7 ELSE 0
          IN  /\ Is(g, <<row, 4>>, color, "KING") /\ ~g[<<row, 4>>].moved
              /\ Is(g, <<row, col>>, color, "ROOK") /\ ~g[<<row, col>>].moved},
      IF \E s \in Pieces(g, side) : g[s].type = "PAWN" /\ e # None /\ e \in get_possible_moves(g, e, s)
      THEN e ELSE None>>

\* ChessGame._refresh_status.
Classified(g, e, side, plies, seen) ==
    LET check == is_in_check(g, side)
        moves == has_legal_moves(g, e, side)
    IN  CASE check /\ ~moves -> "CHECKMATE"
          [] ~check /\ ~moves -> "STALEMATE"
          [] \/ has_insufficient_material(g) \/ plies >= DrawClock
             \/ CopiesIn(position_key(g, e, side), seen) >= DrawRepeats -> "DRAW"
          [] check -> "CHECK"
          [] OTHER -> "ACTIVE"

is_over == status \notin {"ACTIVE", "CHECK"}
----------------------------------------------------------------------------
Init ==
    /\ start \in Starts
    /\ grid = start.grid /\ ep = None /\ toMove = start.side
    /\ history = <<>> /\ clock = 0
    /\ positions = SetToBag({position_key(grid, ep, toMove)})
    /\ status = Classified(grid, ep, toMove, clock, positions)
    /\ winner = IF status = "CHECKMATE" THEN opponent(toMove) ELSE None

\* ChessGame.make_move; a call with a stale expected_ply changes nothing.
make_move(s, t, promotion) ==
    /\ ~is_over /\ Len(history) < MaxPly
    /\ is_legal_move(grid, ep, s, t)
    /\ LET m == Record(grid, ep, s, t, promotion)
           side == opponent(toMove)
           resets == m.piece.type = "PAWN" \/ m.captured # None
       IN  /\ grid' = Moved(grid, m)
           /\ ep' = Target(m)
           /\ toMove' = side
           /\ clock' = IF resets THEN 0 ELSE clock + 1
           /\ positions' = positions (+) SetToBag({position_key(grid', ep', side)})
           /\ history' = Append(history, [move |-> m, status |-> status, clock |-> clock,
                                          key |-> position_key(grid', ep', side)])
           /\ status' = Classified(grid', ep', side, clock', positions')
           /\ winner' = IF status' = "CHECKMATE" THEN toMove ELSE winner
    /\ UNCHANGED start

Uncounted(snap) == positions (-) SetToBag({snap.key})

undo_last_move ==
    /\ history # <<>>
    /\ LET snap == Last(history)
       IN  /\ positions' = Uncounted(snap)
           /\ grid' = Unmoved(grid, snap.move)
           /\ ep' = snap.move.ep
           /\ clock' = snap.clock
           /\ status' = snap.status
    /\ toMove' = opponent(toMove)
    /\ winner' = None
    /\ history' = Front(history)
    /\ UNCHANGED start

resign(color) ==
    /\ ~is_over
    /\ status' = "RESIGNED" /\ winner' = opponent(color)
    /\ UNCHANGED <<start, grid, ep, toMove, history, clock, positions>>

claim_draw ==
    /\ ~is_over
    /\ \/ CopiesIn(position_key(grid, ep, toMove), positions) >= ClaimRepeats
       \/ clock >= ClaimClock
    /\ status' = "DRAW"
    /\ UNCHANGED <<start, grid, ep, toMove, winner, history, clock, positions>>

Moves == \E s \in Pieces(grid, toMove) : \E t \in get_possible_moves(grid, ep, s) :
    \E promotion \in (IF grid[s].type = "PAWN" /\ t[1] \in {0, 7} THEN Promotion ELSE {"QUEEN"}) :
        make_move(s, t, promotion)

Next == Moves \/ undo_last_move \/ claim_draw \/ \E color \in Color : resign(color)

Spec == Init /\ [][Next]_vars
----------------------------------------------------------------------------
TypeOK ==
    /\ \A s \in DOMAIN grid : s \in Square /\ grid[s].color \in Color
    /\ ep \in Square \union {None}
    /\ toMove \in Color
    /\ status \in {"ACTIVE", "CHECK", "CHECKMATE", "STALEMATE", "DRAW", "RESIGNED"}
    /\ winner \in Color \union {None}

\* chess_game.py, legality: both kings are on the board, and the side that just
\* moved has not left its own in check.
KingsSafe ==
    /\ \A c \in Color : Cardinality({s \in DOMAIN grid : Is(grid, s, c, "KING")}) = 1
    /\ ~is_in_check(grid, opponent(toMove))

\* The game replayed from its start along the recorded moves.
Replay ==
    FoldLeft(LAMBDA acc, h :
                LET g == Moved(acc.grid, h.move)
                    side == opponent(acc.side)
                IN  [grid |-> g, ep |-> Target(h.move), side |-> side,
                     seen |-> acc.seen (+) SetToBag({position_key(g, Target(h.move), side)})],
             [grid |-> start.grid, ep |-> None, side |-> start.side,
              seen |-> SetToBag({position_key(start.grid, None, start.side)})], history)

\* chess_game.py, apply_move and undo_last_move: after any moves and undos the
\* board, the en-passant square, the side to move and the count of every
\* position are those of playing the remaining moves from the start.
UndoExact ==
    LET r == Replay
    IN  r.grid = grid /\ r.ep = ep /\ r.side = toMove /\ r.seen = positions

\* chess_game.py, _refresh_status against undo, resignation and claims: the
\* status is what the position on the board deserves.
StatusFits ==
    /\ status = "RESIGNED" \/ status = "DRAW" \/ status = Classified(grid, ep, toMove, clock, positions)
    /\ winner # None <=> status \in {"CHECKMATE", "RESIGNED"}
=============================================================================
