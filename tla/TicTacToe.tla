------------------------------ MODULE TicTacToe ------------------------------
(***************************************************************************)
(* tic_tac_toe.py: the board with one running sum per line (O(1) win       *)
(* detection and undo), the turn and status of a game, and the minimax     *)
(* bot.  X counts +1 on a line and O -1.  With MayUndo the players may     *)
(* take moves back.                                                        *)
(***************************************************************************)
EXTENDS Integers, Sequences, FiniteSets, SequencesExt

CONSTANTS N, Opening, Bot, MayUndo, MaxMoves, None

VARIABLES grid, sums, history, winner, turn, status

vars == <<grid, sums, history, winner, turn, status>>

Symbol == {"X", "O"}
Cell == (0 .. N - 1) \X (0 .. N - 1)
Line == ({"row", "col"} \X (0 .. N - 1)) \union {<<"diag", 0>>, <<"anti", 0>>}

opponent(s) == IF s = "X" THEN "O" ELSE "X"
sign(s) == IF s = "X" THEN 1 ELSE -1

In(p, l) == CASE l[1] = "row" -> p[1] = l[2]
              [] l[1] = "col" -> p[2] = l[2]
              [] l[1] = "diag" -> p[1] = p[2]
              [] OTHER -> p[1] + p[2] = N - 1
----------------------------------------------------------------------------
\* Board._bump: the sums of the lines through p, and whether one is full.
bump(s, p, delta) ==
    [l \in Line |-> IF In(p, l) THEN s[l] + delta ELSE s[l]]

Filled(s, p) == \E l \in Line : In(p, l) /\ s[l] \in {N, -N}

available(g) == {p \in Cell : g[p] = None}

\* BotPlayer: the value of a position for the bot, wins and losses weighed by
\* the empty cells left; ties go to the first move in row-major order.
Before(p, q) == p[1] < q[1] \/ (p[1] = q[1] /\ p[2] < q[2])

RECURSIVE score(_, _, _, _)
score(g, s, last, toMove) ==
    LET free == available(g)
        worth == 1 + Cardinality(free)
        values == {score([g EXCEPT ![p] = toMove], bump(s, p, sign(toMove)), p, opponent(toMove))
                      : p \in free}
    IN  CASE Filled(s, last) -> IF g[last] = Bot THEN worth ELSE -worth
          [] free = {} -> 0
          [] toMove = Bot -> CHOOSE v \in values : \A w \in values : v >= w
          [] OTHER -> CHOOSE v \in values : \A w \in values : v <= w

BotMove ==
    LET free == available(grid)
        value == [q \in free |-> score([grid EXCEPT ![q] = Bot], bump(sums, q, sign(Bot)), q, opponent(Bot))]
    IN  CHOOSE p \in free : \A q \in free : value[q] < value[p] \/ (value[q] = value[p] /\ ~Before(q, p))
----------------------------------------------------------------------------
Init ==
    /\ grid = [p \in Cell |-> None]
    /\ sums = [l \in Line |-> 0]
    /\ history = <<>>
    /\ winner = None
    /\ turn = "X"
    /\ status = "IN_PROGRESS"

\* TicTacToeGame.make_move over Board.place_move.
make_move(symbol, p) ==
    /\ status = "IN_PROGRESS" /\ symbol = turn
    /\ winner = None /\ grid[p] = None
    /\ Len(history) < MaxMoves
    /\ grid' = [grid EXCEPT ![p] = symbol]
    /\ sums' = bump(sums, p, sign(symbol))
    /\ history' = Append(history, p)
    /\ winner' = IF Filled(sums', p) THEN symbol ELSE None
    /\ status' = CASE winner' # None -> "WIN"
                   [] Len(history') = N * N -> "DRAW"
                   [] OTHER -> "IN_PROGRESS"
    /\ turn' = IF status' = "IN_PROGRESS" THEN opponent(turn) ELSE turn

HumanMoves == \E p \in Cell :
    /\ turn # Bot
    /\ history = <<>> => p \in Opening
    /\ make_move(turn, p)

BotMoves == turn = Bot /\ status = "IN_PROGRESS" /\ \E p \in {BotMove} : make_move(Bot, p)

Restored(s, p, symbol) == bump(s, p, -sign(symbol))

\* TicTacToeGame.undo over Board.undo_move: the turn goes back only in a running game.
undo ==
    /\ MayUndo /\ history # <<>>
    /\ LET p == Last(history)
       IN  /\ grid' = [grid EXCEPT ![p] = None]
           /\ sums' = Restored(sums, p, grid[p])
           /\ turn' = IF status = "IN_PROGRESS" THEN opponent(turn) ELSE turn
    /\ history' = Front(history)
    /\ winner' = None
    /\ status' = "IN_PROGRESS"

Next == HumanMoves \/ BotMoves \/ undo

Spec == Init /\ [][Next]_vars
----------------------------------------------------------------------------
TypeOK ==
    /\ grid \in [Cell -> Symbol \union {None}]
    /\ sums \in [Line -> -N .. N]
    /\ history \in Seq(Cell)
    /\ winner \in Symbol \union {None}
    /\ turn \in Symbol
    /\ status \in {"IN_PROGRESS", "WIN", "DRAW"}

\* tic_tac_toe.py, place_move, _bump and undo_move: after any moves and takings
\* back, a winner is reported exactly when the grid shows a full line of one
\* symbol, and it is that symbol.
WinnerIsLine ==
    /\ \A s \in Symbol : winner = s <=> \E l \in Line : \A p \in Cell : In(p, l) => grid[p] = s
    /\ status = "WIN" <=> winner # None

\* tic_tac_toe.py, BotPlayer ("Exact (unbeatable) on 3x3"): the opponent of the
\* bot never wins.
BotUnbeaten == winner \notin Symbol \ {Bot} \/ Bot = None
=============================================================================
