-------------------------------- MODULE Snakes --------------------------------
(***************************************************************************)
(* snakes_and_ladders.py: a game over a board that Board's constructor     *)
(* accepts (every such board with one snake and one ladder is an initial   *)
(* state), the three overshoot policies, doubles with their extra turn and *)
(* the forfeit after too many.  Clients call play_turn under the game's    *)
(* lock, with or without naming the player they act for.                   *)
(***************************************************************************)
EXTENDS Integers, Sequences, FiniteSets, Functions

CONSTANTS Size, Players, Faces, Overshoot, MaxDoubles, MaxTurns, None

VARIABLES jumps, position, current, streak, status, winner, history

vars == <<jumps, position, current, streak, status, winner, history>>

Cell == 1 .. Size
----------------------------------------------------------------------------
\* Board.__init__ and _add: what a board may hold.
LegalJumps(j) ==
    /\ Size \notin DOMAIN j
    /\ Range(j) \intersect DOMAIN j = {}

BoardsOf ==
    {j \in UNION {[{a, b} -> Cell] : a, b \in Cell} :
        /\ \A c \in DOMAIN j : j[c] # c
        /\ Cardinality({c \in DOMAIN j : j[c] < c}) = 1
        /\ LegalJumps(j)}

resolve(c) == IF c \in DOMAIN jumps THEN jumps[c] ELSE c

\* Game._advance for a roll beyond the last cell.
Past(start, target) == CASE Overshoot = "STAY" -> start
                         [] Overshoot = "BOUNCE" -> Size - (target - Size)
                         [] OTHER -> Size

advance(start, steps) ==
    IF start + steps <= Size THEN start + steps ELSE Past(start, start + steps)

Roll == Faces \X Faces
doubles(roll) == roll[1] = roll[2]
----------------------------------------------------------------------------
Init ==
    /\ jumps \in BoardsOf
    /\ position = [p \in 0 .. Players - 1 |-> 0]
    /\ current = 0 /\ streak = 0
    /\ status = "NOT_STARTED" /\ winner = None
    /\ history = <<>>

StreakAfter(roll) == IF doubles(roll) THEN streak + 1 ELSE 0

\* Game.play_turn; only the player whose turn it is, or an unnamed call, plays.
play_turn(roll) ==
    LET start == position[current]
        forfeited == StreakAfter(roll) >= MaxDoubles
        landed == IF forfeited THEN start ELSE advance(start, roll[1] + roll[2])
        end == IF landed # start THEN resolve(landed) ELSE landed
        won == end = Size
        extra == doubles(roll) /\ ~forfeited /\ ~won
    IN  /\ status # "FINISHED" /\ Len(history) < MaxTurns
        /\ position' = [position EXCEPT ![current] = end]
        /\ streak' = IF extra THEN StreakAfter(roll) ELSE 0
        /\ current' = IF extra THEN current ELSE (current + 1) % Players
        /\ status' = IF won THEN "FINISHED" ELSE "IN_PROGRESS"
        /\ winner' = IF won THEN current ELSE winner
        /\ history' = Append(history, [player |-> current, roll |-> roll, end |-> end])
        /\ UNCHANGED jumps

Next == \E roll \in Roll : play_turn(roll)

Spec == Init /\ [][Next]_vars
----------------------------------------------------------------------------
TypeOK ==
    /\ position \in [0 .. Players - 1 -> Int]
    /\ current \in 0 .. Players - 1
    /\ streak \in 0 .. MaxDoubles - 1
    /\ status \in {"NOT_STARTED", "IN_PROGRESS", "FINISHED"}
    /\ winner \in 0 .. Players - 1 \union {None}

\* snakes_and_ladders.py, Board and play_turn: no token ever rests on the start
\* of a jump, and the game is over exactly when one token, the winner's, is on
\* the last cell: a jump, a bounce and a forfeit included.
TokensRest ==
    /\ \A p \in DOMAIN position : position[p] \notin DOMAIN jumps
    /\ \A p \in DOMAIN position : position[p] = Size <=> (status = "FINISHED" /\ winner = p)

\* snakes_and_ladders.py, play_turn and max_consecutive_doubles: nobody has more
\* turns in a row than that, and the player changes after every other roll.
TurnsFair ==
    /\ \A i \in 1 .. Len(history) - 1 :
          history[i].player = history[i + 1].player => doubles(history[i].roll)
    /\ \A i \in 1 .. Len(history) - MaxDoubles :
          \E k \in i + 1 .. i + MaxDoubles : history[k].player # history[i].player

=============================================================================
