------------------------------- MODULE MCTty -------------------------------
(* Tty for TLC: the tasks are alike, and so are the activations of the      *)
(* handler; three termios to change to: raw, one with other characters for  *)
(* erase, stop and end of file, and one with ISIG and without ECHOCTL; four *)
(* loads: a reader of lines that are erased and ended in changing modes,    *)
(* the same with keys inside the handler, two readers that a key may        *)
(* interrupt, two writers beside a keyboard that echoes.                    *)
EXTENDS Tty, TLC
Symmetry == Permutations(Task) \cup Permutations(Handler)
Modes == { [InitTermios EXCEPT !.canon = FALSE, !.echo = FALSE],
           [InitTermios EXCEPT !.VEOF = "a", !.VERASE = "^S", !.VSTOP = "^D"],
           [InitTermios EXCEPT !.isig = TRUE, !.echoctl = FALSE] }
Loads == { [kinds |-> {"a", "nl", "DEL", "^D"}, keys |-> 4, nested |-> 1,
            reads |-> 1, writes |-> 0, ioctls |-> 1],
           [kinds |-> {"a", "DEL", "^D"}, keys |-> 3, nested |-> 2,
            reads |-> 1, writes |-> 0, ioctls |-> 0],
           [kinds |-> {"nl", "^C"}, keys |-> 2, nested |-> 2,
            reads |-> 2, writes |-> 0, ioctls |-> 1],
           [kinds |-> {"a", "nl", "^C", "^S"}, keys |-> 1, nested |-> 1,
            reads |-> 0, writes |-> 2, ioctls |-> 1] }
=============================================================================
