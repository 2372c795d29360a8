------------------------------ MODULE MCServer ------------------------------
(* A desktop shell and a headless server, two wikis, two ports.              *)
EXTENDS Server

CONSTANTS shell, headless, here, there, p3000, p3001

(* What the shell remembers at first: the headless server's wiki with a port *)
(* of its own, or the other wiki with none.                                  *)
TheSettings == {[wiki |-> here, port |-> p3001], [wiki |-> there, port |-> None]}

TheHome == [a \in {headless} |-> here]

=============================================================================
