------------------------------ MODULE MCSession ------------------------------
(* Session with two functions of the page at once.                          *)
EXTENDS Session, TLC

CONSTANTS c1, c2, e1, p1, p2

\* Functions of the page are alike, and so are passwords.
Symmetry == Permutations(Call) \cup Permutations(Password)

\* At most one failure of Redis, of the service or of the network, or one cut
\* refresh; none of them while the effect of a render is due.
OneFault ==
    /\ failures' + losses' + (IF severed' = {} THEN 0 ELSE 1) <= 1
    /\ effect' # 0 => failures' = 0 /\ losses' = 0 /\ severed' = {}

\* The page is reloaded once, while a refresh is on its way that may still issue a
\* token.
Reloads ==
    severed # {} \/ Len(issued) = MaxTokens \/ (\A c \in Call : task[c] # "refreshing") =>
        ~Reload

\* The effect that fails is that of the first token.
Effects == effect # effect' => effect' = 0 \/ Len(issued) = 1

\* Registrations come before the first token, logins before the second.
Forms ==
    \A c \in Call :
        request[c] = NoCall /\ request'[c] # NoCall =>
            CASE request'[c].kind = "register" -> issued = <<>>
              [] request'[c].kind = "login"    -> Len(issued) <= 1
              [] request'[c].kind = "refresh"  -> TRUE

=============================================================================
