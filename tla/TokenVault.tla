----------------------------- MODULE TokenVault -----------------------------
(***************************************************************************)
(* What the token handling of one credential promises, while the process   *)
(* lives and no other client writes the file.  The process holds one token *)
(* and saves copies of it.  A token is only ever replaced by its           *)
(* successor, once by that of each login, or by one that was read from the *)
(* file; and copies reach the file one at a time, each made after the one  *)
(* before was saved.                                                       *)
(***************************************************************************)
EXTENDS Naturals

CONSTANTS MaxLogin, MaxRotation,   \* bounds on the tokens of an instance
          None

VARIABLES held,     \* the token in memory
          copy,     \* the token on its way to the file, None if there is none
          saved,    \* the token in the file
          logins,   \* newest login handed out
          waiting,  \* tokens of completed logins that are not held yet
          read      \* tokens read from the file

vars == <<held, copy, saved, logins, waiting, read>>

Token == [login: 0..MaxLogin, n: 0..MaxRotation]

Init ==
  /\ held = [login |-> 0, n |-> 0] /\ saved = held /\ copy = None
  /\ logins = 0 /\ waiting = {} /\ read = {}

Exchange == held' = [held EXCEPT !.n = @ + 1] /\ UNCHANGED <<copy, saved, logins, waiting, read>>

LogIn ==
  /\ logins' = logins + 1 /\ waiting' = waiting \cup {[login |-> logins + 1, n |-> 0]}
  /\ UNCHANGED <<held, copy, saved, read>>

\* a login takes effect, or is refused; never twice
EndLogin ==
  /\ \E tok \in waiting : held' \in {tok, held} /\ waiting' = waiting \ {tok}
  /\ UNCHANGED <<copy, saved, logins, read>>

Copy == copy = None /\ copy' = held /\ UNCHANGED <<held, saved, logins, waiting, read>>

Write ==
  /\ copy # None /\ saved' = copy /\ copy' = None
  /\ UNCHANGED <<held, logins, waiting, read>>

Read == read' = read \cup {saved} /\ UNCHANGED <<held, copy, saved, logins, waiting>>

\* what was read is put back, or forgotten
EndRead ==
  /\ held' \in read \cup {held} /\ read' \in SUBSET read
  /\ UNCHANGED <<copy, saved, logins, waiting>>

Next == Exchange \/ LogIn \/ EndLogin \/ Copy \/ Write \/ Read \/ EndRead

Spec == Init /\ [][Next]_vars
=============================================================================
