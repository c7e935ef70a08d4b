--------------------------- MODULE NameRegistration ---------------------------
(***************************************************************************)
(* What commitAndRegister promises of one name: a secret is kept before it *)
(* is committed to, one commitment at a time is open (pending or valid on  *)
(* chain), always to the secret that is kept, and a secret is forgotten    *)
(* only while no commitment to it is open or once the name is gone.        *)
(***************************************************************************)
CONSTANTS Secrets, None

VARIABLES
  kept,     \* the secret on disk
  open,     \* the secrets with an open commitment
  name      \* who has the name: "nobody", "us" or a "rival"

vars == <<kept, open, name>>

Init == kept = None /\ open = {} /\ name = "nobody"

Keep ==
  /\ kept = None /\ open = {}
  /\ kept' \in Secrets
  /\ UNCHANGED <<open, name>>

(* A commit, or a re-commit of a secret whose commitment has lapsed. *)
Commit ==
  /\ name = "nobody" /\ open = {} /\ kept \in Secrets
  /\ open' = {kept}
  /\ UNCHANGED <<kept, name>>

(* The commitment expires, or its transaction is lost. *)
Lapse ==
  /\ open' = {}
  /\ UNCHANGED <<kept, name>>

Register ==
  /\ name = "nobody" /\ open # {}
  /\ name' = "us"
  /\ open' = {}
  /\ UNCHANGED kept

LoseName ==
  /\ name = "nobody"
  /\ name' = "rival"
  /\ open' = {}
  /\ UNCHANGED kept

Forget ==
  /\ open = {}
  /\ kept' = None
  /\ UNCHANGED <<open, name>>

Next == Keep \/ Commit \/ Lapse \/ Register \/ LoseName \/ Forget

Spec == Init /\ [][Next]_vars
================================================================================
