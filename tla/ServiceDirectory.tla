-------------------------- MODULE ServiceDirectory --------------------------
(***************************************************************************)
(* What a program that advertises services promises to its network: the    *)
(* network hears of registered services only, of each of them in the end,  *)
(* and when the program leaves, it takes back all that was ever heard.     *)
(***************************************************************************)
CONSTANT Services

VARIABLES registered,  \* the services registered so far
          heard,       \* the services the network believes in
          up           \* the program has not left

vars == <<registered, heard, up>>

Init == registered = {} /\ heard = {} /\ up = TRUE

Register(s) ==
  /\ up
  /\ registered' = registered \cup {s}
  /\ UNCHANGED <<heard, up>>

Tell(S) ==
  /\ up
  /\ S \subseteq registered
  /\ heard' = heard \cup S
  /\ UNCHANGED <<registered, up>>

Leave ==
  /\ up
  /\ up' = FALSE
  /\ heard' = {}
  /\ UNCHANGED registered

Next ==
  \/ \E s \in Services : Register(s)
  \/ \E S \in SUBSET Services : Tell(S)
  \/ Leave

Spec == Init /\ [][Next]_vars

Announced == \A s \in Services : s \in registered ~> (s \in heard \/ ~up)
=============================================================================
