---------------------------- MODULE RefreshSlot ----------------------------
(***************************************************************************)
(* What "refresh_token:<id>" promises, apart from who writes it and when:  *)
(* at most one refresh token of the account is live, a new one retires it, *)
(* it can be dropped, and a retired token is never live again.             *)
(***************************************************************************)
CONSTANTS Jtis, NoJti

VARIABLES
  live,     \* the live token, or NoJti
  spent     \* the tokens that have been live and are not any more

slotVars == <<live, spent>>

Init == live = NoJti /\ spent = {}

Retired == spent \cup ({live} \ {NoJti})

Issue(j) ==
  /\ j \notin Retired
  /\ live' = j
  /\ spent' = Retired

Drop ==
  /\ live' = NoJti
  /\ spent' = Retired

Next == Drop \/ \E j \in Jtis : Issue(j)

Spec == Init /\ [][Next]_slotVars
=============================================================================
